# Verification of the Awaaz platform

Awaaz confirms cash-on-delivery orders by talking to the buyer on WhatsApp.
This directory holds TLA+ models of the parts of `apps/api/awaaz_api` whose
correctness depends on the order of steps, the TLC configurations that check
them on small instances, and TLAPS proofs of the properties that matter most.
Paths below are relative to `src/apps/api/awaaz_api` unless they start with
`docs/`, `infra/` or `apps/`.

## 1. Inventory

| Part | State it keeps | Operations | Interacts by | Modelled |
|---|---|---|---|---|
| Conversation state machine (`fsm/`) | none; a registry of 12 states, their tools, a transition table | `FSMDriver.step` | called once per inbound message, calls the LLM and the tool handlers | yes |
| Tool handlers (`channels/dispatch.py:719-961`) | `orders.confirmation_status`, `escalation_queue`, `customers.fake_order_count` | one handler per tool, `_outcome_from_tools` | run in the transaction of the inbound delivery | yes |
| Webhook receivers (`routers/webhooks_*.py`, nine sources) | `webhook_events` | store one row each | the providers repeat what got no 2xx; the loops poll the table | yes |
| Inbound worker (`workers/wa_event_worker.py`, `channels/dispatch.py:144-360`) | `webhook_events.processed_at/error`, `conversations`, `messages` | `_pick_one`, `handle_inbound_event`, `_mark_error` | database, LLM, WhatsApp provider | yes |
| GDPR worker (`workers/gdpr_worker.py`) | `webhook_events`, `customers`, `stores` | `_pick_one`, `_process` | same table as the inbound worker, marks before it works | yes |
| Outbound worker (`workers/retry_worker.py`, `channels/dispatch.py:46-140`) | `retry_queues`, `conversations`, `wa_opt_ins` (read) | `_pick_one`, `outbound_first_contact`, `_mark_done` | database, provider | partly |
| Order intake (`services/intake.py`, `services/dispatch.py`, `routers/orders.py`, `routers/csv_upload.py`) | `customers`, `orders`, `retry_queues` | `POST /orders/intake`, CSV upload | concurrent requests, each one transaction | yes |
| SMS requests (`routers/sms.py`) | `retry_queues` | `send_sms` | the outbound worker | yes |
| Operators (`routers/conversations.py`) | `conversations` | `close_conversation` | races with a turn in progress | partly |
| Provider clients (`channels/meta_cloud.py`, `dialog360.py`, `twilio_wa.py`) | none | `send_text`, `send_template`, `parse_inbound` | HTTP, three attempts | partly |
| LLM clients (`llm/`) | none; they read the stored history | `chat`, `_build_params` | the provider's API | partly |
| Roll-ups (`workers/billing_rollup.py`, `analytics_rollup.py`) | `billing_events`; usage records at Stripe | hourly row, report | Stripe | yes |
| Agents (`routers/agents.py`) | `agents`, `agent_versions` | create, publish a version | concurrent requests | yes |
| Tenancy and sessions (`persistence/db.py`, `deps.py`, `middleware/tenant.py`, `routers/auth.py`, `orgs.py`, `stores.py`) | settings of a connection; `organizations`, `memberships`, `stores`, `auth_sessions` | `db_for_tenant`, `db_admin`, the handlers | every request; row-level security reads the settings | partly |
| Encryption, signing | none | `verify_*` | every receiver | whether it accepts |
| Language helpers, observability, rate limit, read-only routers | none | — | pure, or I/O | no |
| Voice agent (`apps/agent`), dashboard, Shopify app, WooCommerce plugin | none of its own | — | clients of the API | no |

The hard behaviour: rows of queues claimed by polling loops, transactions that
stay open over calls of an LLM, of a message provider or of Stripe, values read
before such a call and written after it, redelivered webhooks, processes that
die between two commits, requests that both find a key free, operators that
write the same rows, connections that serve one tenant after another. What has
to hold there:

- a delivery, a redaction or a queued contact is handled by one loop, at most
  once, and comes to an end;
- a customer's message is at most one turn of one conversation, and the turns
  of a delivery are stored whole or not at all;
- the stored state, history, outcome, order status and escalation rows agree;
- closing is final; no open conversation is stuck in a terminal state;
- the order is decided only after identity check and recap;
- a provider is not told to stop repeating what is stored nowhere, but for the
  early and the false answers named below;
- a buyer is contacted only with consent and a bounded number of times;
- one order per key, stored together with its queued first contact;
- a personal record is erased exactly if a redaction was applied;
- a conversation is billed at most once, a usage record counted once but for
  the faults;
- versions are numbered without gap or double, the newest published is current;
- a statement runs in the context of its own request;
- what an LLM provider is shown of a conversation is a history it accepts.

## 2. Modules

| Module | Models | Used by |
|---|---|---|
| `ConversationFSM` | `fsm/states.py`, `fsm/engine.py`: states, tools, transition table, the pure part of `step` | all conversation modules |
| `TurnEffects` | tool handlers and `_outcome_from_tools` as functions of state and calls | `Conversation`, `InboundPipeline` |
| `Conversation` | abstract: a conversation whose turns are atomic | `LLMHistory`; refined by `InboundPipeline` through `InboundConversation` |
| `AtMostOnceQueue` | abstract: a job is claimed and settled at most once, or lost | refined by `InboundPipeline`, `OutboundQueue`, `WebhookEvents` |
| `InboundPipeline` | arrival of deliveries, worker loop, `handle_inbound_event`, operator, crashes | `InboundConversation` |
| `InboundConversation` | nothing more: one conversation of the pipeline (`Watched`) seen as a `Conversation`, and when it is one (`Undisturbed`) | — |
| `WebhookEvents` | the nine receivers and both loops on `webhook_events` | — |
| `OutboundQueue` | `retry_worker`, `outbound_first_contact`, provider attempts | — |
| `OrderIntake` | concurrent intake requests and uploads | — |
| `UsageMetering` | `analytics_rollup` and `billing_rollup` with what Stripe keeps | — |
| `AgentVersions` | `create_agent`, `create_agent_version` | — |
| `TenantSessions` | pooled connections, row-level security settings, organisations and stores | — |
| `LLMHistory` | `Conversation` with the messages of its turns: the stored history and the requests built from it | — |
| `MC*` | values of the constants for TLC | — |
| `*_proofs` | theorems (section 5) | — |

The modules meet in their tables. `webhook_events` is in `WebhookEvents` as a
table with two kinds of loops, in `InboundPipeline` as the source of
deliveries, with everything the WhatsApp loop then does. `retry_queues` is
filled by `OrderIntake` and drained by `OutboundQueue`.

### How state and actions correspond to the code

**Transactions.** The database is PostgreSQL at READ COMMITTED. A module takes
one action for the statements between two points at which another transaction
or an external call may come in between. Uncommitted rows are seen by their
own transaction only and are locked (`WaitsFor`, `Blocked`, `StoreLocked`). An
insert under a unique key waits for an uncommitted row with the same key
(`Waits`, `SlugWaits`, `Ready`). When transactions wait for each other one of
them is aborted (`DeadlockAbort`). Any statement or call between `BEGIN` and
`COMMIT` may raise (`Fail`).

**Answers.** The transaction of a request is that of a dependency with `yield`
(`deps.py:86-113`). FastAPI resumes it, and so commits, before the response is
sent up to version 0.117, and after it from 0.118; `pyproject.toml` asks for
0.115 or later. `OrderIntake` and `WebhookEvents` have both: `early`, chosen at
the start, lets `Answer` send the response ahead of `Commit`, and then `Fail` or
`CommitFails` may come after it. Their `AcceptedIsStored` say that this is the
only way in which an accepted request is not stored.

**`InboundPipeline`.** `PickLock`/`PickCommit` are the two halves of
`_pick_one` (`SELECT … FOR UPDATE SKIP LOCKED`; `UPDATE`, commit). `Drop`,
`Start`, `Skip`, `ReadConversation`, `Step`, `Handlers`, `Reply`, `Write`,
`Commit` follow `handle_inbound_event` from top to bottom; `pos` is the loop
over the messages of the payload. `read` is what the `SELECT` of the
conversation returned: `Write` uses *that* state and history, while
`outcome = COALESCE(…)` and `closed_at = CASE …` use the row as it is at the
`UPDATE`. `RejectContent` is the `CHECK` on `messages.content_type`, which
refuses some of the types the parser yields. `MarkError` is the except branch
of `_process`; `MarkErrorFails` is that update failing too. `Crash` is the end
of the process at any point, followed by a restart. `Close` is the operator's
request. `received` is in the order in which rows become visible, which is how
`ORDER BY received_at` sees them up to transactions that overlap; no property
depends on it.

**`WebhookEvents`.** A request has a transaction (`tx`) and is answered
(`answer`), a row carries the request that inserted it. `Insert` is `ON CONFLICT DO NOTHING`, `MetaInsert`
the insert whose exception is caught, `Commit` the end of `db_admin`.
`EventId` has a definition for each receiver; `Serve`, `Next` and `Spec` stand
for all nine, which differ in their id and in whether a missing signature is
let through (`Lenient`). `Work` of a row without a store is the early return of
`handle_inbound_event`; of a redaction it is the `UPDATE` of the customers
(`Subject`, external: see section 6).

**`OutboundQueue`.** `NoOptIn` inserts the escalation with
`conversation_id NULL`, which `escalation_queue` refuses, so the dispatch
fails. `SendError` is a failed attempt, delivered or not, repeated by tenacity
up to three times. `MarkDoneFails` after a success goes to the except branch,
which marks the row as failed: `_dispatch` has both calls in one `try`.

**`OrderIntake`.** A request is a sequence of lines. `Grouped` is the parsing
loop of the upload (same key collapses, invalid rows are set aside). Each
remaining line runs `Customer`, `Upsert`, `Duplicate`/`NotFound`,
`Insert`/`Refused`; `Commit` ends the request. The `retry_queues` rows that
`enqueue_outbound` adds order by order are folded into `Commit`: nobody sees
them sooner, no key makes them wait, and `Fail` stands for their `INSERT` too.

**`UsageMetering`.** `RollUp` is a tick of the roll-up, which covers the hour
before; `Clock` cannot leave an hour un-rolled unless the process was down all
through the next. Organisations are numbers: rows of one hour come in one
order, as `ORDER BY period_start` does not say which. A tick of
`billing_rollup` is `Select`, then for each record `Accept`/`Refuse`/`Timeout`
and `Mark`/`MarkFails`, then `Commit`. `aborted` is a transaction in which a
statement has failed and whose exception was caught. `refused` is settled when
a row is written: any subset of the rows, all of them included, which is the
code as it stands (below).

**`AgentVersions`.** `ReadMax`, `Insert`, `Publish`, `Commit` are the
statements of `create_agent_version`; `Refused` is the foreign key or the
unique key.

**`TenantSessions`.** A request holds one connection of the pool. `SetContext`
is `set_config(…, true)`; `local` are the settings of the transaction, `session`
those of the connection, `Return` ends the transaction and gives the
connection back. `enforced` is chosen at the start: whether the connections'
role is subject to row-level security is up to the deployment
(`infra/postgres/init.sql`). `OrgVisible` is the predicate of the policies.

**`InboundConversation`.** The row of the watched conversation, its order's
status, its customer's fake count and its escalations, as committed: `Bare`
drops from a turn which message it answered, `TicketsOf` says to which turn a
row of `escalation_queue` belongs.

**`LLMHistory`.** A turn is one of `Conversation`, together with what is said in
it. `Encode`/`Decode` are `_encode_history`/`_decode_history`, a
text abstracted to whether it is empty. `BuildParams` is each client's
`_build_params`; `Accepts` is the rule of the provider's API and external.

### What is abstracted

- An LLM response is the sequence of its tool names (in `LLMHistory` with ids)
  and whether it has text. Prompts, slots, arguments, tokens are left out.
- Tags and metadata of an order are set by the statements that set its status.
- The handlers of one response are one step, taken when the rows they update
  are free. They never report `is_error`; when they raise it is `Fail`.
- SQL is taken to do what it says. That includes parameters written
  `:name::jsonb` (`services/intake.py:107`, `routers/sms.py:39`, the
  receivers, `channels/dispatch.py:338`), which SQLAlchemy's `text()` does not
  take for parameters: the modules model the statements as they are meant.
- In all modules but `TenantSessions` the policies of row-level security let
  the statements through and store lookups find their row.
- A delivery without messages (a status update) changes nothing but its own
  row, so its event id is its own.
- Reading of the clock, wording, redaction, metrics, logging.
- In the outbound half an order's conversation is only a row that exists;
  `_ensure_conversation` returns an open one or inserts it.

## 3. Runs

| Run | Asks | Bounds |
|---|---|---|
| `Conversation` | what a decision presupposes, when a conversation is closed | all responses of at most two of the ten call names, nine turns: the longest path without repetition has seven states, and a restart through `language_fallback` fits |
| `Inbound_OneWorker` | is the history complete, is the watched conversation one of `Conversation`, in the deployment of `run_all.py`; TLC evaluates on the instance the conditions (`Undisturbed`) under which that is proved | four deliveries: two of one customer, the later with a stranger's message; one with two messages of the other customer of which the second is refused by the `CHECK`; a status update; five responses, every fault, one crash |
| `Inbound_TwoWorkers` | are deliveries of several messages all-or-nothing, what survives a second loop, and does every delivery settle | deliveries that lock two conversations in opposite orders, a redelivery in another batch, every fault, one crash, an operator; two responses, one that only talks and one that decides |
| `WebhookEvents` | what an answered request leaves behind, and what becomes of it | a redaction sent three times, once unsigned, an order with the same payload id, a Meta message; failing inserts and commits, answers before or after the commit, a WhatsApp loop and two GDPR loops, failing work and marks, one crash |
| `OrderIntake` | keys, completeness, queueing, progress | two uploads with the same two orders in opposite order (so they deadlock), a request with a clashing external id, an upload without dispatch for a customer another request creates, failures, answers before or after the commit |
| `Outbound` | consent, number of contacts, meaning of a completed row, progress | two loops, a first contact and an SMS for one order, consent changing at any time, timeouts, failures, a failing mark, two crashes |
| `UsageMetering` | is anything billed twice, how often may a row be counted, is each reported | three conversations, an organisation with two stores and one with one, two hours to bill, any subset of the rows refused by Stripe, two loops, one fault of any kind; up to three rows and `LIMIT` 2, so that it cuts and two refused rows starve a third; one conversation may get an outcome (`Deciding`), none opens in the last hour |
| `AgentVersions` | numbering under races | four requests for one agent, three of them publishing, one for an agent that may not exist yet, failures |
| `TenantSessions` | context of a statement, owners, slugs, deletion | three requests of any of seventeen calls (every handler of `orgs.py`, `stores.py` and `auth.py`, roles and organisations that are refused, workers, `db_admin`), two connections, two organisations with a store each, with and without row-level security, failures |
| `LLMHistory` | is a stored history what was said, and is it accepted | three turns from a state that admits tools, answers with no, one or two calls, admitted or refused, ids that come back in later turns, a provider that may change between turns |
| `Inbound_TerminalIsFinal` | *violated* (below) | one loop, an operator, no fault |
| `Webhooks_DuplicateIsStored` | *violated* (below) | a message delivered twice, failing inserts |

Two loops, two conversations and two keys are what the hazards need: a race has
two sides, a deadlock of row locks needs two rows, a lost update two turns of
one conversation. A third request or loop is there where one of a pair has to
fail and another to follow. A crash before, between and after the commits is
reached with one crash, since a restarted loop is a new one. What the bounds
cut off is covered by the theorems of section 5 for the safety properties named
there. Of the nine receivers TLC exercises Shopify (ids from a header) and Meta
(ids from the payload, the catch-all); the others differ from these two in the
id and in `Lenient`.

Two runs are counterexamples to what the documents or comments say:

| Run | Says | The code |
|---|---|---|
| `Inbound_TerminalIsFinal` | `docs/SPEC.md:81`: `closing` is terminal | a turn that began before the operator's close writes its state over it |
| `Webhooks_DuplicateIsStored` | `routers/webhooks_meta_wa.py:79`: "idempotent: duplicate event id is fine" | every failure of the `INSERT` is answered "duplicate", with 200, and the delivery is nowhere |

`MessageOnce` holds under `NoRebatching`: deliveries that share a message have
the same first message. `_payload_event_id` recognises a repetition by the
first message alone, and what Meta puts into a delivery is outside the code.
`HistoryComplete` is checked for one loop: with two, turns of one conversation
start from the same history and the second `UPDATE` drops the first turn, while
`HistoryExplainsState` still holds because both columns come from one read.

### Seen while modelling

Plain from one place of the code, or seen in a trace, without a run of their
own:

- The first tool of a response sets the outcome, the last the order's status
  (`docs/SPEC.md:88`, `channels/dispatch.py:958`).
- `docs/ARCHITECTURE.md:213` promises no message loss because rows persist;
  `processed_at` is committed before the work and never reset
  (`workers/wa_event_worker.py:56`): the abstract queue's `lost`.
- Button and list replies and some media are content types of the parser
  (`tests/test_meta_wa_parsing.py:110`) which the `CHECK` on
  `messages.content_type` refuses; the delivery fails as a whole.
- A row of an upload that violates a unique key rolls back the rows the
  docstring promises to keep (`routers/csv_upload.py:9`).
- The escalation of a buyer without opt-in (`channels/dispatch.py:92`) is never
  stored: `escalation_queue.conversation_id` is `NOT NULL`.
- `end_conversation` has no transition (`docs/SPEC.md:96`); `State.max_turns` is
  never read (`docs/SPEC.md:108`); no idempotency key of a tool is looked up
  (`fsm/tools.py:32`); SMS and voice rows are completed without being sent
  (`routers/sms.py:31`); the inbound message is persisted with the turn and not
  before the reply (`channels/dispatch.py:245`).
- Under row-level security `create_org` never succeeds: the owner's membership
  is not of the caller's organisation (`docs/SPEC.md:14`). `exchange_session`
  returns no memberships, since no organisation is set yet.
  `handle_inbound_event` sets only `app.current_store` while the policy of
  `stores` is by organisation (`docs/ARCHITECTURE.md:87-90`).
  `TenantSessions` has both worlds (`enforced`); nothing in the repository
  derives a tenant from a token for HTTP.
- Nobody writes `orders.metadata` `shopify_customer_id` nor
  `stores.platform_shop_domain`, by which redactions find their rows.
- `billing_rollup` asks Stripe with `id="placeholder"` (`workers/billing_rollup.py:66`;
  "replaced via configuration", says the comment, and nothing replaces it): as
  the code stands every row is refused and none reported. The model leaves to
  Stripe which rows it refuses, so this is one of its cases.
- A refused row is never set aside, so a hundred of them stop the reporting of
  everything newer (`EveryRowReported` names it); one failed `UPDATE` aborts the
  transaction of a whole tick, whose records Stripe has counted.
- From FastAPI 0.118 on "accepted" is sent before the commit that may fail
  (`deps.py:107`); Meta's receiver answers "duplicate" for any failure (above).
- `outbound_first_contact` reports a missing order as done
  (`channels/dispatch.py:72`); the foreign keys keep it from happening, so
  `SkipChannel` is the other early return alone.
- An order uploaded with `dispatch=false` is a duplicate when it is submitted
  again and is not queued then either (`routers/csv_upload.py:111`);
  `StoredIsQueued` permits it.
- An answer with neither text nor calls is stored as an empty text, and
  Anthropic refuses every later request of that conversation; an untranscribed
  voice note does the same once (`LLMHistory`: `Refuse`, `Empty`).
- `settings.vllm_model` is also used for Ollama; the Shopify app forwards to
  `/v1/integrations`, which does not exist.

## 4. Fairness

Weak fairness of each loop's (or request's) next step, in `InboundPipeline`,
`OutboundQueue`, `OrderIntake`, `UsageMetering` and for the loops of
`WebhookEvents`: the loops of `run_all.py` are asyncio tasks that run until
they are cancelled, the LLM and the HTTP clients answer or time out, and
PostgreSQL breaks deadlocks. In `WebhookEvents` the answer and the commit of an
inserted row are fair too: a request that holds a key does not hold it for ever. Nothing is
assumed of Meta, the providers, the buyers, the clock or the operators, no
fault has to happen, and a send may fail every time. A worker that dies, or
cannot record an error, leaves a row that is `lost`; `EveryEventSettles`,
`EveryRowSettles` and `EveryRequestSettles` say that nothing else keeps a row
from settling. `AgentVersions`, `TenantSessions`, `LLMHistory` and
`Conversation` state safety only and no fairness.

## 5. Proofs

All hold for every value of the constants that satisfies the module's
assumption, which says how the constants fit together (payloads are sequences
of messages, an event has a source, `Nobody` is nobody) and nothing of their
size: any number of loops, requests, rows, crashes and faults.

- `Conversation_proofs`: `EndsInClosing` and `DecisionsFollowRecap`, for every
  set of responses of any length and any number of turns. Two lemmas carry what
  the code does with a response: `TurnFollowsTable` (the next state is the same,
  the default, or along an edge of an admitted tool) and `StatusNeedsTool` (only
  an admitted tool sets the status). `DecisionAfterRecap` is not inductive: the
  states already left have to be known in every state, so `RecapInv` gives each
  state its `Prerequisites`, and a turn needs none that the state before does
  not supply. `EndsInClosing` assumes `StartsReachable`; the code inserts
  conversations in `greeting`.
- `Conversation_proofs`, the histories: `HistoryReadsBack` and
  `PairingIsAccepted`, for histories of any length and calls with any ids. `SaidInv`: the row is what was said, encoded; the calls of an
  answer are followed by their results in order (`CallsAnswered`), and every
  result stands where such a call puts it (`ResultsCalled`). That is about
  positions, not ids, which come back in later turns; the acceptance rules
  follow from it.
- `InboundPipeline_proofs`, types: `TypeCorrect`, `Spec => []TypeOK`. Before it
  lemmas about the FSM's functions: the first and last member of a set of
  positions exist; `NextState` is a state, `TurnOutcome` an outcome,
  `StatusAfter` a status. The invariant `TypeInv` adds what types do not say: a
  worker past `ReadConversation` has a conversation, a worker past `Start` a
  delivery with messages, `pos` stays within reach.
- `InboundPipeline_proofs`, the queue: `OneHolderHolds` and `QueueRefinement`.
  `OneHolder` is not inductive: that a delivery in `processed` is no longer
  `Pickable` has to be known together with where its holder is (`QueueInv`).
  Each action is then one of Enqueue, Claim, Apply, GiveUp, Lose, or leaves
  `JobOf` alone.
- `InboundPipeline_proofs`, the conversation: `TerminalIsClosed` and
  `ClosingIsFinal`. A commit replaces rows by versions staged earlier, so the
  invariant `ConvInv` speaks of them: a staged or committed row in a terminal
  state is closed, a staged row is closed if the committed one is and keeps its
  outcome (`StagedOK`), and at most one transaction stages a row (`OneVersion`,
  the row lock). `ClosedIsFinal` is then a fact about each single step.
- `InboundPipeline_proofs`, the turns: six theorems about what turns leave
  behind. `StepIsTurnStep` reduces the actions to eight kinds of step, and each
  invariant says of a transaction's staged rows, and of what a turn read before
  the LLM was called, what the property says of the tables.
  - `MessageOnceHolds` (`OnceInv`): the histories a worker has or stages name
    only messages of committed deliveries and of the part of its own delivery it
    has gone past (`Handled`, `Passed`); the unique key makes the message at hand
    a new one. It assumes `NoRepetition`, that one delivery does not name a
    message twice, which nothing in the code checks.
  - `HistoryExplained` (`PathInv`): what a turn read is explained, so what it
    writes is, whatever was committed in between.
  - `NoHalfDeliveryHolds`: rows come in pairs (`HalfInv`: inside a turn only
    its own outbound row is missing, `Owed`); a transaction has stored, or found
    no open conversation for, each message of its delivery that it has gone past
    (`WholeInv`); a reply that is sent is of a delivery its worker holds, until
    that commits it or gives up (`SentInv`).
  - `EscalationTicketed` (`TicketInv`): the last effectful call of a response
    decides the status, and if it escalates it is among the calls that insert a
    ticket.
  - `DecisionsHaveOutcome` (`DecisionInv`, with `ConvInv`): between the handlers
    and the conversation's `UPDATE` the outcome is still to come (`Deciding`).
  - `HistoryIsComplete` (`CompleteInv`) assumes `OneWorker`, the one loop of
    `run_all`: then nothing changes the history a turn has read.
- `InboundPipeline_proofs`, one conversation: `ConversationRefinement`. What
  `Conversation` does in one step the pipeline does in several statements of a
  transaction that may fail, deadlock or die at each of them, so `ViewInv` says
  what the commit of every open transaction will do to the four tables as the
  watched conversation sees them: nothing (`Untouched`), or exactly one turn by
  one response (`Turned`); and of a turn under way how much of it is written
  (`Effects`, `Heard`, `Settled`, `UnderWay`). `ConversationStep` then maps a
  commit to a turn or a stutter, and everything else to a stutter; the number
  of turns is bounded by the number of messages since none is answered twice
  (`OnceInv`). The conditions, and what breaks without them:
  - `OneWorker` (`run_all.py`): with two, the later `UPDATE` drops a turn;
  - `Closers = {}`: an operator's close is no turn;
  - `NoRebatching`, `NoRepetition`: a message answered twice has one key for
    the tickets of two turns;
  - `OneAtATime`, one message of the customer per delivery: two are two turns
    and one commit;
  - `OwnRows`: another conversation about the same order, or with the same
    customer, writes the same columns.
- `InboundPipeline_proofs`, what follows: `PipelineDecidesAfterRecap` and
  `PipelineEndsInClosing`, the two theorems of `Conversation_proofs` for every
  conversation of the pipeline under these conditions. `Whole` instantiates the
  proofs, `SameConv` says that both instances are the same specification.
- `WebhookEvents_proofs`: `AcceptedAreStored`, `AcceptedAreKept`,
  `QueueRefinement`, `ErasedExactly`. `TableInv`: only committed requests are in
  the table, a loop holds one stored row and shares it with no other, only a
  processed row has an outcome; `UniqueKey`: one row per key, counting the one
  being inserted; `OwnKind`: a loop holds rows of its kind. `AcceptedAreKept`
  assumes `IdsNameEvents`, that ids the providers call unique are; it is the
  one thing the code cannot establish.
- `OutboundQueue_proofs`: `QueueRefinement`, `ContactIsBounded`,
  `ContactNeedsConsent`, `OkIsContacted`. `RowInv` says who holds which row,
  `ContactInv` counts: a row not yet picked has delivered nothing, a dispatch
  at its n-th attempt at most n - 1 templates. `ContactIsBounded` assumes
  `OneContactPerOrder`, what `OrderIntake`'s `OneOrderPerKey` and the code of
  `enqueue_outbound` give.
- `UsageMetering_proofs`: `NobodyIsBilledTwice`. `BilledOnce` says nothing of
  where a row's quantity comes from; `RowsInv` does: each row is of an hour that
  is over and counts no more than the decided conversations opened then in one
  store of the organisation (`RowOK`), and no two rows have one key. What the
  rows add up to is the cardinality of their units (`Units`), which an injection
  into the decided conversations bounds, so no induction over the rows is
  needed. `ReportedIsCounted` (invariant `TickInv`) and
  `OverReportIsBounded`. The bound is not inductive: the count of a row says
  nothing of the loops that have it before them. `Balance` charges every count
  to a loop or to a fault, and reserves in advance for the loops that may still
  call.
- `AgentVersions_proofs`: `VersionsAreNumbered`, `CurrentIsNewest`.
  `Numbering`: the numbers of an agent are 1 .. k, who computed a number found
  all smaller ones taken, and an uncommitted row is the only one of its number.
- `OrderIntake_proofs`: `AcceptedAreStored`, `OneOrderForKey`,
  `StoredAreQueued`. `RequestInv` says how far a request has come (`Progress`)
  and whose lines it inserts (`OwnLines`); `AnswerInv` which requests may have
  been answered and that an order is of a committed request; `Distinct` says of committed and
  uncommitted rows of all transactions that no two conflict.
- `TenantSessions_proofs`: `EveryRequestInOwnContext` (`PoolInv`: a connection
  serves one request, a request has one connection, no setting outlives a
  transaction), `OrganisationsHaveOwners` (`OrgInv`), `SlugsAreUnique` and
  `StoresStayOwn` (`StoreInv`: an uncommitted row is new with a free key or a
  version of a committed row of the caller's organisation, and no other
  transaction has one with its id or its key). `TenantAssumption` includes that
  the rows at the start have owners and unique keys, and that the id of a new
  row is new.

Only model-checked: liveness (`EveryEventSettles`, `EveryRowSettles`,
`EveryRequestSettles`, `EveryRequestEnds`, `EveryRowReported`), which is beyond
the proof system. Every other property of a passing run is a theorem.

## 6. Not modelled

- Voice agent, dashboard and shop plugins: clients of the API; the agent keeps
  its state in LiveKit and in prompts, and its calling window and answering
  machine check are functions of the clock and of a reply.
- Language helpers (`detect_language`, `number_to_urdu_words`): functions on
  characters, which no modelled pipeline depends on.
- Observability, rate limit, redaction of logs, read-only routers: no state
  that a property is about. Encryption and signing are a verdict (`Authentic`).
- `schedule_retry`, `chat_stream` and the compliance checks of `apps/agent`
  have no caller. The states `out_of_scope`, `voicemail_fallback` and `failed`
  are in the registry and cannot be reached.
- Receivers whose id does not name the event: a call's `CallSid` (later status
  events of the call), `X-WC-Webhook-Id` (the webhook, not the delivery: every
  later order of a WooCommerce shop), and "unknown" where a payload has no id.
  Their later events are answered "accepted" and dropped by
  `ON CONFLICT DO NOTHING`; `EventsKept` is about the others (`Identifying`).
- Rows of Shopify and WooCommerce orders, of `generic`, Stripe and the voice
  callbacks are consumed by nobody, so nothing is said of them after they are
  stored.
- What the analytics roll-up drops: of several stores of an organisation
  `ON CONFLICT (org_id, event_type, period_start)` keeps the row of one, an
  outcome that comes after the roll-up of its hour counts nowhere, and an hour
  through which the process was down is never rolled up. `RollUp` and `Clock`
  model all three; `BilledOnce` bounds from above only (`docs/COSTS.md:134`
  rolls usage up per organisation and hour).
- Whom a redaction selects (`Subject`) is external: the columns it compares are
  written by no code of the repository.
- A composition of intake, outbound and inbound half: a reply that arrives
  before the outbound commit finds no open conversation, and a customer with
  two open orders answers the one opened last. The modules show either side;
  the product of their states is too large to explore, and the documents do not
  say what is meant.

## 7. Plan

Done: the conversation core with its refinement, the three queues with theirs,
intake, metering, versions, tenancy, histories, and a proof of every safety
property and refinement the runs check. What is left:

1. `OneAtATime` in `ConversationRefinement`: several messages of a customer in
   one delivery take one step in the pipeline and several in `Conversation`, so
   it needs an abstract step of several turns.
2. A composition of `OutboundQueue` and `InboundPipeline` over one order, once a
   document says to which order a reply belongs.
3. Pure algorithms against reference definitions: the calling window, AMD.
