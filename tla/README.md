# TaleTribe agents: a TLA+ development

This directory keeps formal models of the `taleTribe-agents` service beside its code: TLA+ modules
translated from the source, TLC configurations that check them on small instances, and theorems
TLAPS proves for every size. Paths below are relative to `src/`.

## The system

| Component | State it keeps | Operations | Talks to |
| --- | --- | --- | --- |
| Assistant run loop (`assistant/run.py`, `api.py`) | one run: the budget, the messages, the calls of the current answer, what has settled, a few flags | `run_assistant`: prompt, director's answer, tool dispatch, drafts, terminal event | model provider, specialists, executors, the browser (SSE) |
| Specialists (`assistant/specialists/`) | shared `RunBudget`, `asked`, `run_findings` | `run_consult`, `consult_stream`; consults of one wave run concurrently | model provider, run loop |
| Connector writes (`mcp_server/writes.py`, `story_data.py`) | `mcpWrites/{key}` reservations in Firestore | `create_story`, `create_chapter`, `append_to_chapter`, `edit_chapter_blocks` | story-data over HTTP, Firestore |
| Connector OAuth (`oauth_store.py`, `oauth_provider.py`, `oauth_routes.py`) | Firestore: clients, transactions, codes, tokens, families | register, authorize, approve, deny, exchange, refresh, access, revoke | Firestore, the consent page, the MCP SDK |
| Connector front (`access.py`, `throttle.py`, `tools.py`) | cached verdicts, token buckets | `_authorized_uid`, `is_allowed`, throttles and body limit | Firestore, the tools, the SDK's handlers |
| Reading tools (`tools.py`, `data.py`, `executors.py`) | none | rosters, chapter pages, block pages, search | story-data |
| Block algebra (`blocks.py`, `writes.py`) | none | split, join, apply operations by index | the write tools |
| Entity proposals (`entity_changes.py`) | none (the browser returns them) | bind, validate a continuation | story-data, run loop, the browser |
| Index outbox (`postgres_context.py`) | PostgreSQL: outbox rows with leases, daily usage, chunks | claim, budget, defer, source, replace, complete, fail | embedding provider |
| Voice learning (`voice_learning.py`) | PostgreSQL: one rate row a story | claim, process | story-data, model provider, a Function |
| HTTP server, rate limiter (`server.py`, `rate_limit.py`) | bucket tables, image slots | `execute_agent`, credit and provider routes, image generation | story agent, creditProxy, image service |
| Story agent and provider client (`agents/storyAgent`) | none | an action from context to answer; retries | creditProxy |

What makes them hard: consults of one wave share a budget and are cancelled together; the run can
end between any two yields; Firestore offers preconditions on single documents, so every protocol of
several documents has states between its writes; a model edits by indices and revisions it read some
calls ago, while the writer goes on editing; the process may die, an answer may be lost, a paid
request may be served after its client gave up, a clock may run out, a TTL collector may delete a
document, at any of those points.

`PROJECT.json` lists every component, the hazards at their lines, and which property guards each.

## Modules

| Module | Models |
| --- | --- |
| `RunBudget` | `specialists/budget.py`: the counters a run and its specialists share |
| `MeteredRun` | abstract: what a run may spend, and that it stops |
| `AssistantRun` | `run.py`, `specialists/runner.py`, the disconnect of `api.py`; EXTENDS `RunBudget`, implements `MeteredRun` |
| `Firestore` | external: documents as functions, written and deleted one at a time |
| `WriteReservation` | the reservation protocol of `writes.py` (`_claim`, `_record`, `_release`) |
| `McpWrites` | the write tools, story-data and the web editor; EXTENDS `WriteReservation` |
| `OAuthGrants` | `oauth_store.py` with the handlers of `oauth_provider.py` and `oauth_routes.py` that drive it |
| `IndexOutbox` | the claims, budget and worker of `postgres_context.py`, and the loop of `server.py` around it |
| `RateLimiter` | `rate_limit.py`: token buckets in a bounded table |
| `AccessGate` | `access.py`: the cached allowlist; EXTENDS `RateLimiter` |
| `ConnectorFront` | `throttle.py`, the checks of `tools.py` and `oauth_routes.py`, client records; EXTENDS `AccessGate` |
| `ModelRequests` | `llm_provider.py`, `agent.py` and the paid routes of `server.py` |
| `VoiceLearning` | `voice_learning.py` and the writer; EXTENDS `ModelRequests` |
| `ChapterBlocks` | `blocks.py` and `_apply_ops` of `writes.py`, as pure operators |
| `ResultFitting` | `_fit` and `_fit_chapter_window` of `executors.py`, as pure operators |
| `EntityProposals` | `entity_changes.py`, the browser that applies a proposal, the writer |
| `StoryTools` | the reading and editing tools over one story; EXTENDS the last three |
| `AssistantRunProofs`, `McpWritesProofs`, `OAuthGrantsProofs`, `IndexOutboxProofs`, `ConnectorFrontProofs`, `VoiceLearningProofs`, `ChapterBlocksProofs`, `StoryToolsProofs` | the theorems |
| `MC...` | instances for TLC, one for each composed module |

### The run loop

`pc` is where the generator of `run_assistant` stands: `start`, `prompt` (context, history),
`loop` (about to ask the director), `stream`, `plain` and `review` (the two waves of consults),
`dispatch`, `draft`, `ended`. `calls` are the tool calls of the current answer, `settled` the ones
whose result the model will be told, `building` and `asking` the consults between their claim on the
budget and their end. One action per await: a consult claims its budget (`ConsultStarts`), asks
(`ConsultAsks`), and answers, fails or is cancelled; `StreamText`, `StreamCall` and `StreamFails`
are the director's stream. `RunTimeout`, `PromptFails` and `Disconnect` may strike at any await.
Tool calls are abstracted to the kinds the loop tells apart (`Menu`), a tool's result to whether it
succeeded, a specialist's reply to whether it could be used. `LateMenu` bounds what a third call of
one answer may be.

A run can end at `cut`: its timeout fires while the generator is suspended at a yield, or its reader
is gone, and no terminal event is sent.

`verdicts` counts `tool.completed` and `tool.failed` events per call; `directorAsked`,
`specialistAsked` and `reviewsAsked` count requests that really went to a model. They are what the
budget is compared with and what the meter sees.

### Connector writes

A call (`Calls`) has a key (`KeyOf`) and a key a tool (`ToolOf`): identical calls share a key. `pc`
follows a call through `_claim` (create, read, take over, vacant), its work (list the chapters or
read one, send, hear the answer), and `_record` or `_release`. `docs` is the collection of
reservations; a document carries its expiry, the result and a write stamp, which is what
`last_update_time` compares. `wire` is the request to story-data: sent, then applied, in conflict or
refused, and the answer may be lost (`NoAnswer`) whatever the service did. The web editor adds,
deletes and saves chapters between any two steps. `Dies` ends a call at any point; a request to
Firestore under way then (the first create, the takeover, the create of `_claim_vacant`, the merge of
the result) may have been applied or not.

The text of a chapter is the set of writes it contains, so a lost update is a write missing from
it. Time advances by `Tick`, which is held back so that no call runs longer than `MaxRun`. `MaxRun`
below `TTL` says calls are shorter than their reservations, which the code does not enforce: the
HTTP client's timeout is shorter than 120 s, but nothing bounds the wait for a worker thread. So
`OneWinner` and `OnlyOverrunsStay` do not rest on it: they name the keys a call has outlived its
reservation of (`Overrun`, kept in `overran`) and hold for every other key. Only `RepeatsReplay` is
about calls shorter than the TTL.

That every reservation expires (`EveryReservationExpires`) is false, and `slow_write_kept` shows it:
`_record` sets the result with `merge=True` (`writes.py:309`), so a call that outlives its reservation
and its collection writes a document without `expiresAt`, which `_expired` never reports and nothing
collects: its result is replayed for ever. `OnlyOverrunsStay` is what is true: nothing but such a call,
no crash, lost answer, takeover or collection, leaves such a document.

### OAuth grants

A request has a kind (approve, deny, exchange, refresh, access, revoke) and a target. A token is
named by the request that minted it. Each Firestore call is one action; what a request read is in
`snap`, and a precondition (`TxnUnchanged`, `Consumable`, `FamilyUnchanged`) compares it with the
document at the time of the write. `marked` (until when a family must be known as revoked),
`condemned` (its tokens at that moment) and `late` (requests that arrived with one of those) are
history: no guard reads them.

The SDK's handler that loads a token before calling `revoke_token` is outside `src/`; the model
starts at `revoke_token`, which is more permissive.

One corner is left open on purpose: `CondemnedStayOut` speaks of access tokens. A refresh token
the sweep never reached, consumed just before it expires, can go on to mint into a family whose
document has expired and been collected: `save_token_pair` reads an absent family as a new one. The
pair is minted seconds after the retention of the mark ends, so `NoMintIntoMarked` is stated up to
that end.

### Index outbox

`outbox` is the table story-data appends to with every save and deletion: a row's source, operation
and revision never change, and `delivered`, `wait` (nothing, thirty seconds after a failure, the next
day after a refusal of the budget) and `lease` are what the worker's UPDATEs set. `revision` and
`gone` are story-data's own tables. A worker's `pc` follows `run_once`: `idle`, `batch` (at the head of
its loop), and for one event `charge`, `replace`/`purge` and so on to `complete`, `defer` or `fail`;
`batch`, `skip`, `event` and `text` are its locals. One action per statement of SQL or await.

The clock is abstracted to what can pass: a lease may lapse (`Lapses`), a wait may end (`RetryDue`), a
day may begin (`NewDay`). `Slow` says whether a lease may lapse under a worker still in its batch;
the five minutes of a lease are per batch of twenty embeddings and nothing enforces them. The proofs
hold for both values. A text is the revision it was read at, and the chunks one transaction
inserts are one row, told apart by its worker.

The DELETE of `replace_chunks` and `delete_chunks` is two actions, as READ COMMITTED has it: it sees the
rows committed when it starts (`Sees`) and waits for a transaction that holds one of them (`Unlocked`);
rows another worker inserts in between are neither seen nor deleted. The transaction stays open while
the chunks are embedded (`embed`), and an error rolls it back.

A retried older event can relabel current text with its own, older revision (one worker, the older
event failing and the newer delivered first): the hit is then flagged stale although it is not. No
document promises otherwise, and no property forbids it.

### In front of the connector

`RateLimiter` has every instance of `PerUserRateLimiter`: `buckets` by limiter and key, `order` for
the eviction, and `admits`, the history `BurstsSpaced` speaks of. `allow()` never suspends while it
holds its lock, so it is part of the step that calls it. Tokens are counted in parts so that a refill
is exact: `Minute` parts a token, `max_per_minute` parts a tick.

`AccessGate` runs in worker threads: looking at the cache, reading the record and storing the verdict
are three actions (`LooksInCache`, `ReadsRecord`, `StoresVerdict`), and lookups of one user may
overlap. `Administrator` grants and revokes. A lookup takes `MaxLookup` at most; `RevocationLands` is
stated up to the cache's life and one lookup, since a slow lookup may cache a verdict that was
revoked, or denied to a later one, meanwhile.

`ConnectorFront` composes them: `_authorized_uid` (limiter, gate, scope, write limiter), the consent
page (limiter by address, id token, gate by the token's user), and `OAuthThrottleMiddleware` in front of the SDK's handlers, which
are external: they may begin to answer before the body has been read, and call the provider
(`ClientReads`, `ClientRenews`, `Grants`, `Registers`). A connection goes on to its next request once
it was answered; `starts` counts the responses begun on it. One client registration is followed
through sliding renewal and Firestore's TTL collection.

`ClientOutlivesTokens` needs two margins, which its theorem states exactly (`LivesLong`). The record
must live twice as long as a refresh token and the request that renews it, since the renewal happens
only past half its life and the token is minted after; in production it is 90 days to 30, though the
constructor alone guarantees only twice the token. And the collector must lag behind the expiry by
the length of a request: with none, a record could go between a request's read and its renewal, and
`get_client` would still return it. TLC finds both failures with the margins taken away.

### Paid requests and voice lessons

`ModelRequests` follows a request from its route (`Arrives`, `TurnedAway`) through the context an
action reads to an attempt at creditProxy and what becomes of the answer. creditProxy is external:
an attempt stays `inflight`, and may be served and charged, also after its client timed out or lost
the connection. `Classify` and `ReplyTo` are the tables of errors and of the statuses the routes
make of them; `Retries` is the tenacity policy. `stop_after_delay(30)` only stops scheduling, so it is
a free choice at each failure. `PaidOnce` is the comment above the decorator made exact: one charge,
and for a generation one more for each attempt that broke off, as `/v1/generate` carries no idempotency
key. What creditProxy does with the account is outside this repository. It is assumed that it charges
for what it serves and for nothing it refuses (`Refuses`); a 5xx for a request that was or may still be
served counts as breaking off (`Disconnects`), since the code retries both alike
(`llm_provider.py:154`).

`VoiceLearning` adds the lessons: a preflight after a save (`material`, then `Claims`, one upsert), and
the pass the Function sends with the claim, perhaps more than once (`SpendsClaim`, material again, the
model, the conditional update). The writer edits chapter and profile throughout. What is spaced and
counted is claims: a claim may be spent much later, so two analyses may be close together.

### Tools over one story

`ChapterBlocks` takes content as the sequence of events Python's HTML parser reports, unclosed and
superfluous tags among them; `Scanned` is `_Splitter` after each of them, `SplitBlocks` the
blocks it cuts, and `ApplyOps` the splicing from the back; `MeantBy` says what the operations ask for,
all at once and on the blocks as they were. `ResultFitting` has the two fitters with their binary searches; sizes are
those of the JSON encoding, where a character may take several (`CharWidth`).

In `StoryTools` the caller is a model that does as the tools' descriptions say: it lists a chapter's
blocks page by page, edits by index at the revision it read, goes on from the revision a write
returned when the block count is the one it expected, and reads text page by page. `editions` is the
chapter's history, with what each edit meant on the caller's listing (`MeantBy`); `listing` and `reading` are what the caller knows. A page is fetched and delivered in two
actions, since its place in reading order is another request. `told` is the last roster.

`EntityProposals` binds a proposal change by change; a collection is read once, at the first change
that needs it, and the writer may work between two reads. The browser applies an approved proposal in
order under If-Match. Ids are given by the model as ids or names, and `Find` is the code's lookup.

Some things the models show and no property forbids. With a ceiling so small that not even one
character fits beside the title (`config.py:54` allows 256, titles have up to 500 characters),
`_fit_chapter_window` returns `next_offset = offset` and a reader makes no progress: `HasRoom` in
`PagesTile` leaves that case out, for progress only. `split_blocks` drops what stands before the first
block and makes none, such as a stray `</br>`, although its module says it must never lose a byte.
`search_story` cuts each passage to its share of the ceiling without a mark (`FitsPassages`).
Deleting the block between two texts merges them, and the caller learns it from the block count.
A name taken by the writer after a proposal read its roster makes two rows of one name.

## Runs

| Run | Bounds | Shows |
| --- | --- | --- |
| `assistant_run` | 4 model calls, 1 review, 1 or 2 consults, answers of up to 3 calls out of every kind of call (a third asks the critic), fairness | budget and events agree; each call is answered once; reviewers last; no wordless completion; `MeteredRun` is implemented; every run ends; no specialist is left billing |
| `assistant_room` | answers of up to 2 calls, 2 or 3 consults | **finding**: a room may require a proposal it withholds |
| `connector_writes` | 3 identical calls of `create_chapter`, TTL 1, time to 2, 2 attempts, fairness | one winner; honest replays; one chapter per call; calls end |
| `edit_writes` | 2 identical edits of revision 1 and a `create_story`, one editor step, calls of any length | no lost update; one edit per revision; only a call longer than its reservation leaves a document without an expiry |
| `slow_write_kept` | 2 identical calls of `create_chapter`, TTL 1, calls as long as the time, to 2 | **finding**: a result recorded too late is kept for ever |
| `story_writes_repeated` | 3 identical calls, TTL 2 | **finding**: a repeat after a lost answer makes a second story |
| `oauth_grants` | 3 requests of any kind, a consent page and a pair already issued, time to 2 | one grant per consent; one heir; pairs revoked together; marks hold; condemned tokens stay out |
| `index_outbox` | 1 worker, 2 sources, 3 saves or deletions, batches of 2, 1 pass a day, 1 failure, 1 crash, fairness | no old text passes for current; the drained index is right; the outbox drains |
| `index_outbox_workers` | 2 workers, 1 source, 2 events, no failure | **finding**: with two workers an old text can survive |
| `connector_front` | 2 connections, 1 user, bursts of 2 tool calls and 1 registration, 2 ticks a minute, time to 3, 1 decision of the administrator | bursts are spaced; one answer a connection; clients outlive their tokens; revocation lands |
| `voice_learning` | 2 requests at a time, 2 attempts each, 2 lessons a day of 3 ticks, 1 step of the writer | a call is paid for once; lessons are rationed; the writer prevails |
| `story_tools` | contents of up to 9 tokens, lists of up to 2 operations, 3 editions, rosters of up to 7 rows, 2 proposals of 2 changes and 1 edit of a row | edits land where they were read; listings hold; pages tile; no roster is cut in silence; proposals stand alone |

Why these bounds are enough to be interesting. Two waves need a colleague and a reviewer, and a
third call shows a wave of two; four model calls allow a nudge, a consult and a last answer, and run
out. Three calls on a key let one take over an expired reservation while another reads it and a
third arrives afresh. In `connector_writes` a position is lost to a request whose caller no longer
waits for it, so that the retry loop both succeeds and gives up; the editor's chapters come to the
same conflict and are in `edit_writes`. Access tokens live 1 and refresh tokens 2, as in production one
outlives the other, and time runs as long as both, so that what stands or is minted at the beginning
expires and is collected while requests go on. Three events make a
batch of two with one left behind: two of one source supersede, one of another competes for the only
pass of the day, and the one failure and crash can hit each of them.

In `connector_front` two connections make two lookups of one user overlap, a bucket of two refills
within the time, and a client's record (life 4, of tokens of life 1) is renewed and outlived. Eviction
needs several users and is covered by the theorem only. A behaviour has either tools and consents or
registrations and token requests (`Mixes`): the two share no limiter, no record and no connection.
In `voice_learning` the loads are apart for the same reason (`EachLoad`): actions and routes share
nothing between requests, images share the slots, lessons the rate row. Two attempts show a retry and
the giving up. In `story_tools` the contents have paragraphs, a heading, a list, bare text, an unclosed
and an unopened element; two operations, always sent in the harmful order, are the least that can
move one another; three editions are the first and two writes, or a write and a save between. The
loads (`Loads`) are apart as reading, editing, listing and proposing share only the chapter, which the
writer changes in each that uses it. Two edits of rows were checked as well and show nothing else.
Symmetry is used only where no liveness property is checked.

Deadlock is not checked: each system stops when its run, its calls, its bounded clock or its story
are over.

### Fairness

* `AssistantRun!FairSpec`: the loop and its consults go on. Every await has a timeout of its own
  (provider, specialist, executors). The run's timeout, the reader and errors are not assumed to happen.
* `McpWrites!FairSpec`: each call's own steps. The HTTP and Firestore clients have timeouts, so
  every await returns or raises; the service may never answer.
* `IndexOutbox!FairSpec`: each worker's own steps, as awaits return or raise and `run_indexer` loops
  for ever; leases, waits and days pass. Nothing is assumed of the author, and errors and crashes are
  finitely many.

The other modules promise nothing that must happen in the end: a request ends when its single chain
of awaits does.

## What is proved

| Theorem | Says |
| --- | --- |
| `RunTypeOK`, `RunBudgetAccounted` | type correctness; the budget equals what was really asked plus what is held |
| `RunImplementsMeter` | `Spec => Meter!Spec`, the refinement of `MeteredRun` |
| `RunEveryCallAnsweredOnce`, `RunReviewsComeLast`, `RunNoWordlessReply` | for any menu, budget, number of calls and turns: every dispatched call has one result, reviewers start last, a reply has words |
| `WritesHaveOneWinner`, `WritesOnlyOverrunsStay` | for calls of any length: a key has one winner, and its documents an expiry, until a call of it outlives its reservation |
| `WritesRepeatsReplay` | under `MaxRun < TTL` |
| `WritesTypeOK`, `WritesLoseNoUpdate`, `WritesEditOnce`, `WritesOneChapter` | with no assumption on time |
| `GrantsMarkHolds`, `GrantsNoMintIntoMarked` | revocation is durable and nothing is minted past it |
| `GrantsOneHeir` | rotation keeps a family a chain |
| `GrantsTypeOK`, `GrantsOneGrantPerConsent`, `GrantsRevokedTogether` | a consent is worth one grant; an answered revocation leaves no half of a pair |
| `GrantsCondemnedStayOut` | under `MarkOutlasts`, the mark keeps out the access tokens no sweep reached |
| `OutboxTypeOK`, `OutboxUnflaggedIsCurrent` | the daily ceiling and honest labels, for any number of workers and whether or not leases lapse under them |
| `OutboxLastResultSurvives` | for one worker (`OneWorker`), the drained index is right |
| `LimitersSpaceBursts` | for any limits, tables and keys, evictions included |
| `ConnectionsAnsweredOnce` | for any number of connections and any limits |
| `RevocationsLand` | for any number of overlapping lookups, cache sizes and decisions |
| `ClientsOutliveTokens` | under `LivesLong`, for any number of racing connections |
| `CallsPaidOnce` | for any number of requests and attempts |
| `LessonsAreRationed`, `WriterAlwaysPrevails` | for any number of preflights and passes, any spacing and ceiling |
| `BisectFinds`, `FitHoldsCeiling` | what the binary search of the fitters finds, and what the ceiling guarantees, for results of any size |
| `ToolsRosterNeverSilent` | for any ceiling, ladder, limits and sizes |
| `ToolsPagesTile` | under `ReadersOnly`, for any chapter, window, ceiling and widths of characters |
| `ToolsProposalsStandAlone` | for any story, drafts and edits of the writer |
| `SplitFormed`, `JoinedBlocksHold` | for any content: its blocks are blocks by themselves, and blocks joined to a content are found again behind its own if the count is the expected one; if not, it is smaller |
| `EditsAsMeant` | for any blocks and any operations `_apply_ops` accepts: spliced from the back, they give what they ask for all at once |
| `ToolsEditsLandWhereRead`, `ToolsListingsHold` | for any chapters, texts, page sizes and operations, and any saves of the writer in between |

The run loop's invariant (`IInv`) adds to types and accounting where consults may stand
(`Placed`: only positions of the current wave are building or asking), what the waves hold back
(`HeldBack`) and that dispatch starts with no consult under way (`DispatchFits`). Accounting is not
inductive without them: a refund is right only for a consult that claimed and has not asked.

The answers of a step are one invariant more (`AnswerInv`): what is settled has one verdict and nothing
else has one (`Answered`); dispatch leaves nothing unsettled behind it, so when the loop turns the calls
are settled (`Passed`); and from the place where the second wave begins, every advising call of the
first has settled (`ReviewsWait`).

The reservation proof rests on ownership (`LeaseInv`): as long as no call of its key has outlived its
reservation, the document of a call past its claim is there, unexpired, with its stamp, and not taken
over. The clock is no hypothesis: the step of time that would break it puts the key among those of
`Overrun`. `RepeatsReplay` needs more, that no call ever does (`Prompt`, from `MaxRun < TTL`, a
hypothesis of the theorem and not an assumption of the module). `NoLostUpdate`
and `OneEditPerRevision` need no clock: they rest on story-data's `If-Match`, a draft being the text at
the revision it was read at.

`RepeatsReplay` adds what a document says (`ReplayInv`): it expires a TTL after its writer began, and one
with a result is of a call of its key that wrote (`Sound`); as long as the TTL of a call that reported its
own result lasts, that result is what the document of its key holds (`Remembered`). So of two calls
of a key with a result of their own, one claimed after the other's TTL. `OneChapterPerCall` needs no
clock: a call past its one successful POST never posts again.

The OAuth proofs first establish `GrantTypes`, then `MarkInv` (a family document marked revoked is
not overwritten, and a mint whose snapshot precedes the mark fails its precondition), then `HeirInv`: of
the refresh tokens of a family and the mints under way at most one is live, every known pair is of its
own family, and consuming a token moves the one live place to the consumer.

The answers of the grants follow in the same module. Consent: the transaction's write has the precondition
of the read before it, so one request turns it and stores its code; the code's deletion has one too, so
of the exchanges one gets past it, and no other is stored. Revocation: the names of tokens are minted once, so a token
that is revoked or gone stays so (`TokensFade`), and a request that sweeps has seen its pair.
Condemned tokens: loading an access token reads the token and then the family. A token its family had
at the mark expires `RefreshTTL - AccessTTL` or more before the mark is collected, and a request that
found it alive ends within `MaxRun`; so it still finds the mark. `MarkOutlasts` is
`AccessTTL + MaxRun <= RefreshTTL`: the code has an hour and thirty days (`config.py:93`).

The outbox has two invariants. `LabelInv`: an event's revision is at most the revision of the text
read for it, and that at most its source's, so a row whose label is the source's current revision has
the current text. `SurvivalInv`: as long as the index is wrong about a source, some event of it is
owed (undelivered, not superseded, of its last revision), and what the worker is about to write is
right or another event is owed. The second is false of two workers: while one embeds, the other can
deliver the owed event. `OneWorker` is therefore a hypothesis of its theorem, and
`index_outbox_workers` is the counterexample without it.

For the connector, `BurstsSpaced` speaks of every stretch of a key's history and says nothing of the
tokens left, so it is not inductive. `Accounts` adds what a bucket holds: for each admission on record,
what was taken since and is left in the bucket is at most what a full bucket and the refill since
that admission give. A refill keeps the account since it is capped, taking a token moves one unit
from what is left to what was taken, and a new bucket starts a new record. `Exchanges` says which
places of a request go with a response begun: only the body and what follows it, and at most one.
`GateInv` makes `RevocationsLand` inductive: whatever verdict is on its way or in the cache is about
someone who is granted, or was since the lookup that found it began, and a stored verdict adds one
cache life to that. `ClientInv` adds to the record's expiry where a request stands: one about to renew
has a record that expires after the request began, and one about to mint has a record that outlives
the token it mints, `MaxRun` being the longest it may still take.

For the paid requests, `Accounted` counts what may still be charged: at most what is due at the place
a request has reached, one for the attempt awaited or answered, and for a generation one for each
attempt that broke before. For the lessons, `Rations` reads the rate row back: its stamp is no earlier
than any claim, its count is the number of claims of its day, so a claim that passes the row's test
respects spacing and ceiling. `Holds` says a claim in the row or with a request is unspent and with one
holder, since `SpendsClaim` takes it from the row in the same statement. `Studies` says what a pass
proposes, it proposes for the profile it has read, and that the profile of an unchanged revision is
unchanged; If-Match does the rest.

For the tools, a statement about all numbers is the set of the numbers it holds of. The library's
induction takes an operator, which the provers cannot instantiate, but that a set of naturals has a
least member (`WFMin`) takes none, so a counterexample may be taken to be the least (`LeastOf`,
`Induction`). The same lemma shows that a function defined by recursion over the naturals exists and
satisfies its definition (`Recursion`, `BisectRuns`). `BisectFinds` then says of the search,
for every set of numbers that fit, that what it returns fits, and that it finds the widest if every
narrower one fits. `_fit` says (`executors.py:193`) that the encoded size is monotone in the width: not
quite, as `_encode` writes an ellipsis in six characters, so cutting off fewer lengthens a text. Hence
the search may settle for less than the widest; that the result fits, `FitHoldsCeiling`, does not
depend on it.

`ReadInv` makes `PagesTile` inductive: what has been read is the beginning of the edition it is of, and a
page on its way is a piece of the edition it was fetched from, at the offset asked for and with the next
offset after it. Its hypothesis `ReadersOnly` says no load both reads and edits: the writer saves any
sequence of tokens, so to a reader an edit by the tools is one of those saves.

`EntityInv` makes `ProposalsStandAlone` inductive. While it is bound, every change of the proposal still
applies to the rows there are, unless the writer meddled with its row (`Pending`); what was read of the
story is how it is, up to the writer's edits (`Snapshot`); changes are distinct, so no name taken by one
is taken by another, and the rows a proposal made are told apart. When it is applied, a change that
succeeds leaves the others of the proposal to apply, and there are as many fresh identifiers as
creations left (`ShownInv`).

For the blocks, `ChapterBlocksProofs` reads the scanner as a function of the tokens before a place. Where
two contents agree on the depth and on whether a text is running, and go on with the same tokens, the same
blocks begin (`Agree`, `ScansOnAlike`). So a block cut out of its content is one block by itself
(`OneBlock`), and every block but the last closes what it opens (`SplitFormed`). Such blocks in a row
(`Formed`), joined to a content, are found again behind its own, with two exceptions: a text runs into the
text before it, and an added paragraph is swallowed by a tag that was left open. Either loses a block, and
none is ever gained, so a count that is the expected one says what the blocks are. This is
`JoinedBlocksHold`, by induction over the blocks, and it is why a caller may go by the block count a write
returns. It asks that the content joined to closes what it opens, or that the blocks are elements around
text (`Wraps`), as added paragraphs are.

Joining is associative with the empty content as unit, so parts may be grouped at will. In `EditsAsMeant`
the operations are taken in their order from the back: when those behind a block are done (`Reached`), the
blocks up to it stand where they stood, and what is behind them joins to what was meant for them. With two
operations on one index, or in another order, that fails; `NormalOps` refuses the one and `FromTheBack` is
the other. `EditInv` lifts it to the tools: what the caller knows is the beginning of the list of blocks of the
edition at its revision (`Listed`), and an edit is stored at that revision only, so the blocks it addresses
are the ones the caller read. After a write whose count was the expected one, the caller's list is that of
the new edition, by `JoinedBlocksHold`. Two assumptions say what the provers must know of the inputs:
heading tags are strings (`BlocksAssumption`), and saved contents are sequences of tokens, texts plain
and not empty, operations typed (`EditsAssumption`).

Constants are as weak as the code: budgets are naturals (the run's ceilings come from settings), a
limiter's setting any integer, sets of calls, users and requests arbitrary, finite where a cardinality
is taken.

Only model-checked: liveness (`RunEnds`, `SpecialistsStop`, `CallsEnd`, `Drains`), which is out
of the prover's reach. Every invariant and every other action property of a passing run is the statement of
a theorem.

## Findings

1. `assistant_room`: in a consulting room on an editable selection, reading the editor makes the
   loop require `propose_editor_edit` (`run.py:725`), which the room withholds: the next answers have no
   acceptable call until the budget is spent. `ROOM_RULES` and the comment at `run.py:603` say the room
   proposes nothing; the flag at `run.py:1258` is set without asking whether this is a room.
2. `story_writes_repeated`: `create_story` releases its reservation after any failure, also when
   story-data stored the story and the answer was lost; the repeat then makes another, which the
   tool's description (`tools.py:487`) rules out.
3. `slow_write_kept`: a call slower than its reservation records its result into a collected document
   (`writes.py:309`), and makes one without `expiresAt`. It is never expired (`writes.py:115`) and never
   collected: later identical calls get the old result for ever, where `writes.py:239` has expiry live
   in `expiresAt` and `tools.py:487` speaks of two minutes.
4. `index_outbox_workers`: events are leased one by one and not per source, so two instances of the
   service work on one source at once, and the slower writes what it read before the newer save or
   deletion was delivered. Both events are then delivered, and old or removed text stays searchable
   (flagged stale, as `OutboxUnflaggedIsCurrent` shows) until the next save.

## Plan

Done: the run loop with its budget and meter; reservations and write tools; OAuth grants; the index
outbox; limiter, gate and throttles; paid requests and voice lessons; the pure algorithms of blocks
and fitting with the tools around them; entity proposals; a proof of every safety property.

Next:

1. The event sequence of `events.py` as an abstract specification the run loop implements.
2. The history budget (`history.py`) and the context of a specialist (`context_builder.py`) as pure
   operators beside `ResultFitting`.

## Not modelled

Prompts, parsing of replies, formatting, previews, audit logging, the wire types, infrastructure and
developer scripts: they keep no state and the properties do not depend on their wording. PKCE,
redirect and scope comparisons are single comparisons made by the SDK. `list_my_stories`, the fields
of an entity, the context of an open editor and the queries that search the index read without
writing. The validation of a run's request before its loop, the voice note the director may write
(`update_story_voice_profile`) and start-up and settings of the server are not modelled yet. The rows
of the outbox whose story is gone depend on a schema outside this repository.
