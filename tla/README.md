# Verification of SELLAPIKIRO

TLA+ models of the shop that sells API keys (`src/storefront`), the service that
manages them (`src/keyadmin`) and the proxy that honours them (`src/kiro-go`), the
TLC runs that check them on small instances, and TLAPS proofs about them.
`PROJECT.json` lists components, runs, planted faults, hazards and theorems, and for
every definition the source lines it stands for.

## The system

    customer --pay--> SePay / USDT chain / PayPal
        |                     |
        v                     v
    storefront (SQLite) --HTTP--> keyadmin --GET+PUT--> kiro-go (config.json)
        ^                            ^                      |        ^
      admin                    Telegram bot            upstreams   clients
                                                  (Kiro, Codex, Grok)

| Component | State it keeps | Operations | Talks to |
|---|---|---|---|
| Storefront: orders (`orders.go`, `payments_*.go`, `handlers_shop.go`, `handlers_admin.go`) | rows of orders, payments, issued_keys; one mutex `fulfillMu` | checkout, "I have paid", three gateways, fulfilment, admin approve and cancel | keyadmin over HTTP with a timeout; the gateways |
| keyadmin (`main.go`) | none: the expiry and the pause of a key are written into its NAME | create, delete, pause, resume, hours, expiry, rename, credit, enable | kiro-go's admin API: a GET of all keys, then a PUT |
| API keys of kiro-go (`config/apikeys.go`, `proxy/auth.go`, `proxy/admin_apikeys.go`) | `cfg.ApiKeys` under `cfgLock` | CRUD, reset, admission by limit, billing after the reply | the request handlers |
| Key expiry cron (`scripts/check-key-expiry.sh`) | none | list, find the expired, switch off | the admin API |
| Claude streaming (`proxy/handler.go`, `proxy/kiro.go`) | per request: the account loop, the endpoint loop, the frame parser, the event writer, an idle guard in its own goroutine | accounts tried in turn; text, reasoning and tool frames turned into events | the pool, the upstream, the client |
| Account pool and token refresh (`pool/account.go`, `account_failover.go`, `handler.go`) | accounts, cooldowns, an atomic index, usage counters; copies in the configuration; `tokenRefreshMu` | pick, success, throttle, error, ban, reload; renewal by request, by timer and by the admin | the configuration, the sign-in service |
| Codex and Grok pools (`pool/codex_*.go`, `pool/grok_pool.go`) and the account loops in `codex.go`, `grok.go` | accounts in flight, cooldowns, quota streaks; a health checker | pick, acquire, release, cool down, switch off, probe, switch on again | the configuration, their upstreams |
| Route of a request over Kiro, Grok and Codex (`handler.go`) | a counter for the split; per request: what is on the wire | by name of the model, by share, silently as a fallback, "Kiro full" | the three account loops, key billing, the request log |
| Grok and Codex replies (`grok.go`) | per request: what is held back by the scrubber, open blocks, calls by index | deltas, reasoning, calls, the completed snapshot, to three kinds of client | the upstream, the client |
| Request translation (`translator.go`) | none | a Claude or OpenAI conversation to a Kiro payload; truncation, shrinking after a refusal | the stream handlers |
| Web search (`websearch.go`, `websearch_loop.go`) | per request: rounds, budget | the tool alone, the loop beside other tools | Kiro, accounts |
| Responses API (`responses_*.go`) | one JSON file per response, with an expiry | stream or whole, save, continue a chain | the account loop of Kiro |
| Prompt cache accounting (`cache_tracker.go`) | entries by account and prefix, with lifetimes | Compute before a request, Update after it | the handlers |
| Sign-in (`auth/*.go`, admin handlers) | sessions with timers, one listener on a fixed port | portal with two legs, device code, pasted callback, imports | the browser, identity providers, the configuration |
| Configuration file | one JSON file under `cfgLock` | every setter rewrites it | all of kiro-go |

What is hard here:

* *Money is booked before it is delivered.* A crash, a timeout or a repeated webhook
  between `INSERT INTO payments` and the key decides whether a customer pays twice, is
  served twice, or never. Correct: a payment causes at most one delivery, for one
  order; an approved order was delivered.
* *An update of a key is a read and a write by two processes*, beside billing and
  deletion. Correct: usage is not lost, a deleted key stays deleted, the time left
  survives pause, resume and rename.
* *A limit is checked when a request starts and charged when it ends.* Correct: the
  overshoot is bounded by the requests in flight.
* *Four nested retry loops over a stream that may stop anywhere*: accounts, places
  of an account, payload variants, effort. Correct: they end; nothing of an abandoned
  attempt reaches the client; the client always reads a well-formed message.
* *An account is copied, changed and written back by many*, and lives in the pool and in the
  configuration. Correct: the pool follows the configuration; a request is refused only
  when nothing is left.
* *A rotating refresh token is good once*, and four kinds of worker use it, two of them
  without the lock. Correct: the token the provider accepts is never overwritten, and requests
  alone never use one twice.
* *Load is counted in a second critical section, and given back on every way out of a loop.*
  Correct: it is the number of requests that hold the account.
* *Three providers answer for one another in silence.* Correct: one answer, one charge, one
  row that says OK, and each provider its share.
* *A provider's text comes twice, as deltas and as a snapshot, and must be scrubbed of names
  that a delta may cut.* Correct: once, whole, and without half a name.
* *A conversation is merged, narrated and cut until Kiro accepts it.* Correct: calls and results
  pair, no result is lost, the payload fits.
* *Text is held back to find tags cut by frames*, while reasoning, tool calls and the
  end of the stream flush it. Correct: nothing is lost, repeated or reordered.

## Modules

| Module | Models | State and actions |
|---|---|---|
| `PaymentLedger` | the promise about money: a payment is booked for one order, and gives each thing once, after the booking | `ledger`, `given`; `Book`, `Give` |
| `Orders` | order fulfilment | tables as sets and functions; a `payer` is a goroutine that serves a gateway and runs `fulfillOrder`, a `clerk` one that serves the approve button; one action per statement that touches shared state; `late` holds calls given up by a timeout which keyadmin may still carry out; `Crash` clears the goroutines and the mutex, never the tables |
| `OrdersProofs`, `ApiKeysProofs`, `ClaudeStreamProofs` | theorems about the module of that name | see [Proofs](#proofs) |
| `PoolProofs` | theorems about `AccountPool`, `PoolScan` and `BackendPool` | |
| `AccountsProofs` | theorems about `TokenRefresh` and `SignIn` | |
| `RequestsProofs` | theorems about `Cascade`, `WebSearch`, `Responses` and `CacheTracker` | |
| `ConversionProofs` | theorems about `GrokStream` and `Translator` | |
| `SequenceLemmas` | lemmas about recursive functions and the operators on sequences that the other proofs share | |
| `Selection` | the elements of a sequence at chosen places, as an operator that proofs can use | `Select` |
| `ApiKeys` | keys, keyadmin, billing, cron | `entry` is `cfg.ApiKeys`; an operation of keyadmin is `Start` (what `kiroFind` returned), `apiUpdateApiKey` (kiro-go copies the entry) and `UpdateApiKey` (writes it back); a request is `authenticate` and later `RecordApiKeyUsage` or `Abort` |
| `SseProtocol` | what an Anthropic client accepts | block grammar, signatures, `<think>` marks |
| `ClaudeWriter` | the closures of `handleClaudeStream` as operators on one record of their shared variables | `sendText`, `startContentBlock`, `closeActiveBlock`, `Scan` (a round of `processClaudeText`) |
| `ClaudeStream` | one streamed request | `pc` is where the handler stands; the loop over accounts, `CallKiroAPI`, frames, idle guard, event by event writing, billing |
| `AccountPool` | which account of the Kiro pool a request gets, and who changes accounts meanwhile | `cfg` is the configuration, `entries` the copies that `Reload` makes; `req` is a handler's loop over accounts, `job` a goroutine of the admin's pages or of `refreshAllAccounts`; each write of a whole account and each `Reload` is a step; `allow` is the setting for accounts over their quota, which a picker reads once (`req.over`) and the administrator changes meanwhile |
| `PoolScan` | the loop of a pick over the weighted list, many pickers under the read lock at once | `currentIndex` is the one counter they all move, with its overflow; `Draw` is one `AddUint64` and what is found at that slot |
| `BackendPool` | the Codex and the Grok pool, `family` saying which, and everything that works on them | `caller` is an account loop: `Pick` under the read lock, `AcquirePicked` in a second critical section, one action per kind of answer, `DisableAccount` and its reload as two steps; the health checker and the administrator, each write and each reload a step |
| `TokenRefresh` | the token of one Kiro account | `stored` and `pooled` are the copies of configuration and pool; `provider` (external) rotates refresh tokens or not; `ensureValidToken` under `mutex`, timer and pages without it, the two writes of a renewal, whole-account writes, restart |
| `SignIn` | how accounts are added | `port` is the one listener, `leg2` the second leg, `mail` what it delivers; polls of the admin's page run at once; tabs and providers are external |
| `Cascade` | the route of one request | `queue` is what is left to try; one action per way an account loop ends; `header` and `committed` are what cannot be taken back; `answer`, `charged`, `rows` |
| `GrokStream` | one reply of Grok or Codex on its way to an OpenAI, Claude or JSON client | `spoken` is what the upstream said, its calls with what became of them (done, cut by text, done after that, only done, only in the snapshot); `live` is the writer with its two scrubbers, its open blocks, the call it writes (`cur`) and how each call was handed on |
| `Translator` | from a conversation to the payload | `UserSays`, `ToolSays` and `AssistantSays` build any conversation, `ClaudeToKiro` and `OpenAIToKiro` run the whole translation, `TooLong` the shrinking after a refusal; the passes of the code are operators of their names |
| `WebSearch` | the search tool | rounds (`callUpstreamForWebSearch`), searches, the flush |
| `Responses` | the Responses API with its store | a request loads its chain, streams or collects, writes a temporary file and renames it, and tells the client; expiry and crash |
| `CacheTracker` | the accounting of the prompt cache | `Compute` and `Update` of several requests beside the clock |
| `MCAccounts`, `MCRequests` | two runs that each check several modules: a variable `part` chooses in the initial state which of them moves, so that the states of the parts add up and do not multiply | |
| other `MC*` | instances for TLC | |

The modules meet at their edges. An outcome of `Cascade` (`BackendServes`, `PromptTooLong`, ...) is
an end of a loop of `BackendPool` or of `AccountPool`; a failure of `ensureValidToken` there is
`TokenRefresh`; the frames that `ClaudeStream` and `GrokStream` read answer the payload of
`Translator`. Each side leaves the other's choices open, so that what is shown of one
holds with any behaviour of the other.

Operators whose comment begins with "Mutant" (and `Mut*`) are planted faults, never part of a
specification. Each is a plausible bug of the code (a dropped guard, a missing reset), and
PROJECT.json names the property that notices it.

### How the data is abstracted

* `Orders`: a price is a small number, the offset of `uniqueUSDTAmount` one of `Cents`;
  the amounts of the bank and of PayPal follow from it, and PayPal's may fall short by `Tolerance`
  (0.01 USD in the code). The text of a transfer is the
  order it names. Checkout is two steps because the SELECTs for a free amount and the
  INSERT are two statements.
* `ApiKeys`: a name is a title, a mode and a time; parsing and formatting of the markers
  are what they do to these. Cost is one credit per request. The key string itself, its
  collisions, and a failing write of the config file are left out.
* `ClaudeStream`: text is a sequence of pieces (a stretch of text, an opening or closing
  tag, a thought, a tool call), each with the attempt it came from. Tags are not split,
  because the buffer always keeps more runes than a tag has. `ReplyIsExact` compares
  what the client got with the tags' own meaning (`AnswerOf`, which reads what the upstream said
  piece by piece and knows no frames), not with the writer.
  Which account is picked belongs to the pool: accounts come in order, none twice.
  Pings are stuttering steps.
* `AccountPool`: of an account only what a pick looks at (enabled, banned, over its
  quota). Where in the list a pick starts and what the others draw is left open here, since `currentIndex`
  is moved by every picker, and so the list is a function of ids without its weighted repetitions: the
  slots, the weights and the counter are in `PoolScan`, which leaves open in turn what is wrong
  with an account; tokens may be about to expire and their refresh may fail at any time; the
  third error in a row, which costs a minute, may be any error. `unloaded` is a history
  variable: it is set by `apiRefreshAccount`, which writes without a `Reload`.
* `BackendPool`: why an account is off is told apart by who switched it off, for the checker
  looks at that. A cooldown ends, and a usage window resets, at any moment. Among equally
  loaded accounts any may be picked, which covers the rotating index. The usage headers of an answer may be
  missing; then what is known of the account's usage stays.
* `TokenRefresh`: a token is the number of the renewal it comes from. `raced`, `burnt` and
  `stale` are history variables.
* `SignIn`: a code is the tab it was given to; a deadline passes at any moment. Region
  discovery and the shape of tokens are left out.
* `Cascade`: an account loop is one step per outcome that another layer can tell apart; the
  shares may be edited during the request.
* `GrokStream`: text is a sequence of a letter, a space and the two halves of a name. The name
  list is one name, which may be written with a space inside; what it becomes is shorter, so
  that a length kept from before the rewriting is noticed. `spoken.aloud` is a history variable: the
  thinking as the writer read it, with the summaries that repeat it. `NoNameInHalves` speaks of
  thinking only while nothing was sent after what was held back: when renaming has made the text heard
  shorter than the upstream's, the rest of the summary is sent again behind the flush, and the two can
  meet in the middle of a name; a repetition can also lengthen a run. The arguments of a call are
  counted, not spelled. The upstream speaks of one call at a time, which is what the writers are made for: they keep one (`cur`).
* `Translator`: text is a sequence of units, a result is `Body` units of its id, the size of a
  payload is its units and one per turn. A history is a slice of pointers in Go, so what a pass cuts
  of a turn stays cut in every slice that shares it: the last cut of `shrinkPayloadToHardLimit`
  keeps the first two turns as the passes before left them. The loops of the code are recursive
  functions over the length of what they read, or over the units that they can still take away. JSON escapes, images, schemas and model names are left out.
* `WebSearch`, `Responses`: pieces of an answer are numbered, not written; a response is the
  number of its id. A piece of text in `Responses` is words, white space or a tag that begins or
  ends a thinking, so that `extractThinkingFromContent` has something to take out; tags are not split.
* `CacheTracker`: a fingerprint is the prefix itself (a hash without collisions); the two
  lifetimes keep their order and the 85 percent cap its arithmetic. `lives` is a history variable.

## Runs

| Run | Question | Bounds, and why they are enough |
|---|---|---|
| `orders` | No payment delivers twice or for two orders; approved means delivered; `fulfillMu` serialises; refinement of `PaymentLedger` | two orders of one price (a sale without duration, a linked renewal with one), one payment per gateway, one press of the button, two payment goroutines, one fault: every pair of concurrent attempts on one order, and a crash, a lost call and a late call each at every point |
| `orders_live` | a payment that reaches `fulfillOrder` is approved when nothing fails | no faults, bank and chain: who holds the mutex, who waits |
| `orders_linked` | finding: the id of a sold key is never found | every order has a duration |
| `orders_transfer` | finding: a transfer pays a cheaper order | two orders of one price, one transfer |
| `api_keys` | usage, deletion, time left, overshoot | one key, two operations by two workers, two requests, a clock of two values, negative, no and positive hours and credits, limits 0 (unlimited) and 1: each operation against each other one, with billing, deletion and reset in every gap |
| `api_keys_cron` | finding: the job never disables anything | one worker, one request; fair clock and cron |
| `claude_stream` | grammar, exact text, single billing | three frames of four shapes, all thinking options, one account: any two cuts of text around a tag, a thought or a tool call, and the end or a break after each |
| `claude_failover` | one author, clean fallback, bounded calls, termination | two accounts with two endpoints and one frame each: every failure of each layer followed by every other |
| `claude_context` | finding: the context is blamed though one account failed otherwise | two accounts |
| `accounts` | *Kiro pool*: an account is served from cooldown, or over its quota, only if it must or may be; pickers on one counter starve no account; the pool ends up with the accounts of the configuration. *Codex and Grok pools*: load is exact, the pool is what is enabled. *Token*: it is not lost, requests do not burn it. *Sign-in*: one account per sign-in, codes go to their own flow, the port comes free. 1.9 million states | Kiro pool: two accounts, one handler with two attempts, two jobs one after the other: a background round runs the same failure handling as a handler, so every pair of a request and an edit, a refresh, or another goroutine's ban meets in every order. Scan: a list of three slots, one account in two of them and one in the third, three pickers, and a counter that overflows at 5, which is no multiple of 3. Backends: two accounts, one of them warming up, two requests, `Threshold = 2` (a streak that ends and one that does not), two troubles or edits: a failure of one request and an edit, or of two requests, in every order. Token: two requests, one renewer and one page, so that each kind of worker meets each other; two renewals, so that one may start from what another wrote. Sign-in: two sign-ins, tabs and polls (an old tab answers a new session; two polls fetch one code) and three records |
| `requests` | *Route*: one answer, charge and row; shares; who may be left out. *Grok reply*: text, names, calls. *Translation*: what Kiro accepts, results, size. *Web search*: budget and blocks. *Responses*: history and object. *Cache*: what is reported. 4.2 million states | Route: shares at, under and over 100, counters on both sides of each boundary, one edit. Reply: four events of the upstream, with a name whole, cut in halves, with a space inside, and after a space; `MaxHold = 2`, so that a run of three letters is too long; a call with text inside, before its end and behind it. Translation: all conversations of up to four messages with two ids; `MaxTold = 7` against `Body = 3`: three results told at once are cut; `Limits = 12` and `HardTarget = 8` make each of the cuts happen, and happen too late. Search: budgets of 1, 2, the program's 3 (0 and 9), two tools in a round. Responses: four responses and a depth of 1: a chain longer than the depth; three pieces of an answer: a thinking and a call, or text on both sides of a call; one crash, failed save or expiry at every point. Cache: two requests on one account, prompts with a common prefix, marked for either lifetime, under and over the threshold and the cap; three values of the clock |
| `pool_ban` | finding: a refresh page leaves its own ban behind | one page, no request |

`MaxTicket`, `MaxFault` (`Orders`), `MaxTime`, `MaxUsed`, `MaxLimit`, `MaxOp` (`ApiKeys`),
`MaxFrame` (`ClaudeStream`), `MaxTime`, `MaxJob` (`AccountPool`), `MaxTrouble` (`BackendPool`), `MaxIssue`
(`TokenRefresh`), `MaxRecord` (`SignIn`), `MaxSplitEdit` (`Cascade`), `MaxEvent` (`GrokStream`), `MaxTurn`
(`Translator`), `MaxUse` (`WebSearch`), `MaxResp`, `MaxPart`, `MaxRespMishap` (`Responses`), `MaxHour`
(`CacheTracker`) are bounds of the models and not of the code. `Hold`, `HoldThinking`, `Keep` (50, 20 and
15 runes), `MaxAccount`, `Endpoints`, `FirstBeats` and `IdleBeats`, `Attempts`, `Short`, `Minute`, `Hour`,
`Threshold`, `MaxHold` (64), `MaxTold` (4000), `Limits`, `HardTarget` (400 KB), `MinRecent`, `MinField`
(512), `maxWebSearchRounds`, `maxResponsesHistoryDepth`, `MinCacheable`, `Brief`, `Lasting`, `Tolerance` (0.01 USD), `Wrap` (2^64) stand for
constants of the code. `CHECK_DEADLOCK FALSE` is set for `Orders`, `ApiKeys`, `accounts` and `requests`, whose
systems stop when the bounded customers, faults, events or responses are used up or the one request has
been answered; `ClaudeStream` is checked for deadlock, its end being the action `Done`.

### Fairness

* `Orders!FairSpec`: a handler that has started goes on (weak fairness), because each
  HTTP call has a timeout and each statement returns; a waiter gets `fulfillMu` (strong
  fairness), because `sync.Mutex` hands over to starved waiters in turn. Customers,
  gateways, the admin and late calls owe nothing.
* `ClaudeStream!Spec`: the handler goes on, heartbeat ticks and the idle guard's
  cancellation happen. The upstream owes nothing: it may fall silent at any point.
* `ApiKeys!CronSpec`: time passes and cron runs its script.
* All other specifications assume none: their properties are about what a step may do and
  what is true when a request has ended, however slowly its upstream answers.

## Proofs

`OrdersProofs` proves, for any orders, payments, goroutines, faults and bounds, from
`OrdersAssumption` (constants of the right sort; references of different gateways and
presses of the button are distinct; the mutex's free value is no goroutine):

* `TypeCorrect`: `Spec => []TypeOK`.
* `Invariant`: `Spec => []Inv`.
* `DeliveredOnce`: `Spec => []OneDeliveryPerPayment`.
* `FulfilmentImplementsLedger`: `Spec => ImplementsLedger`.
* `ApprovalFollowsDelivery`: `Spec => []ApprovedIsDelivered`. `DeliveryInv` adds that a payer past
  a call of keyadmin was answered, so that an order which only waits for its approval is delivered.
* `OneAtATime`: `Spec => []OneFulfilmentAtATime`, from `Inv`: two payers past the mutex are one, and
  a clerk that works has pressed the button.

*Why `Inv` is needed.* `OneDeliveryPerPayment` counts calls, and says nothing of who may
make the next one, so it is not inductive. `Inv` adds: a payment or a press is
booked for one order; whatever was done, or may still land late, belongs to a booked
ticket, was done at most once and not both done and pending; a payer past the
booking holds `fulfillMu` (so there is at most one), works for a booked payment, and
the calls it has still to make have not been made; the same for a clerk and its
press. The step that carries the argument is `InsertPayment`: the unique index lets
only a fresh reference pass, and for a fresh reference nothing has been called. A late
call (`Land`) is covered because a caller that gave up never goes on to call again.
Each action has a lemma, and those which leave booking, calls and jobs alone share one.

`ApiKeysProofs` proves, for any keys, admins, requests, limits and bounds, from `ApiKeysAssumption`
(requests are a finite set, for they are counted; the value that means "no key" is no key; limits and
bounds are naturals):

* `TypeCorrect`: `Spec => []TypeOK`, and `KeysTyped`, which adds `OpsOK`: what an operation sends follows
  from the entry it saw when it started (`Sends`), and a write has every field of an entry. This is
  what is left of the entry after other admins have changed it.
* `UsageIsKept`: `Spec => []UsageIsNotLost`. Every write lays the fields of an old copy over the entry
  but never its counter (`WrittenOf`), and a bill adds to counter and history alike (`UsageStep`).
* `DeletedStays`: `Spec => DeletedStaysDeleted`. Any write to a key that is gone is refused.
* `OvershootBounded`: `Spec => []OvershootIsBounded`. Usage alone
  is not inductive, for admitted requests are still to be billed: `LimitInv` says that the usage and the
  requests in flight on the key, together, stay under one of the limits it had plus the number of
  requests, and that its present limit is one of them.
* `UnlimitedAsked`: `Spec => UnlimitedIsAsked`, and `TimeKept`: `Spec => TimeLeftIsKept`, both from
  `WritesStep`, which says which step ends an operation and with what, and from `Sends`. For the first
  the history `limits` carries the argument: an old copy that is written back has a limit which the
  key had at some time, so it cannot bring a 0 that was never there.

`ClaudeStreamProofs` proves, for any upstream, accounts, endpoints and timeouts and any lengths of text
held back, from `StreamAssumption` and `WriterAssumption` (the lengths are naturals, at least one piece
is kept back, and no more than what is held):

* `Implements`: `Spec => ImplementsProtocol`, every event that the client reads is a step of `SseProtocol`.
* `OneReply`: `Spec => []OneAuthor`; `FallbackClean`: `Spec => []FallbackIsClean`; `CallsBounded`:
  `Spec => []CallsAreBounded`; `TypeCorrect`: `Spec => []TypeOK`.
* `BilledOnce`: `Spec => []Billing`, a request is billed once if it was served and not otherwise.
* `ReplyExact`: `Spec => []ReplyIsExact`. The invariant `Told` says at every place of the handler what
  the client still has coming: what it has heard, then the queue read out (`Hears`), then the buffer read
  on by the tags' own meaning (`ReadOn`), gives what the upstream has said so far (`Owes`); a tool
  call waits behind the text before it. The scan for tags, which looks at a buffer that is longer or
  shorter depending on the frames, reads the same as the tags' meaning wherever it is cut, and each
  operator of the writer moves pieces from the buffer to the queue without changing the whole.

*The invariant* has four parts. `HandlerOK` gives the types; `RoundsOK` counts the calls: no more than
the place in the list of endpoints, and a whole list for a shortened payload and for a new profile.
`ReplyOK` relates three parties: what the client has heard, the events queued for it and the writer's
variables. `Agrees` says that the queue, read out by the client, leads it through states it
accepts (`Path`) to the one that the writer believes it is in (`Fits`): block, index, phase and an open
`<think>` mark. Without the path in between, no step of the client could be shown legal, for the writer
runs ahead of it. The writer's operators are walked through one by one (`ToolUseRight` and its like), and
each is shown to keep `Right`: it agrees with the client, holds back pieces of the present attempt only,
and keeps the buffer as the scan for tags needs it (`Held`). `PlaceOK` says what is true at each place
of the handler: before an account or an endpoint is tried nothing was heard, queued or held back.

`PoolProofs` proves of `AccountPool`, for any accounts, handlers, goroutines and bounds, from
`PoolAssumption` (ids and bounds are naturals, cooldowns positive):

* `TypeCorrect`: `Spec => []TypeOK` (the run's `AccountsTypeOK` has it as a part). `TypeInv` adds that a handler past its pick holds a real
  account, and that a round's snapshot covers exactly the accounts it has still to visit.
* `PoolFollows`: `Spec => []PoolFollowsConfig`. The debt of a `Reload` moves from step to step of
  the process that wrote: `Settled` lists the ways a step may discharge or keep it,
  `HandlerSettles` and `JobSettles` show that every step does one of them, and `KindInv` says
  which goroutines can stand where a debt arises. No fact about what the list looks like is used.
* `CoolingIsLast`: `Spec => CoolingLastResort`, from
  `TypeInv` and `PickIsItsOwn` (a pick that holds the read lock ends by its own step).

Of `PoolScan` it proves, for any list with any weights, any number of pickers and any size of the counter,
from `ScanAssumption` (the list and the counter's range are not empty, each slot has an owner):

* `ScanTypeCorrect`: `ScanSpec => []ScanTypeOK`.
* `PassedOver`: `ScanSpec => []PassedOverForATurn`. `ScanInv` says of every picker in the loop that what it
  has seen and what others took are all the slots of the counter's values from some value on
  (`Covers`), as many at least as it has drawn; and as many values in a row as the list has slots meet
  every slot (`EveryRemainder`).

Of `BackendPool` it proves, for any accounts, requests and bounds, from `BackendAssumption` (accounts
and requests are finite sets, for they are counted; the threshold is at least 1):

* `BackendTypeCorrect`: `BackendSpec => []BackendTypeOK`. `BackendTypeInv` adds that a request between its pick
  and the end of its try holds a real account and has tries left, without which counting them down
  could leave the naturals.
* `BackendFollows`: `BackendSpec => []PoolIsEnabled`. As above a debt is handed on: `CallerSettles`,
  `CheckerSettles` and `AdminSettles` show that each step reloads, owes a reload itself, or touches
  neither pool nor configuration; `DebtIsKept` that one process cannot pay another's debt by accident.
* `LoadCounts`: `BackendSpec => []LoadIsExact`. The set of holders grows by one in `OneTaken` and
  shrinks by one in `OneGivenBack`; all other steps leave it (`NothingHeld`). Since the load was
  exact, a request that gives back finds at least 1, and the floor at zero in `Release` never bites.

`AccountsProofs` proves `TokenKept`: `TokenSpec => []TokenIsKept`, for any requests, refreshes
and pages and any number of renewals, from `TokenAssumption` (no worker is of two kinds, the free
value of the mutex is no request, the bound is a natural). `TokenInv` has five parts: the types;
`KindInv`, which worker can be where and that the lock is held exactly from asking to the
second write; `BoundInv`, the provider accepts one refresh token, `Cur`, and no copy is newer;
`KeptInv`, without a mishap the configuration has `Cur` or one worker is going to write it, and if
tokens rotate nobody else has `Cur` then, but for requests that wait for the lock and read the pool
once more; `CalmInv`, until workers of different kinds meet, whoever asks has `Cur`. `RefreshToken`
carries the argument: only a worker with `Cur` is answered, and `KeptInv` says that no write of an
older `Cur` is then under way.

It also proves `SignInExact`: `SignInSpec => []SignInIsExact`, for any sign-ins, tabs and handlers at
once, from `SignInAssumption` (the marks for none are no sign-in and no tab, the bound is a natural).
`SignInInv` has a part for each sentence: `CodesFit`, what a listener caught and what a handler exchanges
is a code of its own flow, because a tab keeps its sign-in and a session its second leg; `OneFor`, a
sign-in that still has something to give (`Unspent`: not started, a capture to come or not fetched, a
device code not redeemed) has given nothing and nobody works for it, and whoever works for it is alone,
because fetching or redeeming is what uses it up (`NewWork`); `PortIsHeld`; `OneIdentifier`.

`RequestsProofs` proves of `Cascade`, for any shares of the split, any number of edits of them and any outcome of
each account loop, from `CascadeAssumption` (shares are percentages, the counter goes to a hundred):

* `AnsweredOnce`: `CascadeSpec => []AnsweredAndBookedOnce`. `RouteInv` adds: until the request ends
  nothing was answered or charged, and the log has only failures, of Kiro only. Every step goes on,
  ends unserved, or is served (`GoesOn`, `EndsUnserved`, `IsServed`).
* `SharesHonoured`: `CascadeSpec => []AskedAsShared`. `SplitCounts` counts the turns of each provider as
  intervals. For the rest the queue must be known: `SharesInv` says that each provider was asked or is
  still due in it (directly, or in the order of the silent ones that will take its place), that both
  silent providers stand before the stop of an exclusive split, and that, if the split leaves Kiro
  nothing and nobody edits it, Kiro stands behind that stop.

Of the other parts that answer a request it proves:

* `HistoryWhole`: `ResponsesSpec => []HistoryIsWhole`, for any clients, responses, crashes and failed
  saves, from `ResponsesAssumption` (the bound and the depth are naturals). `FilesOwned` carries it: an
  identifier is given once, only the request that runs under it writes its file, and a response is
  continued only once it is kept; so a file that is kept goes only by expiring, and what a request found
  missing while it read its history does not appear later.
* `StreamedAsReported`: `ResponsesSpec => []StreamIsTheObject`, for an answer of any texts, tags and calls.
  `StreamInv` says of the items a request has sent so far, with the open message closed
  (`Streaming`, `ClosedItems`): their deltas laid end to end are all the pieces in order, their calls
  are the object's, and unless a text followed a call they are, one by one, the items of the object
  that would be built from all the text (`Exact`, `RawObject`). `TextStreams` and its like take one piece
  more, `PlacesAppend` says where it goes; `EndStreams` puts the text without the thinking into
  the message that is still open.
* `SearchLoopExact`: `WebSearchSpec => []SearchLoopIsExact`, for any `max_uses` and any number of rounds,
  from `WebSearchAssumption` (numbers are naturals, the program's limit is not zero). `SearchInv` says in
  the middle of a round what the property says at the end: a round goes on only if all its searches
  fit the budget, and calls are as many as rounds (`RoundsFit`); in a round that goes on each use is a
  search with results, in the last one a use of the client has no outcome, and a search was skipped only
  because the budget was spent (`OutcomesFit`); the results shown, with those about to be shown, are the
  searches made (`SeenSoFar`); the key is charged once and only if served (`BilledOnce`).
* `UsageAddsUp`: `CacheSpec => []UsageIsPlausible`, for any prompts, sizes and times, from
  `CacheAssumption` (sizes and lifetimes are naturals, the brief lifetime is the shorter). `CacheInv` says
  that an entry expires no later than the time for which its prefix was kept in use (`EntryOK`,
  `UntilIn`), which `ProlongedLasts` keeps when `Compute` prolongs it, and that a report, once
  made, stays `Plausible`; `BreakdownAdds` goes through the breakpoints of a prompt and shows that the
  stretches between them add up to what was written.

`ConversionProofs` proves of `GrokStream`, for any pieces of text, any cut of them, any `MaxHold` and any
number of events, from `GrokAssumption`, with `GrokInv`, the conjunction of `GrokTyped`, `CallsSoFar`,
`TextSoFar` and `NamesSoFar`:

* `CallsWhole`: `GrokStreamSpec => []CallsAreWhole`. While the upstream speaks, the client has of each call
  what its course allows (`Matches`), a call is being written exactly if the last one is announced and
  nothing came between, and an open block has its kind (`Announced`, `Writing`). `ClosedWhole` follows the
  closings at the end one by one and shows that they leave nothing open.
* `TextWhole`: `GrokStreamSpec => []TextIsWhole`, for JSON, chunks, and blocks without a snapshot. What was heard and what is held back make up the deltas
  (`Delivered`). `ScrubKeeps` shows this of the scrubber for every text without a name.
* `NamesWhole`: `GrokStreamSpec => []NoNameInHalves`. What is held back is the end of
  what was read, and what was heard has no name and none that what follows could complete
  (`Smooth`, `Clean`), unless a run without a space was longer than `MaxHold`. This does not survive a
  snapshot or a repeated summary, which are sent behind what was held back, and so the property is
  stated without them.
* `GrokType`: the types.

and of `Translator`, for any conversation in either format, of any length and any texts, and any
limits, from `TranslatorAssumption` (a result has a size, at least two recent turns are kept, a field
is not cut to nothing, limits are naturals):

* `KiroTakesIt`: `TranslatorSpec => []KiroAccepts`; `ResultsArrive`: `TranslatorSpec => []ResultsReachKiro`;
  `PayloadFits`: `TranslatorSpec => []FitsTheModel`; `TranslatorTypeCorrect`.

The steps of `Translator` are few and long: the argument is in the passes they call. `TranslatorInv` says
that the messages are as their format has them (`Conversation`), and of a payload that it is acceptable
and typed (`Sound`), that it fits or is at its smallest (`AtSmallest`) and that every result of the
conversation is in it unless it was cut (`ReachIn`). A lemma for each pass says what it takes and what it
leaves. `ReadIs` reads an OpenAI conversation: the turns read and the results pending hold all results of
the messages so far. `KeptIsClean` and `SanitizeIs`: no calls but the last turn's survive, and results
become text. `EndKept`, `HeadAndEnd`, `DroppedIs`: turns are dropped from the front, and the last ones
stay. `HalveCuts` and `HistoryCut`: each round of the halving takes a unit at least from a text that is
too long, so after as many rounds as there are units the payload fits or every text is short; this is
the proof that the loop of `truncateOversizedHistoryContent` ends. `CurrentCut` then leaves one
unit of the current message if nothing else helped. The proof found an error of the model, which
had restored the first two turns uncut in the last step of `shrinkPayloadToHardLimit`.

*Recursion.* The loops of the code are recursive functions over an interval here. Such a function is
given by a CHOOSE, and that there is one, and that two that follow the same steps agree, is shown once
(`RecursionExists`, `RecursionAgrees`, `BoundedInduction` in `SequenceLemmas`, by
well-founded induction over sets); the lemmas on `Total`, `FlattenSeq`, `Select` and `ReadOn` rest on these.

*Only model-checked*: the types that `MCAccounts` and `MCRequests` put together from their parts
(`AccountsTypeOK`, `RequestsTypeOK`), which are those of the part that moves: `TypeCorrect`,
`BackendTypeCorrect`, `GrokType`, `TranslatorTypeCorrect` and the inductive invariants of the others prove
them one by one. Liveness (`PaidIsApproved`, `RequestEnds`) needs `ENABLED`, which is out of the
prover's reach. The five runs that find a disagreement are counterexamples and need no proof.

## What the checks found

Each is a run whose property quotes the repository and is violated.

1. `orders_linked`: `lookupKeyID` compares a name with its expiry marker to names without
   one, so a key sold with a duration stays unlinked (`handlers_admin.go:184`); its
   renewal is refused after the payment was booked (`orders.go:123`).
2. `orders_transfer`: `checkCryptoPayment` accepts any transfer of at least the amount
   (`payments_crypto.go:78`), so the unique amount identifies nothing.
3. `api_keys_cron`: in `check-key-expiry.sh:31` the here-document replaces the piped list as
   standard input, so no expired key is ever switched off.
4. `claude_context`: one empty reply makes the request's context be blamed
   (`handler.go:1523`), although `handler.go:1056` says every backend answered so.

5. `pool_ban`: `apiRefreshAccount` bans an account on its first 401, renews the token and
   succeeds, but looks for a ban in the copy it read before (`kiro_api.go:715`).

Seen while modelling, below the level of the models:

* `grok.go:1864` writes a ping at once, so "nothing written yet" (`handler.go:1632`) is false
  whenever the keepalive runs: a later 503 is written into a 200 event stream (`handler.go:2848`;
  the outcome "late" of `Cascade`).
* `kiro.go` says that a missing stop reason keeps truncation detectable; the handler
  ends an interrupted message with `end_turn`.
* A stream cut inside a tool call counts as whole: the call gets the arguments `{}` and
  the reply is billed (`kiro.go:1484`).
* The comment at `handler.go:1484` forbids a ping before `message_start`; the keepalive's are.
* The idle guard counts while the handler is blocked on a slow client.
* With thinking off, a reply of reasoning only ends as an empty message.
* The admin's approve button takes no mutex and books no payment, so it can add a second
  key to an order that a webhook is fulfilling. The code promises nothing here, and
  `OneFulfilmentAtATime` is stated without the button.

* `account_failover.go:155` spares accounts an error count for a stall, lest one prompt drive
  them all into cooldown; the throttle that is recorded instead cools each at once.
* *Keys.* A limit of 0 means unlimited (`keyadmin/README.md:89`): taking the whole credit of a key that
  was never used makes it unlimited, and adding credit to an unlimited key limits it. Adding hours to a
  key that ran out longer ago than that gives it nothing, for its overrun counts.
* *Pools.* A Codex account that the administrator switched off stays off, as the comment in
  `codex_admin.go` says; but one that the quota rule had switched off and an import left disabled
  is taken for the quota rule's and enabled again.
* *Token.* The background refresh takes no lock: it can use up the refresh token a request is
  about to use, and the account is then banned (`burnt` with `raced`). A page that saves a whole
  account read before a renewal brings the old token back (`stale`).
* *Sign-in.* An import spends the refresh token and then may find that the account exists or
  cannot be saved; a session that is cancelled, or whose timer ends, drops a code that was already
  delivered; a callback pasted twice at once makes two accounts.
* *Route.* A Codex "prompt too large" goes on to the next provider, unlike Grok's; a split that
  gives Kiro nothing still serves Kiro if no Kiro account was free when the route looked.
* *Grok and Codex replies.* The scrubber holds back to the last space, since "every sensitive token is
  whitespace-free" (`grok.go:580`), but some of its names may be written with one. Scrubbed text is shorter than the snapshot, so a Claude client of a silent
  provider gets the whole reply again; the fill from the snapshot comes before what is held back
  is flushed; a finished reasoning item repeats its thinking; text held
  back at the end opens its block inside a call's; an OpenAI client gets `tool_calls` as finish
  reason but no chunk for a call that only the snapshot has; text inside a call ends it, and the arguments
  after the text are dropped (`grok.go:2180`, `:2234`): an OpenAI client then gets the call a second
  time when it is done, a Claude client keeps the part; a Claude client never gets a call that shows
  only when it is done; held-back thinking of an OpenAI client is never
  flushed; the final chunks are written without `writeMu`.
* *Translation.* `shrinkPayloadToHardLimit` promises to go on "until the payload fits"
  (`translator.go:1846`), but its last cut, `truncateCurrentMessage`, cuts to the budget of the model; results of a message that also has text are dropped if
  they answer no call of the last turn, against the comments near `translator.go:346` and `:392`; an
  OpenAI conversation that begins with the assistant's call leaves structured results without it;
  results told in the current message stop at 4000 characters.
* *Responses.* Text after a call reuses the message's item id and repeats the earlier text; the
  stored object has all text before the calls; tags of thinking, and white space around the text, are taken
  out of the object and of the last message, but deltas and a message that a call closes have them
  (`responses_handler.go:409` beside `:510`), and if nothing else is left the object has no message where the
  stream had one; a failed save is logged and the client is told "completed"; temporary files are never removed.
* *Web search.* A failure in a later round forgets the credits of earlier ones; statistics of all
  rounds go to the last account; a full context window hides `tool_use` as stop reason.
* *Cache.* The parts for five minutes and an hour can exceed what was written (below the threshold,
  or above the cap of 85 percent); a shorter lifetime overwrites a longer one.
* Edits and bans write whole accounts read earlier, so an edit that was under way when an
  account was banned enables it again, and a ban restores the token that it had read.

## Not modelled

* A crash in the middle of `os.WriteFile` of the configuration: the file system is outside
  the models.
* Request translation beyond structure and size: images, schemas of tools, names of models,
  the wording of prompts; the translation of requests to Grok and Codex; input items of the
  Responses API; token estimates. These are pure conversions whose result no other part looks at.
* The conversion of Kiro frames into OpenAI chunks (`handler.go`): its account loop is in
  `Cascade` and `AccountPool`; the writer has no blocks to keep in order.
* Which of several equally loaded accounts is picked, the spread by weights, statistics, logs.
* Packages with no credits: `renewExistingKey` skips a call for them; the shop's form and
  its seed always have some.
* The Telegram bot, the web pages, the admin's settings and the scripts but the cron job: input and
  output around operations that are modelled.

Hazards of the code that are known and that no property covers:

* `orders.go:131`: the copy of a key's credit limit is updated after the call, and its error dropped.
* `config/apikeys.go:94` and `:112`: an update that fails half way leaves what it changed in memory.
* `handler.go:1108`: `ensureMessageStart` stops the keepalive without waiting for it.
* `kiro.go:1484`: a stream cut inside a tool call counts as whole.
* `config.go:387`: the file is overwritten in place, so a crash in the middle leaves part of it.
* `account.go:486`: counters are written by a goroutine with a snapshot of its own; two may be written
  in the wrong order.
* `account.go:311`: a throttle overwrites a cooldown of an hour with one of 90 seconds.
* `codex_pool.go:306`: a pick deletes ended cooldowns from a map under the read lock, so two
  picks may write the map at once, which Go answers by ending the process.

## Plan

Done: `TokenRefresh`, the backend pools, the route over the providers, Grok's replies, translation,
web search, Responses, cache accounting, sign-in. Left, in this order:

1. The OpenAI writer of Kiro frames, beside `ClaudeWriter`, with the same question as `ReplyIsExact`.
2. A failing configuration file and collisions of key values in `ApiKeys` (the hazards at
   `config/apikeys.go:94` and `:112`).
3. Cooldowns with lengths in both pools, to state that none is shortened.
4. Liveness of `Cascade` and `WebSearch`: a request ends if each upstream call does.

Every safety property of a passing run is proved of its module, but for the types of the two that
put several modules together, so that what is left of proofs belongs to what
is left of modelling: each of the first three points above changes an invariant that is inductive now.
Runs are few on purpose: a new module joins `accounts` or `requests`, or takes the place of a run
that another subsumes.
