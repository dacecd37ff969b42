# TLA+ models of responses2chat

responses2chat is an HTTP proxy. It accepts OpenAI **Responses API** requests
(`POST /v1/responses`) and forwards them to an OpenAI-compatible **Chat
Completions** upstream. It translates requests, responses and SSE streams both
ways. It keeps conversation history for `previous_response_id`. When the
upstream model calls the injected `web_search` function, it runs a bounded
search loop against a search provider.

This directory holds TLA+ modules of the parts of the proxy whose behaviour is
hard to test, and TLC configurations that check them. `PROJECT.json` lists
these items in machine-readable form:

- the components;
- the runs;
- the mutants;
- the map from each definition to its source lines;
- the findings;
- the hazards.

## The system's parts and how they interact

| Part | Source | State | Operations |
|---|---|---|---|
| ProxyHandler | `src/unnamed/part_000` (newer) and `src/internal/handler/handler.go` (older) | none of its own; uses the store | `handleResponses`, `handleStreamingResponse`, `handleNonStreamingResponse`, `handleGetResponse` |
| Conversation store | `src/internal/storage/storage.go` | key → message history (shared by all requests) | `Store`, `Get`, `Delete` |
| RequestTranslator | `converter/streaming.go` 312-518 (newer), `converter.go` (older) | pure | `ConvertRequest`, `convert*Item` |
| ResponseTranslator | `converter/streaming.go` 521-577 | pure | `ConvertResponse` |
| StreamTranslator | `converter/streaming.go` 59-259 | per-stream: text, open tool calls, counters, phase | one step per upstream SSE line |
| ToolOrchestrator | `handler/websearch.go` | per-request: messages, iteration counter | `HandleWithWebSearch`, `simulateStreaming` |
| SearchRegistry | `search/manager.go` | provider map, default name | `Search` (default, then fallback) |
| MCPProvider | `src/unnamed/part_002` | **shared**: `sessionID` under `sessionMutex` | `ensureSession`, `sendMCPRequest`, `Search`, `clearSession` |
| Firecrawl provider | `src/unnamed/part_001` | none | `Search` |

A request flows through these parts in order:

1. The handler loads history from the store.
2. RequestTranslator builds the chat request.
3. The request goes upstream once, and the response goes through
   StreamTranslator (streaming) or ResponseTranslator (non-streaming).
4. The handler stores the new history.

The ToolOrchestrator (`HandleWithWebSearch`, which calls upstream up to six
times and sends each `web_search` call through SearchRegistry to a provider)
is not on this path: nothing in `src` calls `HandleWithWebSearch`,
`HandleStreamingWithWebSearch` or `search.NewManager`, and part_000's
handler sends every request upstream once. WebSearchLoop models the loop as
the component it is, for the wiring the spec describes.

Concurrency is per request: each request runs on its own goroutine. The only
state shared between goroutines is:

- the MCP provider's session;
- the conversation store.

## Modules

### StreamTranslator (`StreamTranslator.tla`, `MCStreamTranslator.tla`)

This module models `HandleStreamingResponse`. Each action is one kind of
upstream line:

| Action | Kind of line | Code lines |
|---|---|---|
| `ReadNonDataLine` | non-`data:` line | 96-107 |
| `ReadUnusableChunk` | chunk that does not parse, or has no choices | 150-158 |
| `ReadChunk` | chunk with a text delta and/or tool-call deltas | 160-233 |
| `ReadDone` | `[DONE]` | 110-148 |
| `ScanStops` | EOF, read error or over-long line | 235-246 |

The state corresponds to the code's variables:

| Model variable | Code |
|---|---|
| `events` | the SSE events written |
| `outputText` | `outputText` |
| `toolCalls` | `toolCalls` map |
| `currentToolID` | `currentToolID` |
| `messageItemAdded` | `messageItemAdded` |
| `result` | the returned `StreamResult` |

The tool-call loop is a fold (`ApplyToolDelta`) over the chunk's deltas. It
follows the code exactly, including the key used for the lookup and the key
used for the store. Go map iteration is random, so it is modelled as a choice
over every order of the map's keys. That covers both the done events and the
result list.

The model abstracts the data as follows:

- Text deltas and argument fragments come from small sets.
- Tool-call ids are short sequences of character codes, so `hashToolCallID`
  is computed as in the code.
- Event bodies are records, not JSON.

### MCPSession (`MCPSession.tla`, `MCMCPSession.tla`)

This module models concurrent `Search` calls on one `MCPProvider`. Each
goroutine has a `pc`:

ensure → initialize → send → await → (clear → ensure)* → done

The state corresponds to the code as follows:

- `sessionID` is `p.sessionID`.
- `lockHolder` is `sessionMutex`.
- `sent[g]` is the header value `sendMCPRequest` read, without the lock,
  when it built the request.
- The server is the environment. It issues fresh tokens, answers with an auth
  error for a token it does not accept, and expires sessions (bounded by
  `MaxExpiries`).
- Any POST may fail in transport.
- An `initialize` answer may come without an `Mcp-Session-Id` header
  (`InitializeNoHeader`, part_002 191). The code only logs a warning,
  leaves `p.sessionID` empty and sends the tools call without a session.
- `invokes`, `handshakes` and `clears` are history counters. `handshakes`
  counts only initializes that established a session.
- `got[g]` is a history variable: the session `ensureSession` handed
  goroutine `g` (reused, fresh, or none after a headerless initialize). It
  lets `RetryFailsOnlyOnExpiredSession` tell a search that legitimately ran
  without a session from one whose fresh session a stale clear wiped.
- An accepted tools call is answered with a tool error (an rpc error, an
  `isError` content, no content) or with a content text. `reply[g]` is that
  text and `returned[g]` the URLs `Search` returned. The text is a tagged
  JSON value (spec 9: a tagged variant decode), and `ParseResults` is
  `parseResults` (part_002 359-408): a string is parsed a second time, an
  array is decoded directly, anything else is an error; each element that
  is an object or `null` decodes (a `null` one to an empty result), and
  each result takes `link`, or `url` when `link` is empty. `Answers` is an
  array of objects encoded once and twice, an array holding `null`, a
  twice-encoded `null` (zero results, no error), an array holding a number,
  and plain text. `ResultsFollowAnswer` says that an array of objects or
  nulls, encoded once or twice, gives one result per element, and an array
  with any other element, or text that is not JSON, gives a tool error.

### WebSearchLoop (`WebSearchLoop.tla`, `MCWebSearchLoop.tla`)

This module models one request through the `web_search` tool loop of
`handler/websearch.go`. It composes the loop with `search.Manager`: provider
registration in `NewManager`, then default-then-fallback in `Manager.Search`.
The upstream model is the environment, and each `sendToUpstream` returns one
of `Replies`:

- an error;
- an answer without choices;
- a message with tool calls.

The loop is a small program counter:

| `pc` | Action | Code |
|---|---|---|
| `send` | `SendUpstream`: send, stop on error or no choices, return when no `web_search` call, else append the assistant message | 67-113 |
| `search` | `SearchCall`: parse the query and search (or fail), append the tool message and the ledger entry | 115-159 |
| `final` | `FinalCall`: the forced last call after `maxIterations` | 161-173 |
| `stream` | `Stream`: `ConvertResponseWithWebSearch` and `simulateStreaming` | 292-418 |

The client may disconnect at any point of the loop (`ClientDisconnects`).
`r.Context()` is passed to `HandleWithWebSearch` and only
`http.NewRequestWithContext` in `sendToUpstream` (215) uses it, so after a
disconnect every upstream call fails (`UpstreamReplies`), while a search
already extracted still runs: `Manager.Search` and the providers use
`context.Background`. The history variables `cancelled`, `pendingAtCancel`,
`searchesAfter` and `answeredAfter` record what ran after the disconnect.

Each search ends `completed` or `failed`, the outcomes `Manager.Search`
can produce for the configured providers. MCPSession models why an MCP
search fails.

### Translate (`Translate.tla`, `MCTranslate.tla`)

This module holds both versions of `ConvertRequest` as pure operators:

- the current one appended to `streaming.go` (312-518);
- the legacy one in `converter.go` (1-153), which `handler.go` calls.

A behaviour picks one request from `Requests` and translates it with each
version (actions `Convert` and `ConvertLegacy`). Content is a record tagged
`none`, `text` or `parts`, standing for Go's `interface{}`. The properties
restate spec 4.1 declaratively: they count and position the messages and
check every content part. They do not reuse the converter's loop. The role a
developer message gets is left open: streaming.go turns it into `user` when
the target lacks the capability, while the repository's tests of the
3-argument `ConvertRequest` (converter.go 450-469) expect `system`. Tool
rewriting is modelled (`ConvertTool`) but no property checks it: those tests
expect `web_search` to be dropped, and streaming.go replaces it with a
function tool. part_000 (271) calls a 3-argument `ConvertRequest` that is in
neither file; the model takes streaming.go's 4-argument version, whose
signature (343-345) is what `Convert` maps to.
Only the current converter is checked by a run: the legacy one is reached
only from `handler.go`, which part_000 supersedes. Its zero part for an
unknown content item (`converter.go:98`) is listed as a hazard.

### ConversationProxy (`ConversationProxy.tla`)

This module models turns 1..`MaxTurns` of one client through
`handleResponses` (part_000) and the BBolt `ConversationStore`:

- Each turn's handler goroutine is a `hpc` program counter:
  load → upstream → (store → done | respond → done).
- The client sends the next turn once it has an answer. It chains that turn,
  through `previous_response_id`, on any response it has seen completed.
- `store` is the bucket. Its keys are `"resp-" \o ToString(t)`.
- `Get` and `Put` are BBolt transactions, hence atomic.
- A streamed answer either completes or is truncated: EOF, a read error, or a
  line over 1 MiB.
- A non-streamed answer is stored before it is written, with or without an
  assistant message.
- Every `Store` is `TryPut`: the BBolt transaction commits or fails. The
  handler only logs a failing `Store` (part_000 398, 446) and answers anyway.

The handler's routing is composed into the same module. `endpoint` is the
URL path, `X-Provider` header and `Authorization` header the client uses; it
is chosen in `Init` and fixed for the behaviour. `ConfigFile` is the parsed
config file as a record whose optional fields are absent keys:

- `LoadConfig` is `config.Load`: `setDefaults` gives the default target a
  300 s timeout and names no provider key, so a provider without `timeout`
  loads as 0. The environment is taken empty.
- `ParseProvider` and `GetTargetConfig` are `parseProvider` and
  `getTargetConfig` (part_000 515-549); `ApiKey` is the header or the
  target's key.
- `Load` answers 401 and ends the turn when there is no key (part_000 277).
- `DeadlineLive` is `Target.timeout > 0`: the handler builds its context with
  `context.WithTimeout(..., Timeout*time.Second)`, which with 0 has already
  expired, so the upstream call can then only fail.

The GET endpoint is composed in as well. Between turns, once it has seen
its last response completed, the client may read it back
(`GetResponse`). This covers:

- `ServeHTTP`'s routing of a path holding `/v1/responses/`;
- `ExtractResponseID` (part_000 202-215) on the endpoint's path plus the id;
- `handleGetResponse`: 404 when the store has nothing, else the output of
  `ConvertMessagesToOutput`, which has one item per message except the
  system ones and those whose content is not a string.

`view` holds what the last GET since the client's last turn showed. Message
content is abstracted to a string or a part list. `InputContent` is
`convertMessageItem`'s collapse (streaming.go 450-486): a single
`input_text` becomes a string, several parts or an image stay a list. The
client may send the turns of the constant `PartTurns` (turn 2 in the run)
as a part list. Such a turn is stored as a list, and the GET output leaves
it out, so `ViewShowsHistory` compares the GET output with the turns sent as
text. Upstream answers are taken to carry text, so an empty answer and the
`fc_<i>` id shared by all tool calls of one message are not modelled.

`MCConversationProxy.tla` gives the constants: the providers the repository's
README documents (base URL and path suffix only) plus one with a timeout, and
four endpoints covering the default route, a missing key, a provider in the
path and a provider in the header.

`ConversationHistory.tla` is the abstract specification of what the store
promises. Conversations form a tree:

- each response id is recorded once;
- its conversation is an earlier recorded conversation, or none, followed by
  the turn itself.

ConversationProxy implements it under the refinement mapping `histBar`. That
mapping reads each stored message list as the sequence of its user turns.
The `conversation` run checks `ImplementsConversationHistory`, which is
`Abstract!Spec`, as a PROPERTY.

## Runs

| Run | Expect | Checks | Shows |
|---|---|---|---|
| `stream_lifecycle` | pass | `TypeOK`, `EventsFollowLifecycle`, `TextDoneMatchesDeltas` | every line sequence of up to 4 lines gives a well-formed event lifecycle, and the text done event and the result agree with the deltas |
| `stream_args_split` | violation | `ArgumentsConcatenated` | **code bug**: fragments of one tool call become separate items (`streaming.go:207`) |
| `mcp_session` | pass | `TypeOK`, `HandshakesBounded`, `RetryBounded`, `ResultsFollowAnswer`, `AllSearchesReturn` | no double handshake, at most one retry, an array of objects or nulls, encoded once or twice, gives one result per element, other shapes a tool error, and every search returns |
| `mcp_stale_clear` | violation | `RetryFailsOnlyOnExpiredSession` | **code bug**: a stale `clearSession` wipes a fresh session, and a search fails "after retry" after one expiry |
| `websearch_loop` | pass | `TypeOK`, `RoundTripBound`, `LedgerMatchesHistory`, `StreamedSearchItemsMatchLedger`, `WorkAfterDisconnectBounded`, `Terminates` | at most 6 upstream calls; the ledger, the tool messages and the assistants' calls stay in step; streamed search items are the ledger's; after a client disconnect no answer is produced and only the searches already extracted run; the loop always ends |
| `websearch_unanswered` | violation | `EveryToolCallAnswered` | **spec gap**: a non-search call mixed with `web_search` gets no tool message in the next request (`websearch.go:108`) |
| `websearch_stream_index` | violation | `StreamedItemsMatchCompleted` | **code bug**: `simulateStreaming` numbers items differently from `response.completed` and shares one fc id (`websearch.go:392`) |
| `conversation` | pass | `TypeOK`, `SystemMessageLeads`, `StoredHistoryExtendsLoaded`, `ViewShowsHistory`, `ImplementsConversationHistory`, `EveryTurnAnswered` | over three chained turns, a stored conversation has one leading system message and extends the history it was chained on; a GET that finds a response lists, in order, the user turns ConversationHistory records for it that were sent as text (a turn sent as a part list is missing); the store refines ConversationHistory even when a `Store` fails; and every turn is answered |
| `conversation_followup` | violation | `FollowUpSeesHistory` | **code bug**: the streamed history is stored after `response.completed` is flushed, so an immediate follow-up finds nothing (`part_000:398`) |
| `conversation_deadline` | violation | `UpstreamContextLive` | **code bug**: a provider configured as the README documents, without `timeout`, gets a zero timeout, so every request through it fails with an expired context (`part_000:313`, `config.go:113`) |
| `conversation_truncated` | violation | `OnlyCompletedAnswersStored` | a stream cut off before `[DONE]` is stored as history (`streaming.go:235`) |
| `translate` | pass | `TypeOK`, `ContentWellFormed`, `MessagesFollowSpec` | the current converter orders the messages as spec 4.1 says and never emits an empty or invalid content part, on every request of the bounded set |

Two divergences have no violation run of their own. First, a client
disconnect does not cancel the web searches (`websearch.go:133`,
`part_002:153`), although spec 5 says every outbound call is cancelled;
`WorkAfterDisconnectBounded` checks the bound the code does give. Second, on `[DONE]` the function_call items
are closed in Go map order (`streaming.go:112`), but spec 4.3 says
discovery order. The StreamTranslator model chooses every map order, and
`PROJECT.json` lists the divergence as a hazard.

### Bounds

**stream runs.** The bounds are:

- 4 lines;
- at most 1 tool-call delta per chunk;
- two texts;
- two call ids;
- four delta shapes: new call; id-less continuation; same-id continuation;
  second call.

Two chunks are enough to show a call being split. Four lines allow text,
two tool chunks and `[DONE]` in one run.

**mcp runs.** The bounds are:

- two searchers;
- four tokens;
- 2 expiries (1 in the violation run, to show that one expiry is enough).

Two goroutines are the least that can race. Four tokens cover two handshakes
per searcher. The four answer texts reach the string and array cases of
`parseResults`' type switch, a second parse that fails on non-JSON and on a
non-object element, and both sides of the link-or-url choice. A first parse
that fails and the `default` case give the same tool error and are not
enumerated.

**websearch runs.** The bounds are:

- the loop's own bound of 5 iterations plus the final call, which is not
  lowered;
- replies with 0, 1 or 2 tool calls, covering:
  - a valid search;
  - a search without a query;
  - a search with malformed arguments;
  - a search mixed with another function;
- two providers, where the default one has no key, so the fallback path is
  taken.

This reaches the forced final call, and search errors on every path.

**conversation runs.** The bound is `MaxTurns = 3`. This is enough for a
chain of two follow-ups, and for a turn chained on an older turn than the
last one. The four endpoints reach every branch of `parseProvider` (header,
path prefix, bare `/v1/responses`, the `v1` prefix), both branches of
`getTargetConfig`, the 401 path, and a target with and without a timeout.

**translate runs.** Requests are bounded as follows:

- up to 2 input items out of 18 shapes. The content shapes include:
  - a single text;
  - two texts;
  - an image by URL;
  - an image by inline data;
  - a refusal on its own and mixed with text;
  - empty content.
  Other item shapes: an empty role, function call and output, and reasoning.
- 5 tool lists, which include `web_search`, a nameless function and
  `code_interpreter`;
- 3 histories (none, without a system message, with one);
- both instruction states, both developer-role capabilities, and a mapped
  and an unmapped model.

### Fairness

MCPSession assumes the following fairness:

- **Weak fairness** on each goroutine's HTTP steps. `http.Client` has a
  timeout, so every POST returns or fails.
- **Strong fairness** on taking `sessionMutex`. Go's mutex enters starvation
  mode, so a waiter cannot be bypassed forever.
- **No fairness** on server expiry.

WebSearchLoop has weak fairness on its single request goroutine: each
upstream call and each search returns or times out. The client's disconnect
has no fairness.

ConversationProxy has weak fairness on each turn's handler steps (load,
upstream, stream, store, respond): each is a bounded HTTP call or a BBolt
transaction. The client's next turn and the choice of a failing store get
none.

StreamTranslator and Translate are checked for safety only.

## Mutants

Each property of a passing run is broken by one plausible code bug, listed in
`PROJECT.json`:

- an unguarded append;
- message done before the tool dones;
- a dropped first delta;
- an off-by-one retry bound;
- a missing loop increment;
- no reuse of a cached session;
- no second parse of a string-encoded result text;
- an error path that keeps the lock;
- an off-by-one iteration bound;
- extracting every call instead of the `web_search` ones;
- search items appended after the answer;
- a missing no-choices check;
- upstream requests built without the request's context;
- a failing non-streamed `Store` that returns without answering;
- an unprefixed store key;
- the GET output skipping the first message instead of the system ones;
- instructions always prepended;
- the request messages left out of the stored history;
- the turn's input placed before the loaded history;
- no empty-role check;
- no filtering of unknown content;
- instructions after the history.

## Not yet modelled (plan)

1. Assistant content in ConversationProxy (empty answers, tool calls), so
   that the rest of `convertMessagesToOutput` (part_000 178-194) can be
   checked.
2. The legacy `handler.go` request path beyond its conversion step. That
   step is `ConvertLegacy` in Translate, which no run checks.

The round trip of spec 8 has no module of its own. It says that a
non-streamed answer fed to StreamTranslator in chunks keeps its text and its
tool calls' names and arguments. StreamTranslator checks the text half with
`TextDoneMatchesDeltas`. The arguments half is `ArgumentsConcatenated`,
which `stream_args_split` shows is violated.

Not modelled, and why:

- configuration from environment variables: `config.Load` is modelled for a
  config file and an empty environment; Viper's key replacer and merging
  are library behaviour;
- logging, Makefile and Dockerfile: no runtime state;
- `hashToolCallID`'s 64-bit arithmetic: TLC integers are 32-bit, and the
  model computes the hash exactly for the short ids it uses;
- JSON and SSE byte formatting: abstracted to records.
- the Firecrawl provider (part_001): a stateless single POST. WebSearchLoop
  abstracts it to the `completed` / `failed` outcomes of a search.
- `models.go`: type declarations only; their fields are the records of the
  modules.
- `ConversationStore.Delete`: called only from tests.
- a process restart: BBolt keeps the store on disk, but no code in the
  repository opens the store at startup or shuts the server down with it
  (the `main` in `src/Makefile` builds the older handler without a store).
  So there is no restart path to model.
