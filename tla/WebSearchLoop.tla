---------------------------- MODULE WebSearchLoop ----------------------------
(***************************************************************************)
(* The web_search tool loop of one request (src/internal/handler/          *)
(* websearch.go): HandleWithWebSearch sends the conversation upstream,     *)
(* runs every web_search call of the answer through search.Manager.Search  *)
(* (src/internal/search/manager.go), appends the assistant and tool        *)
(* messages and asks again, at most maxIterations times plus one forced    *)
(* final call; HandleStreamingWithWebSearch then replays the final answer  *)
(* as SSE events with simulateStreaming.                                   *)
(*                                                                         *)
(* The upstream model is the environment: each sendToUpstream returns one  *)
(* of Replies (an error, an answer without choices, or a message with      *)
(* tool calls).  Tool-call ids are fresh per answer, <<iteration, slot>>.  *)
(* Message content, queries and search results are abstracted to what the  *)
(* properties tell apart.                                                  *)
(***************************************************************************)
EXTENDS Integers, Sequences, SequencesExt

CONSTANTS
  Replies,          \* the answers sendToUpstream can return
  Enabled,          \* cfg.Enabled of the web_search configuration
  ProviderConfigs,  \* cfg.Providers: name -> [key: BOOLEAN, type]
  Default           \* cfg.Default, a provider name or ""

\* maxIterations := 5 (line 60)
MaxIterations == 5

SearchTool == "web_search"
NoId == <<0, 0>>
NoItem == [type |-> "none", id |-> "", callId |-> NoId]

\* An answer of sendToUpstream, and the error it may return instead.
ErrReply == [kind |-> "error", choices |-> FALSE, content |-> "", calls |-> <<>>]

VARIABLES
  streaming,      \* whether the request came in as a streaming one
  i,              \* the loop counter of HandleWithWebSearch
  pc,             \* "send", "search", "final", "stream" or "done"
  messages,       \* the running message list
  pending,        \* web_search calls of the current answer still to run
  webSearchCalls, \* the returned []WebSearchCall ledger
  upstreamCalls,  \* history: sendToUpstream calls made
  result,         \* "none", "error" or "response"
  resp,           \* the response HandleWithWebSearch returned
  events,         \* the SSE events simulateStreaming wrote
  cancelled,      \* r.Context() is done: the client disconnected
  pendingAtCancel,\* history: web_search calls still to run when it did (-1: never)
  searchesAfter,  \* history: searches run after the disconnect
  answeredAfter   \* history: an upstream answer arrived after the disconnect

cancelVars == <<cancelled, pendingAtCancel, searchesAfter, answeredAfter>>
vars == <<streaming, i, pc, messages, pending, webSearchCalls, upstreamCalls,
          result, resp, events, cancelVars>>

Msg(role, calls, callId, status) ==
  [role |-> role, calls |-> calls, callId |-> callId, status |-> status]

\* The tool calls of an answer got in iteration it, with their fresh ids.
WithIds(calls, it) ==
  [k \in DOMAIN calls |-> [id |-> <<it, k>>, name |-> calls[k].name,
                           args |-> calls[k].args]]

-----------------------------------------------------------------------------
(* search.Manager                                                          *)

\* NewManager (21-67): providers without an API key or of unknown type are
\* skipped; nothing is registered when web search is disabled.
Registered ==
  IF Enabled
    THEN {p \in DOMAIN ProviderConfigs :
            ProviderConfigs[p].key /\ ProviderConfigs[p].type \in {"mcp", "firecrawl"}}
    ELSE {}

\* Manager.Search (83-107): the default provider when it is registered
\* (IsAvailable is its API key, present for every registered one), else any
\* registered provider in map order.
Serving ==
  IF Default \in Registered THEN {Default} ELSE Registered

\* The statuses a search can end with: the provider's own Search may fail
\* (an MCP or Firecrawl error); with web search disabled or no provider it
\* fails before any request.
SearchOutcomes ==
  IF Enabled /\ Serving # {} THEN {"completed", "failed"} ELSE {"failed"}

\* parseQueryFromArguments (187-195) with the fallback of lines 117-124:
\* valid JSON without "query" yields the empty query.
ParseQuery(args) ==
  CASE args = "valid"     -> "q"
    [] args = "noquery"   -> ""
    [] args = "malformed" -> "unknown"

\* Mutation of ExtractWebSearchCalls: every tool call is treated as a search.
ExtractAllCalls(calls) == calls

\* extractWebSearchCalls (176-184).
ExtractWebSearchCalls(calls) == SelectSeq(calls, LAMBDA tc : tc.name = SearchTool)

-----------------------------------------------------------------------------
(* simulateStreaming and ConvertResponseWithWebSearch                      *)

WsItem(c) == [type |-> "web_search_call", id |-> c.id, callId |-> NoId]
MsgItem == [type |-> "message", id |-> "msg", callId |-> NoId]
FcItem(tc) == [type |-> "function_call", id |-> "fc", callId |-> tc.id]

\* converter.ConvertResponse (streaming.go 520-577): one function_call item
\* per tool call, all with ID "fc-<requestID>", then the message item.
ConvertResponse(r) ==
  IF r.choices THEN [k \in DOMAIN r.calls |-> FcItem(r.calls[k])] \o <<MsgItem>>
               ELSE <<>>

\* Mutation of ConvertResponseWithWebSearch: web_search items appended.
WithWebSearchAppended(r, ledger) ==
  ConvertResponse(r) \o [k \in DOMAIN ledger |-> WsItem(ledger[k])]

\* ConvertResponseWithWebSearch and BuildWebSearchOutputItems (254-284).
ConvertResponseWithWebSearch(r, ledger) ==
  [k \in DOMAIN ledger |-> WsItem(ledger[k])] \o ConvertResponse(r)

Ev(type, index, item) ==
  [type |-> type, index |-> index, item |-> item, output |-> <<>>]

\* simulateStreaming (320-418): created, one added event per ledger entry
\* at output_index i, the message at contentIndex, its text delta, every
\* non-web_search tool call at contentIndex+1, completed, done.
SimulatedEvents(r, ledger) ==
  LET n == Len(ledger)
      others == SelectSeq(r.calls, LAMBDA tc : tc.name # SearchTool)
  IN  <<Ev("response.created", -1, NoItem)>>
      \o [k \in 1..n |-> Ev("response.output_item.added", k - 1, WsItem(ledger[k]))]
      \o (IF r.choices
            THEN <<Ev("response.output_item.added", n, MsgItem)>>
                 \o (IF r.content # "" THEN <<Ev("response.output_text.delta", n, NoItem)>>
                                       ELSE <<>>)
                 \o [k \in DOMAIN others |->
                       Ev("response.output_item.added", n + 1, FcItem(others[k]))]
            ELSE <<>>)
      \o <<[type |-> "response.completed", index |-> -1, item |-> NoItem,
            output |-> ConvertResponseWithWebSearch(r, ledger)],
           Ev("done", -1, NoItem)>>

-----------------------------------------------------------------------------
(* HandleWithWebSearch                                                     *)

Init ==
  /\ streaming \in BOOLEAN
  /\ i = 0
  /\ pc = "send"
  /\ messages = <<Msg("user", <<>>, NoId, "")>>
  /\ pending = <<>>
  /\ webSearchCalls = <<>>
  /\ upstreamCalls = 0
  /\ result = "none"
  /\ resp = ErrReply
  /\ events = <<>>
  /\ cancelled = FALSE
  /\ pendingAtCancel = -1
  /\ searchesAfter = 0
  /\ answeredAfter = FALSE

\* Mutation of UpstreamReplies: the request is built without the caller's
\* context (http.NewRequest), so it is not cancelled by a disconnect.
UpstreamRepliesNoContext == Replies

\* sendToUpstream (198-252) builds its request with the caller's context
\* (215): once the client has disconnected, Do fails at once.
UpstreamReplies == IF cancelled THEN {ErrReply} ELSE Replies

\* An upstream answer is received.
Answered(r) ==
  /\ answeredAfter' = (answeredAfter \/ (cancelled /\ r.kind # "error"))
  /\ UNCHANGED <<cancelled, pendingAtCancel, searchesAfter>>

\* HandleWithWebSearch returns; HandleStreamingWithWebSearch writes the
\* error (308-311) or goes on to simulateStreaming (316).
Finish(r) ==
  /\ resp' = r
  /\ result' = IF r.kind = "error" THEN "error" ELSE "response"
  /\ pc' = IF streaming /\ r.kind # "error" THEN "stream" ELSE "done"

\* Mutation of SendUpstream: the len(resp.Choices) == 0 check of line 90 is
\* dropped; resp.Choices[0] then panics and the handler never returns.
SendUpstreamChoicesUnchecked ==
  /\ pc = "send"
  /\ upstreamCalls' = upstreamCalls + 1
  /\ \E r \in UpstreamReplies :
       LET calls == WithIds(r.calls, i)
           ws    == ExtractWebSearchCalls(calls)
       IN  /\ Answered(r)
           /\ CASE r.kind = "error" ->
                     /\ Finish([r EXCEPT !.calls = calls])
                     /\ UNCHANGED <<messages, pending>>
                [] ~r.choices ->
                     /\ pc' = "panicked"
                     /\ UNCHANGED <<messages, pending, result, resp>>
                [] ws = <<>> ->
                     /\ Finish([r EXCEPT !.calls = calls])
                     /\ UNCHANGED <<messages, pending>>
                [] OTHER ->
                     /\ messages' = Append(messages, Msg("assistant", calls, NoId, ""))
                     /\ pending' = ws
                     /\ pc' = "search"
                     /\ UNCHANGED <<result, resp>>
  /\ UNCHANGED <<streaming, i, webSearchCalls, events>>

\* One loop iteration's upstream call (67-113): an error or an answer with
\* no choices or no web_search call ends the loop; otherwise the assistant
\* message with ALL the answer's tool calls is appended.
SendUpstream ==
  /\ pc = "send"
  /\ upstreamCalls' = upstreamCalls + 1
  /\ \E r \in UpstreamReplies :
       LET calls == WithIds(r.calls, i)
           ws    == ExtractWebSearchCalls(calls)
       IN  /\ Answered(r)
           /\ IF r.kind = "error" \/ ~r.choices \/ ws = <<>>
                THEN /\ Finish([r EXCEPT !.calls = calls])
                     /\ UNCHANGED <<messages, pending>>
                ELSE /\ messages' = Append(messages, Msg("assistant", calls, NoId, ""))
                     /\ pending' = ws
                     /\ pc' = "search"
                     /\ UNCHANGED <<result, resp>>
  /\ UNCHANGED <<streaming, i, webSearchCalls, events>>

\* Mutation of MoreIterations: the loop condition i <= maxIterations.
MoreIterationsOffByOne(n) == n <= MaxIterations

\* The loop condition of line 67.
MoreIterations(n) == n < MaxIterations

\* One web_search call (116-157): parse the query, search, record the
\* outcome and append the tool message; after the last call of the answer
\* the loop counter advances and the condition is tested again.
SearchCall ==
  /\ pc = "search"
  /\ pending # <<>>
  /\ LET tc == Head(pending)
     IN  \E st \in SearchOutcomes :
           /\ webSearchCalls' = Append(webSearchCalls,
                                  [id |-> tc.id, query |-> ParseQuery(tc.args), status |-> st])
           /\ messages' = Append(messages, Msg("tool", <<>>, tc.id, st))
  /\ pending' = Tail(pending)
  /\ IF Tail(pending) = <<>>
       THEN /\ i' = i + 1
            /\ pc' = IF MoreIterations(i + 1) THEN "send" ELSE "final"
       ELSE UNCHANGED <<i, pc>>
  /\ searchesAfter' = IF cancelled THEN searchesAfter + 1 ELSE searchesAfter
  /\ UNCHANGED <<streaming, upstreamCalls, result, resp, events, cancelled,
                 pendingAtCancel, answeredAfter>>

\* The forced final call (161-172): its answer is returned whatever tool
\* calls it carries.
FinalCall ==
  /\ pc = "final"
  /\ upstreamCalls' = upstreamCalls + 1
  /\ \E r \in UpstreamReplies : Answered(r) /\ Finish([r EXCEPT !.calls = WithIds(r.calls, i)])
  /\ UNCHANGED <<streaming, i, messages, pending, webSearchCalls, events>>

\* simulateStreaming writes the whole event sequence (320-418).
Stream ==
  /\ pc = "stream"
  /\ events' = SimulatedEvents(resp, webSearchCalls)
  /\ pc' = "done"
  /\ UNCHANGED <<streaming, i, messages, pending, webSearchCalls, upstreamCalls,
                 result, resp, cancelVars>>

(***************************************************************************)
(* The client disconnects while the loop runs: r.Context() is cancelled.   *)
(* Only sendToUpstream uses it; Manager.Search and the providers build     *)
(* their requests on context.Background (part_001 110, part_002 153, 210). *)
(***************************************************************************)
ClientDisconnects ==
  /\ ~cancelled
  /\ pc \in {"send", "search", "final"}
  /\ cancelled' = TRUE
  /\ pendingAtCancel' = Len(pending)
  /\ UNCHANGED <<streaming, i, pc, messages, pending, webSearchCalls, upstreamCalls,
                 result, resp, events, searchesAfter, answeredAfter>>

Next == SendUpstream \/ SearchCall \/ FinalCall \/ Stream \/ ClientDisconnects

\* One goroutine runs the request; every sendToUpstream and every search
\* returns or times out (http.Client timeouts), so its steps are fair.  The
\* client's disconnect gets no fairness.
Spec == Init /\ [][Next]_vars /\ WF_vars(SendUpstream \/ SearchCall \/ FinalCall \/ Stream)

-----------------------------------------------------------------------------
(***************************************************************************)
(* Properties                                                              *)
(***************************************************************************)
Ids == (Nat \X Nat)
Item == [type : {"none", "web_search_call", "message", "function_call"},
         id : Ids \cup {"", "msg", "fc"}, callId : Ids]

TypeOK ==
  /\ streaming \in BOOLEAN
  /\ i \in 0..MaxIterations
  /\ pc \in {"send", "search", "final", "stream", "done"}
  /\ \A k \in DOMAIN messages :
       messages[k].role \in {"user", "assistant", "tool"}
  /\ webSearchCalls \in Seq([id : Ids, query : {"q", "", "unknown"},
                             status : {"completed", "failed"}])
  /\ upstreamCalls \in Nat
  /\ result \in {"none", "error", "response"}
  /\ \A k \in DOMAIN events : events[k].item \in Item
  /\ cancelled \in BOOLEAN /\ answeredAfter \in BOOLEAN
  /\ pendingAtCancel \in -1..MaxIterations /\ searchesAfter \in Nat

\* The web_search calls of an answer.
SearchCallsOf(m) == SelectSeq(m.calls, LAMBDA tc : tc.name = SearchTool)

ToolMessages == SelectSeq(messages, LAMBDA m : m.role = "tool")
Assistants == SelectSeq(messages, LAMBDA m : m.role = "assistant")
IdsOf(s) == [k \in DOMAIN s |-> s[k].id]

(***************************************************************************)
(* Spec 4.4 and 8: with a round-trip bound of 5 the loop makes at most 6   *)
(* upstream calls, and an answer that still calls web_search is returned   *)
(* only by the forced final call, the sixth.  It is about the loop         *)
(* condition of line 67 and the single final request of lines 161-172.     *)
(***************************************************************************)
RoundTripBound ==
  /\ upstreamCalls <= MaxIterations + 1
  /\ (result = "response" /\ resp.choices /\ SearchCallsOf(resp) # <<>>)
        => upstreamCalls = MaxIterations + 1

(***************************************************************************)
(* Spec 4.4 steps 3-4: the ledger of WebSearchCall outcomes, the tool      *)
(* messages and the assistant messages agree.  The web_search calls of all *)
(* appended assistant messages, in order, are the ledger's calls followed  *)
(* by the ones still pending; each tool message answers the ledger entry   *)
(* of the same rank with the same status.  It is about extractWebSearch-   *)
(* Calls and the per-call bookkeeping of lines 116-157.                    *)
(***************************************************************************)
LedgerMatchesHistory ==
  /\ FlattenSeq([k \in DOMAIN Assistants |-> IdsOf(SearchCallsOf(Assistants[k]))])
        = IdsOf(webSearchCalls) \o IdsOf(pending)
  /\ Len(ToolMessages) = Len(webSearchCalls)
  /\ \A k \in DOMAIN webSearchCalls :
       /\ ToolMessages[k].callId = webSearchCalls[k].id
       /\ ToolMessages[k].status = webSearchCalls[k].status

(***************************************************************************)
(* Spec 4.4 outputs: a streamed reply presents the search calls ahead of   *)
(* the final message: the web_search_call items added at output_index      *)
(* 0..n-1, and the first n items of the completed response, are the        *)
(* ledger in order.  It is about simulateStreaming's first loop and        *)
(* ConvertResponseWithWebSearch prepending BuildWebSearchOutputItems.      *)
(***************************************************************************)
StreamedSearchItemsMatchLedger ==
  LET n == Len(webSearchCalls)
      added == SelectSeq(events, LAMBDA e : e.type = "response.output_item.added"
                                             /\ e.item.type = "web_search_call")
      done  == SelectSeq(events, LAMBDA e : e.type = "response.completed")
  IN  events # <<>> =>
        /\ added = [k \in 1..n |-> Ev("response.output_item.added", k - 1,
                                      WsItem(webSearchCalls[k]))]
        /\ Len(done) = 1
        /\ SubSeq(done[1].output, 1, n) = [k \in 1..n |-> WsItem(webSearchCalls[k])]

(***************************************************************************)
(* Spec 5: a client disconnect cancels the request's outbound calls.  The  *)
(* upstream calls honour it, so after a disconnect no upstream answer      *)
(* arrives and the only work left is the web_search calls already          *)
(* extracted from the last answer; the searches themselves are not         *)
(* cancelled.  It is about sendToUpstream building its request with the    *)
(* caller's ctx (line 215) while Manager.Search takes none.                *)
(***************************************************************************)
WorkAfterDisconnectBounded ==
  cancelled => /\ ~answeredAfter
               /\ searchesAfter <= pendingAtCancel

(***************************************************************************)
(* Spec 4.4 step 6: the loop terminates; every request ends with a         *)
(* response or an error (and, when streaming, the replay written).         *)
(***************************************************************************)
Terminates == <>(pc = "done")

(***************************************************************************)
(* Chat Completions requires every tool_call of an assistant message to be *)
(* answered by a tool message before the conversation is sent again.  It   *)
(* is about lines 108-113, which append ALL the answer's tool calls, and   *)
(* 116-157, which answer only the web_search ones.                         *)
(***************************************************************************)
EveryToolCallAnswered ==
  pc \in {"send", "final"} =>
    \A a \in Range(Assistants) : \A k \in DOMAIN a.calls :
      \E t \in Range(ToolMessages) : t.callId = a.calls[k].id

(***************************************************************************)
(* A streamed reply describes the same output as its response.completed:   *)
(* the item added at output_index k is item k of the completed output.     *)
(* It is about simulateStreaming placing the message at contentIndex and   *)
(* every other tool call at contentIndex+1 (lines 367-406), against        *)
(* ConvertResponse, which lists the tool calls first.                      *)
(***************************************************************************)
StreamedItemsMatchCompleted ==
  LET done == SelectSeq(events, LAMBDA e : e.type = "response.completed")
  IN  \A k \in DOMAIN events :
        events[k].type = "response.output_item.added" =>
          /\ events[k].index + 1 \in DOMAIN done[1].output
          /\ done[1].output[events[k].index + 1] = events[k].item

=============================================================================
