-------------------------- MODULE ConversationProxy --------------------------
(***************************************************************************)
(* Multi-turn conversations through ProxyHandler (src/unnamed/part_000)    *)
(* and the BBolt ConversationStore (src/internal/storage/storage.go).      *)
(*                                                                         *)
(* A client sends turns 1..MaxTurns one after another: it sends the next   *)
(* turn once it has its answer (response.completed, the JSON response, or  *)
(* an error), and may chain it on any response it has seen completed with  *)
(* previous_response_id.  Each turn is served by its own handler           *)
(* goroutine: handleResponses loads the history, ConvertRequest builds the *)
(* message list, the upstream answers, and handleStreamingResponse or      *)
(* handleNonStreamingResponse stores the request messages plus the         *)
(* assistant message under "resp-<id>".  Turn k's generated response id is *)
(* k; the empty string is the absent previous_response_id.                 *)
(*                                                                         *)
(* The client talks to one endpoint (a path, an X-Target-Provider header *)
(* and an Authorization header, fixed for the behaviour): parseProvider    *)
(* and getTargetConfig choose the target from the loaded configuration,   *)
(* which decides whether the request has an API key and how long its      *)
(* upstream context lives.                                                 *)
(*                                                                         *)
(* Between turns the client may read back the response of its last turn,  *)
(* once it has seen it completed, with GET /v1/responses/{id}              *)
(* (handleGetResponse).                                                    *)
(*                                                                         *)
(* A message is abstracted to its role, the turn it belongs to, whether an *)
(* assistant answer was complete, and whether its content is a string or  *)
(* a part list (the upstream's answers are taken to carry text).  Store and Get are BBolt      *)
(* transactions, hence atomic steps.                                       *)
(***************************************************************************)
EXTENDS Naturals, Sequences, SequencesExt, TLC

CONSTANTS
  MaxTurns,     \* turns the client sends
  ConfigFile,   \* the YAML file: default_target and providers, each a record
                \* of the keys the file sets
  Endpoints,    \* the endpoints a client may be configured with:
                \* [path (segments after the leading "/"), provider, auth]
  PartTurns     \* the turns a client may send as a part list rather than a
                \* single input_text

Turns == 1..MaxTurns
NoPrev == ""

\* ServeHTTP (part_000 73-78) routes only paths ending in /v1/responses
\* to handleResponses; other paths never reach the conversation.
ASSUME \A e \in Endpoints :
         Len(e.path) >= 2 /\ SubSeq(e.path, Len(e.path) - 1, Len(e.path)) = <<"v1", "responses">>

\* One TargetConfig (config.go 49-55) after Unmarshal: a key the file
\* sets keeps its value, a missing one keeps setDefaults' value where there
\* is one and Go's zero value otherwise.  Only the API key and the timeout
\* matter here.  The environment is taken empty: Unmarshal only looks up
\* keys the file or setDefaults names, and the README's
\* R2C_DEFAULT_API_KEY names none.
LoadTarget(f, timeoutDefault) ==
  [key     |-> IF "default_api_key" \in DOMAIN f THEN f.default_api_key ELSE "",
   timeout |-> IF "timeout" \in DOMAIN f THEN f.timeout ELSE timeoutDefault]

\* config.Load (config.go 62-113): setDefaults gives
\* default_target.timeout 300; providers get no defaults.
LoadConfig ==
  [defaultTarget |-> LoadTarget(ConfigFile.default_target, 300),
   providers     |-> [p \in DOMAIN ConfigFile.providers |->
                        LoadTarget(ConfigFile.providers[p], 0)]]

\* strings.Join(parts, "/").
JoinPath(parts) ==
  IF parts = <<>> THEN "" ELSE FoldLeft(LAMBDA a, b : a \o "/" \o b, Head(parts), Tail(parts))

\* parseProvider (part_000 515-534): the X-Target-Provider header, else
\* the segments before /v1/responses unless they are empty or "v1", else
\* "default".
ParseProvider(e) ==
  LET n    == Len(e.path)
      name == JoinPath(SubSeq(e.path, 1, n - 2))
  IN  IF e.provider # "" THEN e.provider
      ELSE IF n >= 3 /\ name \notin {"", "v1"} THEN name
      ELSE "default"

\* getTargetConfig (part_000 537-549): a configured provider's target,
\* else the default target.
GetTargetConfig(provider) ==
  IF provider \in DOMAIN LoadConfig.providers /\ provider \notin {"default", ""}
    THEN LoadConfig.providers[provider]
    ELSE LoadConfig.defaultTarget

\* fmt.Sprintf("resp-%s", responseID): the id the client sees in
\* response.created / response.completed (streaming.go 78, 141) and in the
\* JSON response (ConvertResponse, streaming.go 522).
RespID(t) == "resp-" \o ToString(t)

VARIABLES
  endpoint, \* the endpoint the client is configured with
  store,    \* the "conversations" bucket: key -> messages
  turn,     \* the client's last turn sent
  waiting,  \* the client waits for the answer of that turn
  seen,     \* response ids the client has seen completed
  hpc,      \* each turn's handler: "idle", "load", "upstream", "store",
            \* "respond" or "done"
  req,      \* each turn's request: previous_response_id, stream, instructions
  reqMsgs,  \* each turn's chatReq.Messages
  found,    \* whether each turn's handler found its previous history
  answer,   \* what each turn's client got: "none", "completed",
            \* "truncated" or "error"
  view      \* what the client's GET since its last turn showed: which
            \* turn's response, and its outcome

vars == <<endpoint, store, turn, waiting, seen, hpc, req, reqMsgs, found, answer, view>>

Message(role, t, complete) ==
  [role |-> role, turn |-> t, complete |-> complete, content |-> "text"]

\* convertMessageItem's content (streaming.go 450-484): a single input_text
\* part collapses to a string, several parts or an image stay a part list.
InputContent(parts) == IF parts THEN "parts" ELSE "text"

UserMsg(t) == [Message("user", t, TRUE) EXCEPT !.content = InputContent(req[t].parts)]

-----------------------------------------------------------------------------
\* ConversationStore.Get (56-73): not found when absent, undecodable or empty.
Get(key) == IF key \in DOMAIN store THEN store[key] ELSE <<>>

\* ConversationStore.Store (42-52): one BBolt Put, replacing any value.
Put(key, msgs) == store' = (key :> msgs) @@ store

\* A Store call from a handler: the BBolt Update commits, or it fails (the
\* database cannot be written, the value cannot be encoded) and nothing is
\* written; the handler only logs the error (part_000 397-404, 445-452).
TryPut(key, msgs) == Put(key, msgs) \/ UNCHANGED store

\* Mutation of ConvertRequest: instructions always prepended.
ConvertRequestAlwaysPrepends(history, instr, t) ==
  (IF instr THEN <<Message("system", t, TRUE)>> ELSE <<>>)
  \o history \o <<UserMsg(t)>>

\* Mutation of ConvertRequest: the turn's input goes before the history.
ConvertRequestInputFirst(history, instr, t) ==
  LET hasSystemMsg == \E j \in DOMAIN history : history[j].role = "system"
  IN  (IF instr /\ ~hasSystemMsg THEN <<Message("system", t, TRUE)>> ELSE <<>>)
      \o <<UserMsg(t)>> \o history

\* ConvertRequest (streaming.go 343-386): history first; the instructions
\* become a system message at the front unless the history already holds
\* one; then the turn's input message.
ConvertRequest(history, instr, t) ==
  LET hasSystemMsg == \E j \in DOMAIN history : history[j].role = "system"
  IN  (IF instr /\ ~hasSystemMsg THEN <<Message("system", t, TRUE)>> ELSE <<>>)
      \o history \o <<UserMsg(t)>>

\* Mutation of StreamKey: the streamed history is stored under the bare id.
StreamKeyUnprefixed(t) == ToString(t)

\* fullResponseID (part_000 397).
StreamKey(t) == RespID(t)

\* Mutation of StreamedHistory: only the assistant message is stored.
StreamedHistoryWithoutRequest(msgs, t, complete) ==
  <<Message("assistant", t, complete)>>

\* handleStreamingResponse (367-394): the request messages and the
\* assistant message built from the StreamResult, which is returned
\* whether or not the stream reached [DONE].
StreamedHistory(msgs, t, complete) ==
  msgs \o <<Message("assistant", t, complete)>>

\* The request's target and API key (part_000 224-226, 285-294): the
\* client's Authorization header, else "Bearer " and the target's key.
Target == GetTargetConfig(ParseProvider(endpoint))
ApiKey == IF endpoint.auth # "" THEN endpoint.auth
          ELSE IF Target.key # "" THEN "Bearer " \o Target.key ELSE ""

\* context.WithTimeout(r.Context(), targetCfg.Timeout seconds) (313): a
\* zero timeout gives a context whose deadline has passed, so client.Do
\* fails before anything is sent and the upstream cannot answer.
DeadlineLive == Target.timeout > 0

\* extractResponseID (part_000 202-215) on the path's segments: what
\* follows "/v1/responses/", else the segment after the first "responses"
\* that has one, else "".
ExtractResponseID(segs) ==
  LET after == {j \in 1..Len(segs) - 1 : segs[j] = "responses"}
  IN  IF Len(segs) >= 3 /\ SubSeq(segs, 1, 2) = <<"v1", "responses">>
        THEN JoinPath(SubSeq(segs, 3, Len(segs)))
      ELSE IF after # {} THEN segs[Min(after) + 1]
      ELSE ""

\* Mutation of ConvertMessagesToOutput: the first message is skipped as
\* if it were always the system message.
ConvertMessagesToOutputSkipFirst(msgs) ==
  LET idx == SelectSeq([i \in 1..Len(msgs) - 1 |-> i + 1], LAMBDA i : msgs[i].content = "text")
  IN  [k \in DOMAIN idx |->
         [id |-> idx[k] - 1, role |-> msgs[idx[k]].role, turn |-> msgs[idx[k]].turn]]

\* convertMessagesToOutput (part_000 154-199): one item "msg_<i>" per
\* message but the system ones, in order, and only for a message whose
\* content is a string: a part list matches no case of the type switch.
ShownInOutput(m) == m.role # "system" /\ m.content = "text"

ConvertMessagesToOutput(msgs) ==
  LET idx == SelectSeq([i \in DOMAIN msgs |-> i], LAMBDA i : ShownInOutput(msgs[i]))
  IN  [k \in DOMAIN idx |->
         [id |-> idx[k] - 1, role |-> msgs[idx[k]].role, turn |-> msgs[idx[k]].turn]]

\* A GET of turn t's response: 404, or 200 with the output items; turn 0
\* before any GET.
View(t, status, items) == [resp |-> t, status |-> status, items |-> items]
NoView == View(0, "none", <<>>)

-----------------------------------------------------------------------------
Init ==
  /\ endpoint \in Endpoints
  /\ store = <<>>
  /\ turn = 0
  /\ waiting = FALSE
  /\ seen = {}
  /\ hpc = [t \in Turns |-> "idle"]
  /\ req = [t \in Turns |-> [prev |-> NoPrev, stream |-> FALSE, instr |-> FALSE, parts |-> FALSE]]
  /\ reqMsgs = [t \in Turns |-> <<>>]
  /\ found = [t \in Turns |-> FALSE]
  /\ answer = [t \in Turns |-> "none"]
  /\ view = NoView

\* The client's answer to turn t arrives.
Answer(t, a) ==
  /\ answer' = [answer EXCEPT ![t] = a]
  /\ waiting' = FALSE
  /\ seen' = IF a = "completed" THEN seen \cup {RespID(t)} ELSE seen

\* The client sends its next turn, chained on a response it saw completed.
Send(t) ==
  /\ ~waiting
  /\ t = turn + 1
  /\ \E prev \in {NoPrev} \cup seen, stream \in BOOLEAN, instr \in BOOLEAN, parts \in IF t \in PartTurns THEN BOOLEAN ELSE {FALSE} :
       req' = [req EXCEPT ![t] = [prev |-> prev, stream |-> stream, instr |-> instr,
                                  parts |-> parts]]
  /\ hpc' = [hpc EXCEPT ![t] = "load"]
  /\ turn' = t
  /\ waiting' = TRUE
  /\ view' = NoView
  /\ UNCHANGED <<endpoint, store, seen, reqMsgs, found, answer>>

\* handleResponses (253-294): load the history of previous_response_id
\* (starting fresh when it is not found), convert the request, and answer
\* 401 when there is no API key.
Load(t) ==
  /\ hpc[t] = "load"
  /\ LET history == Get(req[t].prev)
     IN  /\ found' = [found EXCEPT ![t] = history # <<>>]
         /\ reqMsgs' = [reqMsgs EXCEPT ![t] = ConvertRequest(history, req[t].instr, t)]
  /\ \/ /\ ApiKey # ""
        /\ hpc' = [hpc EXCEPT ![t] = "upstream"]
        /\ UNCHANGED <<waiting, seen, answer>>
     \/ /\ ApiKey = ""
        /\ Answer(t, "error")
        /\ hpc' = [hpc EXCEPT ![t] = "done"]
  /\ UNCHANGED <<view, endpoint, store, turn, req>>

\* The upstream cannot be reached (always so when the context's deadline
\* has already passed) or answers with a status >= 400 (313-347); for a non-streaming request the body may also fail to be read
\* or parsed (411-424).  The client gets an error and nothing is stored.
UpstreamFails(t) ==
  /\ hpc[t] = "upstream"
  /\ Answer(t, "error")
  /\ hpc' = [hpc EXCEPT ![t] = "done"]
  /\ UNCHANGED <<view, endpoint, store, turn, req, reqMsgs, found>>

\* HandleStreamingResponse writes the stream: response.completed when
\* [DONE] arrives, otherwise (EOF, read error, line over 1 MiB) the stream
\* just ends.  History is stored after it returns.
StreamAnswer(t) ==
  /\ hpc[t] = "upstream"
  /\ DeadlineLive
  /\ req[t].stream
  /\ \E a \in {"completed", "truncated"} : Answer(t, a)
  /\ hpc' = [hpc EXCEPT ![t] = "store"]
  /\ UNCHANGED <<view, endpoint, store, turn, req, reqMsgs, found>>

\* handleStreamingResponse (367-405) stores the history; a failing Store
\* is only logged.
StoreStreamed(t) ==
  /\ hpc[t] = "store"
  /\ TryPut(StreamKey(t), StreamedHistory(reqMsgs[t], t, answer[t] = "completed"))
  /\ hpc' = [hpc EXCEPT ![t] = "done"]
  /\ UNCHANGED <<view, endpoint, turn, waiting, seen, req, reqMsgs, found, answer>>

\* Mutation of StoreNonStreamed: a failing Store returns from the handler
\* without writing the response.
StoreNonStreamedFailReturns(t) ==
  /\ hpc[t] = "upstream"
  /\ DeadlineLive
  /\ ~req[t].stream
  /\ \/ /\ Put(RespID(t), reqMsgs[t])
        /\ hpc' = [hpc EXCEPT ![t] = "respond"]
     \/ /\ UNCHANGED store
        /\ hpc' = [hpc EXCEPT ![t] = "done"]
  /\ UNCHANGED <<view, endpoint, turn, waiting, seen, req, reqMsgs, found, answer>>

\* handleNonStreamingResponse (436-453): the history is stored before the
\* response is written, with the assistant message when there is a choice;
\* a failing Store is logged and the response is written all the same.
StoreNonStreamed(t) ==
  /\ hpc[t] = "upstream"
  /\ DeadlineLive
  /\ ~req[t].stream
  /\ \E hasChoice \in BOOLEAN :
       TryPut(RespID(t), reqMsgs[t] \o (IF hasChoice THEN <<Message("assistant", t, TRUE)>>
                                                   ELSE <<>>))
  /\ hpc' = [hpc EXCEPT ![t] = "respond"]
  /\ UNCHANGED <<view, endpoint, turn, waiting, seen, req, reqMsgs, found, answer>>

\* handleNonStreamingResponse writes the converted response (455-458).
Respond(t) ==
  /\ hpc[t] = "respond"
  /\ Answer(t, "completed")
  /\ hpc' = [hpc EXCEPT ![t] = "done"]
  /\ UNCHANGED <<view, endpoint, store, turn, req, reqMsgs, found>>

\* ServeHTTP (part_000 84-90) routes a GET of a path holding
\* "/v1/responses/" to handleGetResponse (126-152): 404 when the store
\* has nothing under the id, else the converted messages.
GetResponse(t) ==
  /\ ~waiting
  /\ t = turn
  /\ RespID(t) \in seen
  /\ LET msgs == Get(ExtractResponseID(endpoint.path \o <<RespID(t)>>))
     IN  view' = IF msgs = <<>> THEN View(t, "not_found", <<>>)
                 ELSE View(t, "ok", ConvertMessagesToOutput(msgs))
  /\ UNCHANGED <<endpoint, store, turn, waiting, seen, hpc, req, reqMsgs, found, answer>>

Next ==
  \E t \in Turns :
    \/ GetResponse(t)
    \/ Send(t)
    \/ Load(t)
    \/ UpstreamFails(t)
    \/ StreamAnswer(t)
    \/ StoreStreamed(t)
    \/ StoreNonStreamed(t)
    \/ Respond(t)

(***************************************************************************)
(* Each turn's handler goroutine keeps running: the upstream request has a *)
(* context timeout (targetCfg.Timeout), BBolt transactions return, and     *)
(* nothing else blocks it, so its steps are weakly fair.  The client may   *)
(* stop sending at any point and gets no fairness.                         *)
(***************************************************************************)
Fairness ==
  \A t \in Turns :
    WF_vars(Load(t) \/ UpstreamFails(t) \/ StreamAnswer(t) \/ StoreStreamed(t)
            \/ StoreNonStreamed(t) \/ Respond(t))

Spec == Init /\ [][Next]_vars /\ Fairness

-----------------------------------------------------------------------------
(***************************************************************************)
(* Properties                                                              *)
(***************************************************************************)
Msgs == [role : {"system", "user", "assistant"}, turn : Turns, complete : BOOLEAN,
         content : {"text", "parts"}]

TypeOK ==
  /\ endpoint \in Endpoints
  /\ DOMAIN store \subseteq {RespID(t) : t \in Turns}
  /\ \A key \in DOMAIN store : store[key] \in Seq(Msgs)
  /\ turn \in 0..MaxTurns /\ waiting \in BOOLEAN
  /\ seen \subseteq {RespID(t) : t \in Turns}
  /\ hpc \in [Turns -> {"idle", "load", "upstream", "store", "respond", "done"}]
  /\ req \in [Turns -> [prev : {NoPrev} \cup seen, stream : BOOLEAN, instr : BOOLEAN,
                        parts : BOOLEAN]]
  /\ reqMsgs \in [Turns -> Seq(Msgs)]
  /\ found \in [Turns -> BOOLEAN]
  /\ answer \in [Turns -> {"none", "completed", "truncated", "error"}]
  /\ view \in [resp : 0..MaxTurns, status : {"none", "not_found", "ok"},
                items : Seq([id : Nat, role : {"user", "assistant"}, turn : Turns])]

NoSystem(s) == SelectSeq(s, LAMBDA m : m.role # "system")

(***************************************************************************)
(* Spec 4.2 step 2 and 8: however many turns are chained with              *)
(* instructions, a stored conversation holds at most one system message,   *)
(* and it comes first.  It is about ConvertRequest's hasSystemMsg check    *)
(* against the history loaded by previous_response_id.                     *)
(***************************************************************************)
SystemMessageLeads ==
  \A key \in DOMAIN store :
    \A j \in DOMAIN store[key] : store[key][j].role = "system" => j = 1

(***************************************************************************)
(* A chained turn continues its conversation: once stored, the history of  *)
(* turn t (system message aside) begins with the whole stored history it   *)
(* was chained on, and its last user message is turn t's input.  It is     *)
(* about handleResponses loading the history and both response paths       *)
(* storing the request messages before the assistant message.              *)
(***************************************************************************)
StoredHistoryExtendsLoaded ==
  \A t \in Turns : RespID(t) \in DOMAIN store =>
    LET s == store[RespID(t)]
    IN  /\ found[t] => IsPrefix(NoSystem(store[req[t].prev]), NoSystem(s))
        /\ \E j \in DOMAIN s :
             /\ s[j] = UserMsg(t)
             /\ \A l \in j + 1..Len(s) : s[l].role = "assistant"

(***************************************************************************)
(* Every turn the client sends is answered (completed, truncated or an     *)
(* error), whether or not its history could be stored.  It is about the    *)
(* handlers going on past a failing Store (part_000 397-404, 445-452) and   *)
(* writing the response after it.                                          *)
(***************************************************************************)
EveryTurnAnswered ==
  \A t \in Turns : (hpc[t] # "idle") ~> (answer[t] # "none")

(***************************************************************************)
(* A follow-up chained on a response the client has seen completed finds   *)
(* that response's history.  It is about handleStreamingResponse storing   *)
(* the history only after HandleStreamingResponse has flushed              *)
(* response.completed (part_000 362-398).                                  *)
(***************************************************************************)
FollowUpSeesHistory ==
  \A t \in Turns :
    (hpc[t] \notin {"idle", "load"} /\ req[t].prev # NoPrev) => found[t]

(***************************************************************************)
(* Spec 4.3: a stream that ends without [DONE] (read error, over-long      *)
(* line) is reported to the caller, so only answers the client saw         *)
(* completed become history.  It is about HandleStreamingResponse          *)
(* returning its StreamResult after scanner.Err (streaming.go 235-246)     *)
(* and the caller storing it.                                              *)
(***************************************************************************)
OnlyCompletedAnswersStored ==
  \A key \in DOMAIN store : \A j \in DOMAIN store[key] :
    store[key][j].role = "assistant" => store[key][j].complete

(***************************************************************************)
(* Refinement of ConversationHistory: the store, read as the user turns of *)
(* each stored conversation, is a tree of conversations in which every     *)
(* turn's conversation is one earlier stored conversation (or none)        *)
(* followed by that turn, and no stored conversation ever changes.  It is  *)
(* about handleResponses loading previous_response_id's history into the   *)
(* request, and both response paths storing the request messages under     *)
(* the turn's own fresh id.                                                *)
(***************************************************************************)
UserTurnsOf(s) ==
  LET u == SelectSeq(s, LAMBDA m : m.role = "user") IN [k \in DOMAIN u |-> u[k].turn]

histBar == [t \in {x \in Turns : RespID(x) \in DOMAIN store} |-> UserTurnsOf(store[RespID(t)])]

Abstract == INSTANCE ConversationHistory WITH hist <- histBar

ImplementsConversationHistory == Abstract!Spec

(***************************************************************************)
(* What GET /v1/responses/{id} shows of a response is its conversation:    *)
(* the user turns of the last GET that found a response are, in order,     *)
(* the turns ConversationHistory records for that response that were sent *)
(* as a single input_text; a turn sent as a part list (several parts, an   *)
(* image) is stored as a list and convertMessagesToOutput shows nothing    *)
(* for it.  It is about ServeHTTP and extractResponseID finding the key    *)
(* the POST stored under, the content check of convertMessagesToOutput,   *)
(* and no later Store replacing a conversation.                            *)
(***************************************************************************)
ViewShowsHistory ==
  view.status = "ok" =>
    /\ view.resp \in DOMAIN histBar
    /\ UserTurnsOf(view.items) = SelectSeq(histBar[view.resp], LAMBDA k : ~req[k].parts)

(***************************************************************************)
(* Spec 5: every outbound call is bounded by a timeout, and a turn that    *)
(* passes the key check reaches the upstream with a context that can      *)
(* still carry the request.  It is about handleResponses taking the        *)
(* context's timeout from the routed target (part_000 313) while           *)
(* config.Load gives a default timeout only to default_target (config.go   *)
(* 113): a provider configured as the README shows, with no timeout key,   *)
(* gets a context that has expired before client.Do runs.                  *)
(***************************************************************************)
UpstreamContextLive == \A t \in Turns : hpc[t] = "upstream" => DeadlineLive

=============================================================================
