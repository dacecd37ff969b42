------------------------------ MODULE Translate ------------------------------
(***************************************************************************)
(* RequestTranslator: ConvertRequest and its item converters, in the two   *)
(* versions the repository holds.  The current one (appended to            *)
(* src/internal/converter/streaming.go, lines 312-518) takes the history   *)
(* and the developer-role capability and injects the web_search function;  *)
(* the legacy one (src/internal/converter/converter.go 1-153, called by    *)
(* src/internal/handler/handler.go) takes neither.                         *)
(*                                                                         *)
(* Both are pure functions.  A behaviour picks one request from Requests   *)
(* and translates it with each version; the properties compare the results *)
(* with the rules of spec 4.1.  Strings are abstracted to short literals;  *)
(* a Go interface{} content is a record tagged by its kind.                *)
(***************************************************************************)
EXTENDS Integers, Sequences, SequencesExt, FiniteSets

CONSTANTS
  Requests,      \* the [instructions, input, tools, history, supports] to translate
  ModelMapping   \* config.ModelMapping

NoContent == [kind |-> "none", text |-> "", parts |-> <<>>]
TextContent(t) == [kind |-> "text", text |-> t, parts |-> <<>>]
PartsContent(ps) == [kind |-> "parts", text |-> "", parts |-> ps]

ChatMessage(role, content, calls, callId) ==
  [role |-> role, content |-> content, toolCalls |-> calls, toolCallId |-> callId]

\* The nil *ChatMessage of an input item that is dropped.
NoMsg == ChatMessage("", NoContent, <<>>, "")

\* WebSearchFunctionTool (streaming.go 320-337), reduced to its name.
WebSearchFunctionTool == [type |-> "function", name |-> "web_search"]

-----------------------------------------------------------------------------
(* The current converter (streaming.go)                                    *)

\* One content item as a ChatContentPart (455-467): text, or an image
\* taking its URL, else its inline data.
ContentPart(c) ==
  IF c.type = "input_text"
    THEN [type |-> "text", text |-> c.text, url |-> ""]
    ELSE [type |-> "image_url", text |-> "",
          url |-> IF c.url = "" /\ c.data # "" THEN c.data ELSE c.url]

\* Mutation of MessageContent: unknown content types are not filtered.
MessageContentUnfiltered(content) ==
  IF content = <<>> THEN NoContent
  ELSE IF Len(content) = 1 /\ content[1].type = "input_text"
    THEN TextContent(content[1].text)
  ELSE LET parts == [k \in DOMAIN content |->
                       IF content[k].type \in {"input_text", "input_image"}
                         THEN ContentPart(content[k])
                         ELSE [type |-> "", text |-> "", url |-> ""]]
       IN  PartsContent(parts)

\* The content of convertMessageItem (451-481): a single input_text is a
\* string; otherwise unknown types are dropped and what remains is a
\* string when it is one text part, a part list when it is not empty, and
\* nothing when it is.
MessageContent(content) ==
  IF content = <<>> THEN NoContent
  ELSE IF Len(content) = 1 /\ content[1].type = "input_text"
    THEN TextContent(content[1].text)
  ELSE LET kept  == SelectSeq(content, LAMBDA c : c.type \in {"input_text", "input_image"})
           parts == [k \in DOMAIN kept |-> ContentPart(kept[k])]
       IN  IF Len(parts) = 1 /\ parts[1].type = "text" THEN TextContent(parts[1].text)
           ELSE IF parts # <<>> THEN PartsContent(parts)
           ELSE NoContent

\* Mutation of convertMessageItem: the empty-role check is dropped.
ConvertMessageItemAnyRole(item, supports) ==
  ChatMessage(IF item.role = "developer" /\ ~supports THEN "user" ELSE item.role,
              MessageContent(item.content), <<>>, "")

\* convertMessageItem (433-489): no role, no message; "developer" becomes
\* "user" for a destination without the role.
ConvertMessageItem(item, supports) ==
  IF item.role = "" THEN NoMsg
  ELSE ChatMessage(IF item.role = "developer" /\ ~supports THEN "user" ELSE item.role,
                   MessageContent(item.content), <<>>, "")

\* convertFunctionCallItem and convertFunctionCallOutputItem (491-518).
ConvertFunctionCallItem(item) ==
  ChatMessage("assistant", NoContent,
              <<[id |-> item.callId, name |-> item.name, args |-> item.args]>>, "")
ConvertFunctionCallOutputItem(item) ==
  ChatMessage("tool", TextContent(item.output), <<>>, item.callId)

\* convertInputItemToMessage (419-431).
ConvertInputItem(item, supports) ==
  CASE item.type = "message"              -> ConvertMessageItem(item, supports)
    [] item.type = "function_call"        -> ConvertFunctionCallItem(item)
    [] item.type = "function_call_output" -> ConvertFunctionCallOutputItem(item)
    [] OTHER                              -> NoMsg

\* The non-nil translations of the input items, in order (380-386).
ConvertInput(input, supports) ==
  SelectSeq([k \in DOMAIN input |-> ConvertInputItem(input[k], supports)],
            LAMBDA m : m # NoMsg)

\* Mutation of ConvertRequestMessages: the instructions are appended
\* after the history instead of prepended.
InstructionsAfterHistory(r) ==
  LET hasSystemMsg == \E k \in DOMAIN r.history : r.history[k].role = "system"
  IN  r.history
      \o (IF r.instructions # "" /\ ~hasSystemMsg
            THEN <<ChatMessage("system", TextContent(r.instructions), <<>>, "")>>
            ELSE <<>>)
      \o ConvertInput(r.input, r.supports)

\* The message list of ConvertRequest (354-388): the history, the
\* instructions as a system message in front when the history holds none,
\* then the input.
ConvertRequestMessages(r) ==
  LET hasSystemMsg == \E k \in DOMAIN r.history : r.history[k].role = "system"
  IN  (IF r.instructions # "" /\ ~hasSystemMsg
         THEN <<ChatMessage("system", TextContent(r.instructions), <<>>, "")>>
         ELSE <<>>)
      \o r.history
      \o ConvertInput(r.input, r.supports)

\* One tool declaration (393-406): web_search is replaced by the injected
\* function, a named function is kept, anything else is dropped.
ConvertTool(t) ==
  IF t.type = "web_search" THEN <<WebSearchFunctionTool>>
  ELSE IF t.type = "function" /\ t.name # "" THEN <<t>>
  ELSE <<>>

\* ConvertRequest (343-417): the chat request and hasWebSearchTool.
ConvertRequest(r) ==
  [model    |-> IF r.model \in DOMAIN ModelMapping THEN ModelMapping[r.model] ELSE r.model,
   messages |-> ConvertRequestMessages(r),
   tools    |-> FlattenSeq([k \in DOMAIN r.tools |-> ConvertTool(r.tools[k])]),
   webSearch |-> \E k \in DOMAIN r.tools : r.tools[k].type = "web_search"]

-----------------------------------------------------------------------------
(* The legacy converter (converter.go)                                     *)

\* A content item of the legacy part loop (97-115): an unknown type leaves
\* the zero ChatContentPart in its slot.
LegacyContentPart(c) ==
  IF c.type \in {"input_text", "input_image"} THEN ContentPart(c)
  ELSE [type |-> "", text |-> "", url |-> ""]

\* Legacy convertMessageItem (78-123): "developer" always becomes
\* "system"; a part list is never filtered or collapsed.
LegacyConvertMessageItem(item) ==
  IF item.role = "" THEN NoMsg
  ELSE ChatMessage(IF item.role = "developer" THEN "system" ELSE item.role,
                   IF item.content = <<>> THEN NoContent
                   ELSE IF Len(item.content) = 1 /\ item.content[1].type = "input_text"
                     THEN TextContent(item.content[1].text)
                   ELSE PartsContent([k \in DOMAIN item.content |->
                                        LegacyContentPart(item.content[k])]),
                   <<>>, "")

\* Legacy convertInputItemToMessage (63-75).
LegacyConvertInputItem(item) ==
  CASE item.type = "message"              -> LegacyConvertMessageItem(item)
    [] item.type = "function_call"        -> ConvertFunctionCallItem(item)
    [] item.type = "function_call_output" -> ConvertFunctionCallOutputItem(item)
    [] OTHER                              -> NoMsg

\* Legacy ConvertRequest (9-61): the instructions always first, no
\* history; only named function tools are kept.
LegacyConvertRequest(r) ==
  [model    |-> IF r.model \in DOMAIN ModelMapping THEN ModelMapping[r.model] ELSE r.model,
   messages |-> (IF r.instructions # ""
                   THEN <<ChatMessage("system", TextContent(r.instructions), <<>>, "")>>
                   ELSE <<>>)
                \o SelectSeq([k \in DOMAIN r.input |-> LegacyConvertInputItem(r.input[k])],
                             LAMBDA m : m # NoMsg),
   tools    |-> SelectSeq(r.tools, LAMBDA t : t.type = "function" /\ t.name # ""),
   webSearch |-> FALSE]

-----------------------------------------------------------------------------
VARIABLES
  req,     \* the request being translated
  out,     \* the current ConvertRequest's result, or NoOut
  legacy   \* the legacy ConvertRequest's result, or NoOut

vars == <<req, out, legacy>>

NoOut == [model |-> "", messages |-> <<>>, tools |-> <<>>, webSearch |-> FALSE]

Init ==
  /\ req \in Requests
  /\ out = NoOut
  /\ legacy = NoOut

Convert ==
  /\ out = NoOut
  /\ out' = ConvertRequest(req)
  /\ UNCHANGED <<req, legacy>>

ConvertLegacy ==
  /\ legacy = NoOut
  /\ legacy' = LegacyConvertRequest(req)
  /\ UNCHANGED <<req, out>>

Next == Convert \/ ConvertLegacy

Spec == Init /\ [][Next]_vars

-----------------------------------------------------------------------------
(***************************************************************************)
(* Properties                                                              *)
(***************************************************************************)
Roles == {"system", "user", "assistant", "tool", "developer"}

TypeOK ==
  /\ req \in Requests
  /\ \A o \in {out, legacy} :
       \A k \in DOMAIN o.messages :
         /\ o.messages[k].role \in Roles
         /\ o.messages[k].content.kind \in {"none", "text", "parts"}

\* Spec 4.1 step 3 for the result o: a part list is never empty, never a
\* single text part, and holds only text and image parts.
WellFormedContent(o) ==
  \A k \in DOMAIN o.messages :
    LET c == o.messages[k].content
    IN  c.kind = "parts" =>
          /\ c.parts # <<>>
          /\ ~(Len(c.parts) = 1 /\ c.parts[1].type = "text")
          /\ \A j \in DOMAIN c.parts : c.parts[j].type \in {"text", "image_url"}

(***************************************************************************)
(* Spec 4.1 step 3: content with exactly one text part collapses to a      *)
(* string, other content becomes a part list, and unrecognized content     *)
(* types are dropped, never forwarded as empty or invalid parts.  It is    *)
(* about convertMessageItem's part loop and its collapse afterwards        *)
(* (streaming.go 451-481).                                                 *)
(***************************************************************************)
ContentWellFormed == WellFormedContent(out)

(***************************************************************************)
(* Spec 4.1 step 2 and section 8: the message list is the instructions as  *)
(* a system message at position 1 exactly when the history holds no system *)
(* message, then the history verbatim, then one message per translatable   *)
(* input item in input order, a function call as an assistant message and *)
(* a function output as a tool message.  It is about the assembly in       *)
(* ConvertRequest (streaming.go 354-388).  It leaves the role a developer  *)
(* message is rewritten to open, as spec 9 does: streaming.go gives "user" *)
(* when the target lacks the capability, while the repository's tests of   *)
(* the 3-argument ConvertRequest (converter.go 450-469) expect "system".   *)
(***************************************************************************)
MessagesFollowSpec ==
  out # NoOut =>
    LET h  == req.history
        ms == out.messages
        n  == IF req.instructions # "" /\ \A k \in DOMAIN h : h[k].role # "system"
                THEN 1 ELSE 0
        translatable == {k \in DOMAIN req.input :
                           \/ req.input[k].type \in {"function_call", "function_call_output"}
                           \/ req.input[k].type = "message" /\ req.input[k].role # ""}
    IN  /\ Len(ms) = n + Len(h) + Cardinality(translatable)
        /\ n = 1 => ms[1] = ChatMessage("system", TextContent(req.instructions), <<>>, "")
        /\ SubSeq(ms, n + 1, n + Len(h)) = h
        /\ \A j \in 1..Cardinality(translatable) :
             LET k == CHOOSE x \in translatable :
                        Cardinality({y \in translatable : y <= x}) = j
             IN  CASE req.input[k].type = "function_call"        -> ms[n + Len(h) + j].role = "assistant"
                   [] req.input[k].type = "function_call_output" -> ms[n + Len(h) + j].role = "tool"
                   [] req.input[k].role = "developer"            -> TRUE
                   [] OTHER -> ms[n + Len(h) + j].role = req.input[k].role

=============================================================================
