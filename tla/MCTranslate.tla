----------------------------- MODULE MCTranslate -----------------------------
(* Every request of up to two input items and two tool declarations over   *)
(* the content shapes convertMessageItem distinguishes.                    *)
EXTENDS Translate

Txt(t) == [type |-> "input_text", text |-> t, url |-> "", data |-> ""]
ImgUrl == [type |-> "input_image", text |-> "", url |-> "u", data |-> ""]
ImgData == [type |-> "input_image", text |-> "", url |-> "", data |-> "d"]
Refusal == [type |-> "refusal", text |-> "no", url |-> "", data |-> ""]

Contents == {<<>>, <<Txt("hi")>>, <<Txt("hi"), Txt("yo")>>, <<ImgUrl>>,
             <<Txt("hi"), Refusal>>, <<Refusal>>, <<ImgData, Txt("hi")>>}

Item(type, role, content) ==
  [type |-> type, role |-> role, content |-> content, callId |-> "c1",
   name |-> "get_weather", args |-> "{}", output |-> "sunny"]

Items ==
  {Item("message", r, c) : r \in {"user", "developer"}, c \in Contents}
  \cup {Item("message", "", <<Txt("hi")>>), Item("function_call", "", <<>>),
        Item("function_call_output", "", <<>>), Item("reasoning", "", <<>>)}

Fn(n) == [type |-> "function", name |-> n]
WebSearch == [type |-> "web_search", name |-> ""]
CodeInterpreter == [type |-> "code_interpreter", name |-> ""]

ToolLists == {<<>>, <<WebSearch>>, <<Fn("get_weather")>>, <<Fn(""), CodeInterpreter>>,
              <<WebSearch, Fn("get_weather")>>}

Hist(role) == ChatMessage(role, TextContent("before"), <<>>, "")
Histories == {<<>>, <<Hist("user"), Hist("assistant")>>, <<Hist("system"), Hist("user")>>}

MCRequests ==
  [model : {"gpt-4", "qwen"}, instructions : {"", "be brief"},
   input : BoundedSeq(Items, 2), tools : ToolLists, history : Histories,
   supports : BOOLEAN]

MCModelMapping == [m \in {"gpt-4"} |-> "deepseek-chat"]
====
