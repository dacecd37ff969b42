--------------------------- MODULE MCWebSearchLoop ---------------------------
(* The web_search loop against an upstream whose answers carry at most two *)
(* tool calls: a search with a valid, a query-less or a malformed argument *)
(* string, and another function.                                           *)
EXTENDS WebSearchLoop

WsValid == [name |-> "web_search", args |-> "valid"]
WsNoQuery == [name |-> "web_search", args |-> "noquery"]
WsBad == [name |-> "web_search", args |-> "malformed"]
Other == [name |-> "get_weather", args |-> "valid"]

MCReplies ==
  {ErrReply, [kind |-> "ok", choices |-> FALSE, content |-> "", calls |-> <<>>]}
  \cup [kind : {"ok"}, choices : {TRUE}, content : {"", "text"},
        calls : {<<>>, <<WsBad, WsNoQuery>>, <<WsValid, Other>>, <<Other>>}]

\* One MCP provider with a key; the default names a Firecrawl entry
\* without one, so Manager.Search falls back.
MCProviderConfigs ==
  [p \in {"mcp", "firecrawl"} |->
     IF p = "mcp" THEN [key |-> TRUE, type |-> "mcp"]
                  ELSE [key |-> FALSE, type |-> "firecrawl"]]
====
