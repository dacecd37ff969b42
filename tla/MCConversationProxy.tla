------------------------- MODULE MCConversationProxy -------------------------
(* The configuration of the README (src/unnamed/part_004 84-93, 151-163):  *)
(* a default target and providers with a base_url and path_suffix only,    *)
(* plus one provider whose timeout is set.  The client is pointed at the   *)
(* default path, at a provider by path or by header, with or without an    *)
(* Authorization header.                                                   *)
EXTENDS ConversationProxy

Documented == [base_url |-> "u", path_suffix |-> "/v1/chat/completions"]

MCConfigFile ==
  [default_target |-> Documented,
   providers      |-> [p \in {"deepseek", "stepfun"} |->
                         IF p = "deepseek" THEN Documented
                         ELSE [base_url |-> "u", path_suffix |-> "/chat/completions",
                               timeout |-> 60]]]

MCEndpoints ==
  {[path |-> <<"v1", "responses">>, provider |-> "", auth |-> "Bearer k"],
   [path |-> <<"v1", "responses">>, provider |-> "", auth |-> ""],
   [path |-> <<"deepseek", "v1", "responses">>, provider |-> "", auth |-> "Bearer k"],
   [path |-> <<"v1", "v1", "responses">>, provider |-> "stepfun", auth |-> "Bearer k"]}
====
