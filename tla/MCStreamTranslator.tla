------------------------ MODULE MCStreamTranslator --------------------------
(* Model values for StreamTranslator: two call ids spelled as the runes of *)
(* "c1" and "c2", one function name, two argument fragments, two texts.   *)
EXTENDS StreamTranslator

MCTexts   == {"Hi", "!"}
MCCallIds == {<<99, 49>>, <<99, 50>>}
MCNames   == {"web_search"}
MCArgs    == {"{\"q\":", "1}"}

\* The shapes providers send: an opening delta with id and name and the
\* first fragment, and a continuation with only a fragment (OpenAI style),
\* and a continuation that repeats the id.
MCToolDeltas ==
  { [id |-> <<99, 49>>, name |-> "web_search", args |-> "{\"q\":"],
    [id |-> <<>>,       name |-> "",           args |-> "1}"],
    [id |-> <<99, 49>>, name |-> "",           args |-> "1}"],
    [id |-> <<99, 50>>, name |-> "web_search", args |-> "{\"q\":"] }
=============================================================================
