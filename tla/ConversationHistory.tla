------------------------- MODULE ConversationHistory -------------------------
(***************************************************************************)
(* What the conversation store promises (spec 4.2, 4.6): conversations     *)
(* form a tree.  Each turn's response id is recorded once, and its         *)
(* conversation is the conversation of a previously recorded response (or  *)
(* none) followed by the turn itself.  A conversation is the sequence of   *)
(* the turns whose user input it holds; system prompts and answers are     *)
(* below this level of detail.                                             *)
(***************************************************************************)
EXTENDS Naturals, Sequences, Functions, TLC

CONSTANT Turns

VARIABLE hist   \* recorded turn -> its conversation

\* A new turn t continues one recorded conversation, or starts one.
Record(t) ==
  /\ t \notin DOMAIN hist
  /\ \E parent \in {<<>>} \cup Range(hist) :
       hist' = (t :> (parent \o <<t>>)) @@ hist

Init == hist = <<>>

Next == \E t \in Turns : Record(t)

Spec == Init /\ [][Next]_hist

====
