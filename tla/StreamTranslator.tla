-------------------------- MODULE StreamTranslator --------------------------
(***************************************************************************)
(* The streaming response converter of internal/converter/streaming.go:    *)
(* HandleStreamingResponse reads the upstream Chat Completions SSE body    *)
(* line by line and writes Responses API events to the client, keeping    *)
(* the accumulated text, a map from an integer key to the function_call    *)
(* items it has opened, and a flag for the message item's "added" event.   *)
(* When the loop ends (on [DONE], end of body or a read error) it returns  *)
(* a StreamResult that the proxy handler persists as history.              *)
(*                                                                         *)
(* One step reads one line.  Upstream lines are the environment: every     *)
(* line the provider may send is enumerated with \E from small sets.       *)
(***************************************************************************)
EXTENDS Integers, Sequences, SequencesExt, FiniteSets, TLC

CONSTANTS
  Texts,         \* non-empty text fragments of delta.content
  CallIds,       \* provider tool call ids, as sequences of character codes
  Names,         \* function names carried by tool call deltas
  Args,          \* non-empty argument fragments
  ToolDeltas,    \* the tool call deltas the provider may send
  MaxToolDeltas, \* most tool call deltas in one chunk
  MaxLines       \* bound on the number of lines read

\* The empty string of each field: Go's "" for content, id, name, arguments.
NoText == ""
NoId   == <<>>
NoName == ""
NoArgs == ""

ToolDeltaShape ==
  [id: CallIds \cup {NoId}, name: Names \cup {NoName}, args: Args \cup {NoArgs}]

ASSUME ToolDeltas \subseteq ToolDeltaShape
ASSUME MaxToolDeltas \in Nat /\ MaxLines \in Nat

VARIABLES
  events,           \* the SSE events written to the client, in order
  outputText,       \* outputText: the text deltas appended so far
  currentToolID,    \* currentToolID: the per-stream counter
  toolCalls,        \* toolCalls: map[int]*OutputItem
  messageItemAdded, \* messageItemAdded
  phase,            \* "reading", or why the scan loop stopped
  linesRead,        \* lines consumed (bounded by MaxLines)
  received,         \* history: every tool call delta read, in order
  result            \* the returned *StreamResult, NoResult while reading

vars == <<events, outputText, currentToolID, toolCalls, messageItemAdded,
          phase, linesRead, received, result>>

NoResult == [text |-> <<>>, toolCalls |-> <<>>, returned |-> FALSE]

(***************************************************************************)
(* hashToolCallID (streaming.go 250-259): hash = hash*31 + c over the      *)
(* runes of the id, then its absolute value.  Ids in the model are short   *)
(* enough that Go's 64-bit int does not wrap.                              *)
(***************************************************************************)
HashToolCallID(id) ==
  LET h == FoldLeft(LAMBDA acc, c : acc * 31 + c, 0, id)
  IN  IF h < 0 THEN -h ELSE h

Ev(type, item, body) == [type |-> type, item |-> item, body |-> body]

\* The message item's key in events ("msg-<id>"); function_call items are
\* keyed by their slot ("fc-<id>-<slot>"), which is never negative.
Msg == -1

(***************************************************************************)
(* One iteration of the `for _, tc := range delta.ToolCalls` loop          *)
(* (streaming.go 191-226), as a step on [calls, next, events].  The key    *)
(* looked up is the id's hash or the counter, but a new item is always     *)
(* stored under the counter (line 207).                                    *)
(***************************************************************************)
ApplyToolDelta(st, tc) ==
  LET idx     == IF tc.id # NoId THEN HashToolCallID(tc.id) ELSE st.next
      exists  == idx \in DOMAIN st.calls
      key     == IF exists THEN idx ELSE st.next
      created == [callId |-> tc.id, name |-> NoName, args |-> <<>>]
      calls1  == IF exists THEN st.calls ELSE (st.next :> created) @@ st.calls
      Update(it) ==
        [it EXCEPT !.name = IF tc.name # NoName THEN tc.name ELSE @,
                   !.args = IF tc.args # NoArgs THEN Append(@, tc.args) ELSE @]
  IN [calls  |-> [calls1 EXCEPT ![key] = Update(@)],
      next   |-> IF exists THEN st.next ELSE st.next + 1,
      events |-> IF exists THEN st.events
                 ELSE Append(st.events, Ev("response.output_item.added", st.next, created))]

\* Mutation of TextEvents: the first delta only announces the item.
TextEventsFirstDeltaDropped(text) ==
  IF text = NoText THEN <<>>
  ELSE IF messageItemAdded
       THEN <<Ev("response.output_text.delta", Msg, text)>>
       ELSE <<Ev("response.output_item.added", Msg, <<>>)>>

\* The text part of a chunk (streaming.go 163-188): the message item is
\* announced on the first non-empty delta, then the delta is appended.
TextEvents(text) ==
  IF text = NoText THEN <<>>
  ELSE IF messageItemAdded
       THEN <<Ev("response.output_text.delta", Msg, text)>>
       ELSE <<Ev("response.output_item.added", Msg, <<>>),
              Ev("response.output_text.delta", Msg, text)>>

\* Mutation of AppendText: the `delta.Content != ""` guard is dropped.
AppendTextUnguarded(text) == Append(outputText, text)

\* outputText += delta.Content, under `if delta.Content != ""` (163, 180).
AppendText(text) == IF text # NoText THEN Append(outputText, text) ELSE outputText

\* Mutation of DoneEvents: the message item is closed before the tools.
DoneEventsMessageFirst(order) ==
  <<Ev("response.output_item.done", Msg, outputText)>>
  \o [i \in 1..Len(order) |->
       Ev("response.output_item.done", order[i], toolCalls[order[i]])]
  \o <<Ev("response.completed", Msg, <<>>)>>

\* The events written on [DONE] (112-146): tool call items in the given
\* map order, the message item with the whole text, response.completed.
DoneEvents(order) ==
  [i \in 1..Len(order) |->
     Ev("response.output_item.done", order[i], toolCalls[order[i]])]
  \o <<Ev("response.output_item.done", Msg, outputText),
       Ev("response.completed", Msg, <<>>)>>

\* A Go map ranged over in some order: every ordering of its keys.
MapOrders(m) == SetToSeqs(DOMAIN m)

\* The StreamResult built after the loop (streaming.go 240-246).
ResultFrom(text, calls, order) ==
  [text |-> text, toolCalls |-> [i \in 1..Len(order) |-> calls[order[i]]],
   returned |-> TRUE]

-----------------------------------------------------------------------------
Init ==
  /\ events = <<Ev("response.created", Msg, <<>>)>>   \* lines 73-83
  /\ outputText = <<>>
  /\ currentToolID = 0
  /\ toolCalls = [k \in {} |-> NoResult]
  /\ messageItemAdded = FALSE
  /\ phase = "reading"
  /\ linesRead = 0
  /\ received = <<>>
  /\ result = NoResult

\* A line without the "data:" prefix (keep-alive, "event:", blank): skipped.
ReadNonDataLine ==
  /\ phase = "reading" /\ linesRead < MaxLines
  /\ linesRead' = linesRead + 1
  /\ UNCHANGED <<events, outputText, currentToolID, toolCalls,
                 messageItemAdded, phase, received, result>>

\* A data line that fails to parse, or a chunk with no choices: skipped.
ReadUnusableChunk ==
  /\ phase = "reading" /\ linesRead < MaxLines
  /\ linesRead' = linesRead + 1
  /\ UNCHANGED <<events, outputText, currentToolID, toolCalls,
                 messageItemAdded, phase, received, result>>

\* A chunk with choices[0].delta: its content, then its tool_calls in order.
ReadChunk ==
  /\ phase = "reading" /\ linesRead < MaxLines
  /\ \E text \in Texts \cup {NoText},
        tcs \in BoundedSeq(ToolDeltas, MaxToolDeltas) :
       LET st0 == [calls |-> toolCalls, next |-> currentToolID,
                   events |-> events \o TextEvents(text)]
           st1 == FoldLeft(ApplyToolDelta, st0, tcs)
       IN /\ outputText' = AppendText(text)
          /\ messageItemAdded' = (messageItemAdded \/ text # NoText)
          /\ events' = st1.events
          /\ toolCalls' = st1.calls
          /\ currentToolID' = st1.next
          /\ received' = received \o tcs
  /\ linesRead' = linesRead + 1
  /\ UNCHANGED <<phase, result>>

(***************************************************************************)
(* "data: [DONE]" (streaming.go 110-148): one done event per open tool     *)
(* call in map order, the message done event with the whole text, then     *)
(* response.completed; the loop breaks and the result is built (240-246),  *)
(* ranging over the map again.                                             *)
(***************************************************************************)
ReadDone ==
  /\ phase = "reading" /\ linesRead < MaxLines
  /\ \E order \in MapOrders(toolCalls), order2 \in MapOrders(toolCalls) :
       /\ events' = events \o DoneEvents(order)
       /\ result' = ResultFrom(outputText, toolCalls, order2)
  /\ phase' = "completed"
  /\ linesRead' = linesRead + 1
  /\ UNCHANGED <<outputText, currentToolID, toolCalls, messageItemAdded, received>>

(***************************************************************************)
(* scanner.Scan() returns false: end of body, a transport read error, or a *)
(* line over the 1 MiB buffer ceiling (lines 87, 96, 235-237).  Only a log *)
(* line tells these apart; no completion event is written and the result   *)
(* is returned all the same.                                               *)
(***************************************************************************)
ScanStops ==
  /\ phase = "reading"
  /\ \E order \in MapOrders(toolCalls) :
       result' = ResultFrom(outputText, toolCalls, order)
  /\ phase' = "stopped"
  /\ UNCHANGED <<events, outputText, currentToolID, toolCalls,
                 messageItemAdded, linesRead, received>>

Next ==
  \/ ReadNonDataLine
  \/ ReadUnusableChunk
  \/ ReadChunk
  \/ ReadDone
  \/ ScanStops

Spec == Init /\ [][Next]_vars

-----------------------------------------------------------------------------
(***************************************************************************)
(* Properties                                                              *)
(***************************************************************************)
Item == [callId: CallIds \cup {NoId}, name: Names \cup {NoName}, args: Seq(Args)]

TypeOK ==
  /\ outputText \in Seq(Texts)
  /\ currentToolID \in Nat
  /\ DOMAIN toolCalls = 0..(currentToolID - 1)
  /\ \A k \in DOMAIN toolCalls : toolCalls[k] \in Item
  /\ messageItemAdded \in BOOLEAN
  /\ phase \in {"reading", "completed", "stopped"}
  /\ linesRead \in 0..MaxLines
  /\ received \in Seq(ToolDeltas)
  /\ result.returned = (phase # "reading")

IsEv(i, type, item) == events[i].type = type /\ events[i].item = item
AddedBefore(item, i) == \E j \in 1..(i - 1) : IsEv(j, "response.output_item.added", item)

(***************************************************************************)
(* The event stream follows the Responses API lifecycle (spec section 6):  *)
(* it opens with response.created; every item is added at most once; a     *)
(* text delta comes after the message item was added; a function_call      *)
(* item is done only after it was added and before the message item is     *)
(* done; response.completed is the last event and follows the message's   *)
(* done.  It is about the messageItemAdded flag and the [DONE] branch of    *)
(* HandleStreamingResponse.                                                 *)
(***************************************************************************)
EventsFollowLifecycle ==
  /\ events[1].type = "response.created"
  /\ \A i, j \in DOMAIN events :
       events[i].type = "response.output_item.added" /\ events[j] = events[i] => i = j
  /\ \A i \in DOMAIN events :
       LET e == events[i] IN
       /\ e.type = "response.output_text.delta" => AddedBefore(Msg, i)
       /\ e.type = "response.output_item.done" /\ e.item # Msg =>
            /\ AddedBefore(e.item, i)
            /\ \A j \in 1..(i - 1) : ~IsEv(j, "response.output_item.done", Msg)
       /\ e.type = "response.completed" =>
            /\ i = Len(events)
            /\ \E j \in 1..(i - 1) : IsEv(j, "response.output_item.done", Msg)

DeltaTexts(s) ==
  LET ds == SelectSeq(s, LAMBDA e : e.type = "response.output_text.delta")
  IN  [k \in 1..Len(ds) |-> ds[k].body]

(***************************************************************************)
(* The message item's done event carries exactly the text the client was  *)
(* sent as deltas, in the same order, and the StreamResult that is stored  *)
(* as history carries that text too: outputText accumulation and the      *)
(* first-delta branch of HandleStreamingResponse agree.                    *)
(***************************************************************************)
TextDoneMatchesDeltas ==
  /\ \A i \in DOMAIN events :
       IsEv(i, "response.output_item.done", Msg) =>
         events[i].body = DeltaTexts(SubSeq(events, 1, i - 1))
  /\ result.returned => result.text = DeltaTexts(events)

(***************************************************************************)
(* Spec 4.3 / section 8: argument fragments of one tool call concatenate   *)
(* in arrival order.  For every provider call id, the item that carries    *)
(* that id holds every fragment of the deltas naming it, in order.  It is  *)
(* about the key lookup of the tool_calls loop.                            *)
(***************************************************************************)
FragmentsOf(id) ==
  LET ds == SelectSeq(received, LAMBDA d : d.id = id /\ d.args # NoArgs)
  IN  [k \in 1..Len(ds) |-> ds[k].args]

ArgumentsConcatenated ==
  \A k \in DOMAIN toolCalls :
    toolCalls[k].callId # NoId => toolCalls[k].args = FragmentsOf(toolCalls[k].callId)

=============================================================================
