----------------------------- MODULE MCPSession -----------------------------
(***************************************************************************)
(* The session-RPC search client, MCPProvider (src/unnamed/part_002),      *)
(* shared by the goroutines that serve concurrent requests.  Its one piece *)
(* of shared mutable state is sessionID, guarded by sessionMutex in        *)
(* ensureSession (which holds the lock across the "initialize" POST) and   *)
(* in clearSession, but read without the lock by sendMCPRequest when it    *)
(* sets the mcp-session-id header.  Search makes at most two attempts:     *)
(* an auth error clears the session and retries.                           *)
(*                                                                         *)
(* The MCP server is the environment: "initialize" hands out a fresh       *)
(* session token, a tools/call with a token it does not (or no longer)     *)
(* accept answers with an auth error (code -401, or "apikey" in the        *)
(* message or in an isError content text), and it may expire a session at *)
(* any time.  Any POST may fail in transport (timeout, connection error).  *)
(***************************************************************************)
EXTENDS Naturals, FiniteSets, Sequences

CONSTANTS
  Searchers,    \* goroutines calling Search(query) on the one provider
  Tokens,       \* session tokens the server can issue
  MaxExpiries,  \* bound on sessions the server expires
  NoSession,    \* the empty sessionID ""
  None          \* no goroutine holds sessionMutex

ASSUME NoSession \notin Tokens /\ None \notin Searchers
ASSUME MaxExpiries \in Nat

\* Maximum attempts of the retry loop: `for attempt := 0; attempt < 2`.
MaxAttempts == 2

VARIABLES
  sessionID,   \* p.sessionID
  lockHolder,  \* p.sessionMutex: the goroutine holding it, or None
  pc,          \* where each goroutine is in Search
  attempt,     \* the loop counter of each goroutine's Search
  sent,        \* the session header each goroutine's last tools/call carried
  outcome,     \* what Search returned, "none" while it runs
  valid,       \* server: the sessions it currently accepts
  issued,      \* server: the sessions it has ever handed out
  expiries,    \* server: sessions expired so far
  invokes,     \* history: tools/call requests each goroutine sent
  handshakes,  \* history: "initialize" requests that established a session
  clears,      \* history: clearSession calls
  got,         \* history: the session ensureSession last handed each goroutine
  reply,       \* server: the content text each goroutine's answered call got
  returned     \* the result URLs each goroutine's Search returned

clientVars == <<sessionID, lockHolder, pc, attempt, sent, outcome>>
serverVars == <<valid, issued, expiries>>
histVars   == <<invokes, handshakes, clears, got>>
resVars    == <<reply, returned>>
vars == <<clientVars, serverVars, histVars, resVars>>

Outcomes == {"none", "results", "toolError", "callError", "sessionSetupError",
             "sessionError"}

-----------------------------------------------------------------------------
(***************************************************************************)
(* Result decoding.  A JSON text is a tagged value: not JSON at all, null, *)
(* a string holding another text, an array of elements, where an element  *)
(* is an object with the link and url fields of mcpSearchResult (111-117), *)
(* null, or a number.  Title, content and snippet are copied and left out. *)
(***************************************************************************)
NotJSON     == [kind |-> "invalid"]
JNull       == [kind |-> "null"]
JStr(t)     == [kind |-> "string", text |-> t]
JArr(items) == [kind |-> "array", items |-> items]
Obj(l, u)   == [kind |-> "object", link |-> l, url |-> u]
Num         == [kind |-> "number"]

Ok(urls) == [ok |-> TRUE, urls |-> urls]
Err      == [ok |-> FALSE, urls |-> <<>>]

\* An element json.Unmarshal can put in a mcpSearchResult: an object, or
\* null, which leaves the zero struct.
Decodable(e) == e.kind \in {"object", "null"}

\* The URL the loop takes (398-401): Link, or URL when Link is empty; both
\* are empty for a null element.
ResultURL(e) == IF e.kind = "null" THEN ""
                ELSE IF e.link # "" THEN e.link ELSE e.url

\* json.Unmarshal into []mcpSearchResult, then the loop over it (373,
\* 391-408).  A null array decodes to no results.
UnmarshalResults(v) ==
  CASE v.kind = "array" /\ \A i \in DOMAIN v.items : Decodable(v.items[i])
         -> Ok([i \in DOMAIN v.items |-> ResultURL(v.items[i])])
    [] v.kind = "null" -> Ok(<<>>)
    [] OTHER -> Err

\* Mutation of ParseResults: the string case is not parsed a second time.
ParseResultsNoSecondParse(text) ==
  CASE text.kind = "array" -> UnmarshalResults(text)
    [] OTHER -> Err

\* parseResults (359-417): the first parse; a string is parsed again, an
\* array is re-marshalled and decoded, anything else (null included: the
\* interface{} is nil) is "unexpected result type".
ParseResults(text) ==
  CASE text.kind = "string" /\ text.text.kind # "invalid"
         -> UnmarshalResults(text.text)
    [] text.kind = "array" -> UnmarshalResults(text)
    [] OTHER -> Err

\* The content texts a server answers a tools/call with: a result array
\* encoded once or twice, an array holding null, a twice-encoded null, an
\* array holding a number, and plain text.
Answers == LET r == <<Obj("", "u"), Obj("l", "u")>> IN
  {JArr(r), JStr(JArr(r)), JArr(<<JNull>>), JStr(JNull), JStr(JArr(<<Num>>)),
   JStr(NotJSON)}
NoReply == [kind |-> "none"]

Return(g, o) == /\ pc' = [pc EXCEPT ![g] = "done"]
                /\ outcome' = [outcome EXCEPT ![g] = o]

-----------------------------------------------------------------------------
Init ==
  /\ sessionID = NoSession
  /\ lockHolder = None
  /\ pc = [g \in Searchers |-> "ensure"]
  /\ attempt = [g \in Searchers |-> 0]
  /\ sent = [g \in Searchers |-> NoSession]
  /\ outcome = [g \in Searchers |-> "none"]
  /\ valid = {}
  /\ issued = {}
  /\ expiries = 0
  /\ invokes = [g \in Searchers |-> 0]
  /\ handshakes = 0
  /\ clears = 0
  /\ got = [g \in Searchers |-> NoSession]
  /\ reply = [g \in Searchers |-> NoReply]
  /\ returned = [g \in Searchers |-> <<>>]

\* Mutation of EnsureSession: the cached session is never reused.
EnsureSessionNoReuse(g) ==
  /\ pc[g] = "ensure"
  /\ lockHolder = None
  /\ lockHolder' = g
  /\ pc' = [pc EXCEPT ![g] = "initialize"]
  /\ UNCHANGED <<resVars, sessionID, attempt, sent, outcome, serverVars, histVars>>

(***************************************************************************)
(* ensureSession, lines 120-127: take the lock; a cached session is reused *)
(* and the lock released on return; otherwise keep the lock for the        *)
(* "initialize" POST.                                                      *)
(***************************************************************************)
EnsureSession(g) ==
  /\ pc[g] = "ensure"
  /\ lockHolder = None
  /\ IF sessionID # NoSession
       THEN /\ pc' = [pc EXCEPT ![g] = "send"]
            /\ got' = [got EXCEPT ![g] = sessionID]
            /\ UNCHANGED lockHolder
       ELSE /\ lockHolder' = g
            /\ pc' = [pc EXCEPT ![g] = "initialize"]
            /\ UNCHANGED got
  /\ UNCHANGED <<resVars, sessionID, attempt, sent, outcome, serverVars, invokes,
                 handshakes, clears>>

\* The "initialize" POST returns with an Mcp-Session-Id header (129-199):
\* the server issues a fresh session, it is cached, the lock is released.
InitializeOk(g) ==
  /\ pc[g] = "initialize"
  /\ \E t \in Tokens \ issued :
       /\ sessionID' = t
       /\ valid' = valid \cup {t}
       /\ issued' = issued \cup {t}
       /\ got' = [got EXCEPT ![g] = t]
  /\ lockHolder' = None
  /\ pc' = [pc EXCEPT ![g] = "send"]
  /\ handshakes' = handshakes + 1
  /\ UNCHANGED <<resVars, attempt, sent, outcome, expiries, invokes, clears>>

(***************************************************************************)
(* The "initialize" POST returns without an Mcp-Session-Id header under    *)
(* any spelling (or with an error status, which is not checked):           *)
(* sessionID stays "", only a warning is logged, ensureSession returns nil *)
(* and the tools/call goes out without a session (176-198).                *)
(***************************************************************************)
InitializeNoHeader(g) ==
  /\ pc[g] = "initialize"
  /\ lockHolder' = None
  /\ pc' = [pc EXCEPT ![g] = "send"]
  /\ got' = [got EXCEPT ![g] = NoSession]
  /\ UNCHANGED <<resVars, sessionID, attempt, sent, outcome, serverVars, invokes,
                 handshakes, clears>>

\* Mutation of InitializeFails: the error path returns without Unlock.
InitializeFailsKeepsLock(g) ==
  /\ pc[g] = "initialize"
  /\ UNCHANGED lockHolder
  /\ Return(g, "sessionSetupError")
  /\ UNCHANGED <<resVars, sessionID, attempt, sent, serverVars, histVars>>

\* The "initialize" POST fails in transport (165-168): the deferred Unlock
\* runs and Search returns "failed to establish MCP session" (277-279).
InitializeFails(g) ==
  /\ pc[g] = "initialize"
  /\ lockHolder' = None
  /\ Return(g, "sessionSetupError")
  /\ UNCHANGED <<resVars, sessionID, attempt, sent, serverVars, histVars>>

\* sendMCPRequest (203-227): the header is set from p.sessionID, read
\* without the lock, when the tools/call request is built.
SendToolsCall(g) ==
  /\ pc[g] = "send"
  /\ sent' = [sent EXCEPT ![g] = sessionID]
  /\ invokes' = [invokes EXCEPT ![g] = @ + 1]
  /\ pc' = [pc EXCEPT ![g] = "await"]
  /\ UNCHANGED <<resVars, sessionID, lockHolder, attempt, outcome, serverVars,
                 handshakes, clears, got>>

\* The server accepts the session.  It answers with an rpc error, or an
\* isError content or no content at all (306, 319, 322-337): a tool error;
\* or with a content text, whose parseResults (345) gives Search's result
\* or its error.
ToolsCallAnswered(g) ==
  /\ pc[g] = "await"
  /\ sent[g] \in valid
  /\ \/ Return(g, "toolError") /\ UNCHANGED resVars
     \/ \E text \in Answers :
          LET r == ParseResults(text) IN
          /\ reply' = [reply EXCEPT ![g] = text]
          /\ returned' = [returned EXCEPT ![g] = r.urls]
          /\ Return(g, IF r.ok THEN "results" ELSE "toolError")
  /\ UNCHANGED <<sessionID, lockHolder, attempt, sent, serverVars, histVars>>

\* The server rejects the session (301-305, 327-330): clear it and go on.
ToolsCallAuthError(g) ==
  /\ pc[g] = "await"
  /\ sent[g] \notin valid
  /\ pc' = [pc EXCEPT ![g] = "clear"]
  /\ UNCHANGED <<resVars, sessionID, lockHolder, attempt, sent, outcome, serverVars,
                 histVars>>

\* The tools/call POST fails in transport or its body does not parse
\* (227-249, 294-297).
ToolsCallFails(g) ==
  /\ pc[g] = "await"
  /\ Return(g, "callError")
  /\ UNCHANGED <<resVars, sessionID, lockHolder, attempt, sent, serverVars, histVars>>

(***************************************************************************)
(* clearSession (352-356) under the lock, then `continue`: the next        *)
(* attempt, or "failed after retry: session error" once both are spent     *)
(* (348).                                                                  *)
(***************************************************************************)
\* Mutation of NextAttempt: the loop counter is never advanced.
NextAttemptMissing(a) == a

NextAttempt(a) == a + 1

\* Mutation of MoreAttempts: off-by-one loop bound, attempt <= 2.
MoreAttemptsOffByOne(a) == a <= MaxAttempts

MoreAttempts(a) == a < MaxAttempts

ClearAndRetry(g) ==
  /\ pc[g] = "clear"
  /\ lockHolder = None
  /\ sessionID' = NoSession
  /\ clears' = clears + 1
  /\ attempt' = [attempt EXCEPT ![g] = NextAttempt(@)]
  /\ IF MoreAttempts(NextAttempt(attempt[g]))
       THEN /\ pc' = [pc EXCEPT ![g] = "ensure"]
            /\ UNCHANGED outcome
       ELSE Return(g, "sessionError")
  /\ UNCHANGED <<resVars, lockHolder, sent, serverVars, invokes, handshakes, got>>

\* Server: a session expires (or is revoked) at any moment.
ExpireSession ==
  /\ expiries < MaxExpiries
  /\ \E t \in valid : valid' = valid \ {t}
  /\ expiries' = expiries + 1
  /\ UNCHANGED <<resVars, clientVars, issued, histVars>>

Next ==
  \/ \E g \in Searchers :
       \/ EnsureSession(g)
       \/ InitializeOk(g)
       \/ InitializeNoHeader(g)
       \/ InitializeFails(g)
       \/ SendToolsCall(g)
       \/ ToolsCallAnswered(g)
       \/ ToolsCallAuthError(g)
       \/ ToolsCallFails(g)
       \/ ClearAndRetry(g)
  \/ ExpireSession

(***************************************************************************)
(* Every goroutine keeps running: each HTTP call returns or times out (the *)
(* client has a timeout), so the steps of a goroutine are weakly fair.     *)
(* Taking sessionMutex is strongly fair: Go's sync.Mutex switches to       *)
(* starvation mode and hands the lock to a waiter that waited over 1 ms.   *)
(* The server's expiries get no fairness.                                  *)
(***************************************************************************)
Fairness ==
  \A g \in Searchers :
    /\ SF_vars(EnsureSession(g))
    /\ SF_vars(ClearAndRetry(g))
    /\ WF_vars(InitializeOk(g) \/ InitializeNoHeader(g) \/ InitializeFails(g))
    /\ WF_vars(SendToolsCall(g))
    /\ WF_vars(ToolsCallAnswered(g) \/ ToolsCallAuthError(g) \/ ToolsCallFails(g))

Spec == Init /\ [][Next]_vars /\ Fairness

-----------------------------------------------------------------------------
(***************************************************************************)
(* Properties                                                              *)
(***************************************************************************)
TypeOK ==
  /\ sessionID \in Tokens \cup {NoSession}
  /\ lockHolder \in Searchers \cup {None}
  /\ pc \in [Searchers -> {"ensure", "initialize", "send", "await", "clear", "done"}]
  /\ attempt \in [Searchers -> 0..MaxAttempts]
  /\ sent \in [Searchers -> Tokens \cup {NoSession}]
  /\ got \in [Searchers -> Tokens \cup {NoSession}]
  /\ outcome \in [Searchers -> Outcomes]
  /\ valid \subseteq issued /\ issued \subseteq Tokens
  /\ expiries \in 0..MaxExpiries
  /\ reply \in [Searchers -> Answers \cup {NoReply}]
  /\ returned \in [Searchers -> Seq({"l", "u", ""})]

(***************************************************************************)
(* Spec 4.7: the lock around check/allocate/clear keeps concurrent         *)
(* searches from racing into two handshakes.  Every "initialize" that      *)
(* establishes a session, but the first, is paid for by a clearSession:    *)
(* ensureSession reuses a cached session and decides to handshake only     *)
(* while it holds sessionMutex.                                            *)
(***************************************************************************)
HandshakesBounded == handshakes <= clears + 1

(***************************************************************************)
(* Spec 4.7: an auth failure is retried exactly once.  No Search sends     *)
(* more than two tools/call requests, and one that has used both attempts  *)
(* has returned.                                                           *)
(***************************************************************************)
RetryBounded ==
  \A g \in Searchers :
    /\ invokes[g] <= MaxAttempts
    /\ attempt[g] = MaxAttempts => pc[g] = "done"

(***************************************************************************)
(* Every Search returns: no goroutine waits forever on sessionMutex (the   *)
(* lock is released on every path of ensureSession and clearSession) and   *)
(* the retry loop ends, whatever the server expires.                       *)
(***************************************************************************)
AllSearchesReturn == \A g \in Searchers : <>(pc[g] = "done")

(***************************************************************************)
(* Spec 4.7, result decoding: the first content text holds the result      *)
(* array itself or a JSON string to be parsed a second time into it, and   *)
(* both forms must be handled.  A Search answered with a result array in   *)
(* either form returns results, one URL per element (an object's link, or  *)
(* else its url; nothing for a null element), and one answered with a text *)
(* that is neither JSON nor a JSON string, or with an array holding a      *)
(* value no result decodes from, returns a tool error.  A twice-encoded    *)
(* null, which the code turns into no results, is left aside.  It is about *)
(* parseResults' two parse paths and Search passing its result on.         *)
(***************************************************************************)
Carried(text) == IF text.kind = "string" THEN text.text ELSE text

ResultArray(v) ==
  v.kind = "array" /\ \A i \in DOMAIN v.items : Decodable(v.items[i])

Undecodable(v) ==
  \/ v.kind = "invalid"
  \/ v.kind = "array" /\ \E i \in DOMAIN v.items : ~Decodable(v.items[i])

ResultsFollowAnswer ==
  \A g \in Searchers : reply[g] # NoReply =>
    LET arr == Carried(reply[g]) IN
    /\ ResultArray(arr) =>
         /\ outcome[g] = "results"
         /\ Len(returned[g]) = Len(arr.items)
         /\ \A i \in DOMAIN arr.items :
              returned[g][i] = CASE arr.items[i].kind = "null" -> ""
                                 [] arr.items[i].link # ""     -> arr.items[i].link
                                 [] OTHER                      -> arr.items[i].url
    /\ Undecodable(arr) => outcome[g] = "toolError"

(***************************************************************************)
(* Spec 4.7 / 7: the retry re-handshakes, so Search reports "failed after  *)
(* retry: session error" only when the session its second tools/call       *)
(* carried had itself been expired by the server, or ensureSession had     *)
(* handed it no session because the server sent none (which spec 4.7       *)
(* allows to proceed).  It is about                                        *)
(* clearSession clearing whatever session is cached, and sendMCPRequest    *)
(* reading p.sessionID after ensureSession has released the lock.          *)
(***************************************************************************)
RetryFailsOnlyOnExpiredSession ==
  \A g \in Searchers :
    outcome[g] = "sessionError" =>
      \/ sent[g] \in issued \ valid
      \/ sent[g] = NoSession /\ got[g] = NoSession

=============================================================================
