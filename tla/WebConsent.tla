----------------------------- MODULE WebConsent -----------------------------
(***************************************************************************)
(* WebConsentProvider.request_consent (src/covenant/consent.py): a page    *)
(* served on a loopback port until somebody answers or a timeout passes.   *)
(*                                                                         *)
(* Four kinds of thread interleave: the caller, which waits for `done`     *)
(* with a timeout; the server thread in serve_forever, which handles one   *)
(* connection at a time; the helper threads a handler starts to stop the   *)
(* server; and the browser's connections, which are external. The server   *)
(* (socketserver's, external too) serves connections in the order they     *)
(* arrive and reads a connection without a timeout: one that stays silent  *)
(* keeps it waiting.                                                       *)
(***************************************************************************)
EXTENDS Consent

CONSTANTS
    Connections,
    Asked,          \* the ConsentRequest the page is about
    Forms,          \* the form submissions a browser may send
    Page,           \* any request that is not a submission: the page, a stray path
    Nothing         \* no decision, no connection

ASSUME WebConsentAssumption ==
    /\ Forms \subseteq Submittable(Asked)
    /\ Nothing \notin Connections \cup WebOutcomes(Asked)

RequestKinds == Forms \cup {Page}

VARIABLES
    caller,      \* request_consent: waiting, shuttingDown, joining, returned
    answered,    \* what done.wait() returned
    result,      \* the ConsentDecision returned
    done,        \* the threading.Event
    holder,      \* decision_holder["decision"]
    loop,        \* the server thread: polling, reading, confirming, signalling, ended
    serving,     \* the connection being handled
    stopping,    \* __shutdown_request
    helpers,     \* threads that are about to call shutdown()
    backlog,     \* connections not yet accepted, in order of arrival
    request,     \* what each connection has sent
    link,        \* each connection at the browser's end: unused, open, closed
    submitted,   \* history: the decisions put into the holder, in order
    woken        \* history: how many there were when the event was set, 0 before

callerVars == <<caller, answered, result>>
decisionVars == <<done, holder, submitted, woken>>
serverVars == <<loop, serving, stopping, helpers>>
browserVars == <<backlog, request, link>>
vars == <<callerVars, decisionVars, serverVars, browserVars>>

Init ==
    /\ caller = "waiting" /\ answered = FALSE /\ result = Nothing
    /\ done = FALSE /\ holder = Nothing
    /\ loop = "polling" /\ serving = Nothing /\ stopping = FALSE /\ helpers = 0
    /\ backlog = << >>
    /\ request = [c \in Connections |-> Nothing]
    /\ link = [c \in Connections |-> "unused"]
    /\ submitted = << >> /\ woken = 0

-----------------------------------------------------------------------------
(* The browser: it may open a connection and send nothing on it for long,  *)
(* or ever, and it may close one at any time. The listening socket is      *)
(* never closed, so connecting works even after the server has ended.      *)
Connect(c) ==
    /\ link[c] = "unused"
    /\ link' = [link EXCEPT ![c] = "open"]
    /\ backlog' = Append(backlog, c)
    /\ UNCHANGED <<callerVars, decisionVars, serverVars, request>>

Send(c, kind) ==
    /\ link[c] = "open" /\ request[c] = Nothing
    /\ request' = [request EXCEPT ![c] = kind]
    /\ UNCHANGED <<callerVars, decisionVars, serverVars, backlog, link>>

Close(c) ==
    /\ link[c] = "open"
    /\ link' = [link EXCEPT ![c] = "closed"]
    /\ UNCHANGED <<callerVars, decisionVars, serverVars, backlog, request>>

-----------------------------------------------------------------------------
(* serve_forever: between two connections it looks at the shutdown flag.   *)
Accept ==
    /\ loop = "polling" /\ ~stopping
    /\ backlog # << >>
    /\ loop' = "reading"
    /\ serving' = Head(backlog)
    /\ backlog' = Tail(backlog)
    /\ UNCHANGED <<callerVars, decisionVars, stopping, helpers, request, link>>

LoopEnds ==
    /\ loop = "polling" /\ stopping
    /\ loop' = "ended"
    /\ stopping' = FALSE
    /\ UNCHANGED <<callerVars, decisionVars, serving, helpers, browserVars>>

Back ==
    /\ loop' = "polling"
    /\ serving' = Nothing

(* The handler reads the request: it waits until there is one, or until    *)
(* the browser closes. do_GET and stray paths change nothing.              *)
ReadNothing ==
    /\ loop = "reading"
    /\ request[serving] = Nothing /\ link[serving] = "closed"
    /\ Back
    /\ UNCHANGED <<callerVars, decisionVars, stopping, helpers, browserVars>>

DoGet ==
    /\ loop = "reading"
    /\ request[serving] = Page
    /\ Back
    /\ UNCHANGED <<callerVars, decisionVars, stopping, helpers, browserVars>>

(* do_POST puts the decision in the holder, writes the confirmation page,  *)
(* sets the event and starts a thread that stops the server.               *)
DoPostForgetsDenial ==              \* wrong on purpose: no decision on "deny"
    /\ loop = "reading"
    /\ request[serving] \in Forms
    /\ holder' = IF request[serving].action = "deny" THEN holder
                 ELSE PostDecision(Asked, request[serving])
    /\ submitted' = Append(submitted, PostDecision(Asked, request[serving]))
    /\ loop' = "confirming"
    /\ UNCHANGED <<callerVars, done, woken, serving, stopping, helpers, browserVars>>

DoPostKeepsFirst ==                 \* wrong on purpose: the first decision stays
    /\ loop = "reading"
    /\ request[serving] \in Forms
    /\ holder' = IF holder = Nothing THEN PostDecision(Asked, request[serving]) ELSE holder
    /\ submitted' = Append(submitted, PostDecision(Asked, request[serving]))
    /\ loop' = "confirming"
    /\ UNCHANGED <<callerVars, done, woken, serving, stopping, helpers, browserVars>>

DoPost ==
    /\ loop = "reading"
    /\ request[serving] \in Forms
    /\ holder' = PostDecision(Asked, request[serving])
    /\ submitted' = Append(submitted, holder')
    /\ loop' = "confirming"
    /\ UNCHANGED <<callerVars, done, woken, serving, stopping, helpers, browserVars>>

Confirm ==
    /\ loop = "confirming"
    /\ loop' = "signalling"
    /\ UNCHANGED <<callerVars, decisionVars, serving, stopping, helpers, browserVars>>

(* Writing to a browser that has gone may raise, which skips the rest.     *)
ConfirmFails ==
    /\ loop = "confirming"
    /\ link[serving] = "closed"
    /\ Back
    /\ UNCHANGED <<callerVars, decisionVars, stopping, helpers, browserVars>>

SignalInHandler ==                  \* wrong on purpose: the handler stops the server itself
    /\ loop = "signalling"
    /\ done' = TRUE
    /\ woken' = IF done THEN woken ELSE Len(submitted)
    /\ stopping' = TRUE
    /\ UNCHANGED <<callerVars, holder, submitted, loop, serving, helpers, browserVars>>

Signal ==
    /\ loop = "signalling"
    /\ done' = TRUE
    /\ woken' = IF done THEN woken ELSE Len(submitted)
    /\ helpers' = helpers + 1
    /\ Back
    /\ UNCHANGED <<callerVars, holder, submitted, stopping, browserVars>>

HelperStops ==
    /\ helpers > 0
    /\ helpers' = helpers - 1
    /\ stopping' = TRUE
    /\ UNCHANGED <<callerVars, decisionVars, loop, serving, browserVars>>

-----------------------------------------------------------------------------
(* The caller: done.wait() is over when the event is set or time is up;    *)
(* after a timeout server.shutdown() waits for the loop to end, without a  *)
(* timeout; then the thread is joined, for five seconds at most.           *)
Woken ==
    /\ caller = "waiting" /\ done
    /\ caller' = "joining"
    /\ answered' = TRUE
    /\ UNCHANGED <<result, decisionVars, serverVars, browserVars>>

TimesOutSilently ==                 \* wrong on purpose: the server is not stopped
    /\ caller = "waiting" /\ ~done
    /\ caller' = "shuttingDown"
    /\ UNCHANGED <<answered, result, decisionVars, serverVars, browserVars>>

TimesOut ==
    /\ caller = "waiting" /\ ~done
    /\ caller' = "shuttingDown"
    /\ stopping' = TRUE
    /\ UNCHANGED <<answered, result, decisionVars, loop, serving, helpers, browserVars>>

ShutDown ==
    /\ caller = "shuttingDown"
    /\ loop = "ended"
    /\ caller' = "joining"
    /\ UNCHANGED <<answered, result, decisionVars, serverVars, browserVars>>

ReturnLate ==                       \* wrong on purpose: takes an answer after time
    /\ caller = "joining"
    /\ caller' = "returned"
    /\ result' = IF holder # Nothing THEN holder ELSE Denied(Asked)
    /\ UNCHANGED <<answered, decisionVars, serverVars, browserVars>>

Return ==
    /\ caller = "joining"
    /\ caller' = "returned"
    /\ result' = IF answered THEN holder ELSE Denied(Asked)
    /\ UNCHANGED <<answered, decisionVars, serverVars, browserVars>>

Server == Accept \/ LoopEnds \/ ReadNothing \/ DoGet \/ DoPost \/ Confirm \/ ConfirmFails
          \/ Signal
Caller == Woken \/ TimesOut \/ ShutDown \/ Return
Browser == \E c \in Connections :
              Connect(c) \/ Close(c) \/ \E kind \in RequestKinds : Send(c, kind)

Next == Server \/ HelperStops \/ Caller \/ Browser

Spec == Init /\ [][Next]_vars

(* Threads that can run do run, and time passes.                           *)
ThreadFairness == WF_vars(Server) /\ WF_vars(HelperStops) /\ WF_vars(Caller)

(* A browser does not keep a connection open and silent for ever.          *)
BrowserFairness ==
    \A c \in Connections : WF_vars(Close(c) \/ \E kind \in RequestKinds : Send(c, kind))

FairSpec == Spec /\ ThreadFairness
PoliteSpec == FairSpec /\ BrowserFairness

-----------------------------------------------------------------------------
(* The threads keep to their protocol, and what the page decides is one of *)
(* the outcomes module Consent gives it (and so what Proxy assumes of it). *)
TypeOK ==
    /\ caller \in {"waiting", "shuttingDown", "joining", "returned"}
    /\ loop \in {"polling", "reading", "confirming", "signalling", "ended"}
    /\ (serving = Nothing) = (loop \in {"polling", "ended"})
    /\ {holder, result} \subseteq WebOutcomes(Asked) \cup {Nothing}
    /\ helpers \in Nat
    /\ (result = Nothing) = (caller # "returned")
    /\ done => holder # Nothing

(* An approval is returned only when a human submitted it, and never after *)
(* the time was up (consent.py:326-327, "never auto-approves on timeout"). *)
ApprovalIsHuman ==
    result # Nothing /\ result.approved => answered /\ Contains(submitted, result)

(* What comes back in time is the answer that woke the caller, or one that *)
(* was submitted after it, in the moment the server takes to stop: never   *)
(* one from before, whose browser went away while its confirmation was     *)
(* written (consent.py:303-311, 365-373), and never a denial nobody gave.  *)
AnswerStands ==
    result # Nothing /\ answered =>
        \E i \in woken..Len(submitted) : result = submitted[i]

(* The caller comes back with a decision, provided no connection stays     *)
(* open and silent (consent.py:326-328).                                   *)
Concludes == <>(caller = "returned")

(* Once somebody has answered, or the time is up, the server stops, whether*)
(* it was idle or had more connections to serve; a handler that waited for *)
(* its own server to stop never would (consent.py:306-311, 366-369).       *)
ServerStops == done \/ caller = "shuttingDown" ~> loop = "ended"

(* consent.py:326-327: "Blocks until a decision is submitted or            *)
(* `timeout_seconds` elapses" - the caller comes back, whatever connections*)
(* a browser holds open.                                                   *)
BoundedByTimeout == <>(caller = "returned")
=============================================================================
