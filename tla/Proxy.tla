------------------------------- MODULE Proxy --------------------------------
(***************************************************************************)
(* The MCP proxy (src/covenant/proxy.py) between an agent client and a     *)
(* target server: startup (command line, tool list, policy checks,         *)
(* consent, minting), the tools/call handler, and the end and restart of   *)
(* its process.                                                            *)
(*                                                                         *)
(* The event loop is single-threaded, so the handler runs in one step up   *)
(* to its only await, the forwarding of an allowed call; several calls may *)
(* wait there together. The target server, the client and the transport    *)
(* are external: they may delay, cancel, die and answer in any order.      *)
(* AuditLog.append appears as its outcome: the entry is in the file, or    *)
(* the append raised, and then it may be there all the same (module        *)
(* AuditLog has the details).                                              *)
(***************************************************************************)
EXTENDS Broker, Launch

CONSTANTS
    Requests,
    ToolCalls,          \* the tool and arguments a request may carry
    OfferedTools,       \* the tool lists the target server may send
    IssuerKey, IssuerKeyId,
    Nobody,             \* no grant, no provider
    DiskMayFail,        \* whether an append to the audit log may raise
    MaxTime, MaxSessions

ASSUME ProxyAssumption ==
    /\ IssuerKeyId \in DOMAIN TrustedKeys
    /\ TrustedKeys[IssuerKeyId] = IssuerKey
    /\ DiskMayFail \in BOOLEAN
    /\ MaxTime \in Nat /\ MaxSessions \in Nat
    /\ IsFiniteSet(Requests)
    /\ Nobody \notin GrantIds

VARIABLES
    phase,       \* where the process is: starting, consenting, serving, failed, down
    sessions,    \* how many times it was launched
    command,     \* the command line it is launched with
    launched,    \* what run() made of it, at the last start that got past it
    provider,    \* _consent_provider, until it has been used
    asked,       \* the ConsentRequest put to the human, as a scope
    grant,       \* _active_grant
    log,         \* the audit log as the file holds it
    status,      \* of each request, as its client sees it
    inbox,       \* calls forwarded and not yet carried out by the target
    targetUp,
    calls,       \* request -> the call it carries
    executed,    \* the requests the target has carried out
    approved     \* history: grant id -> what the human approved

launchVars == <<sessions, command, launched>>
proxyVars == <<phase, launchVars, provider, asked, grant, log, status, inbox,
               targetUp, calls, executed, approved>>
vars == <<brokerVars, proxyVars>>

TaskPolicy == launched.policy
Audience == launched.audience

InFlight == {"sent", "forwarded"}
Settled == {"refused", "error", "answered", "cancelled", "lost"}

Init ==
    /\ BrokerInit
    /\ now = 0
    /\ phase = "down"
    /\ sessions = 0
    /\ command \in Commands
    /\ launched = Nobody
    /\ provider = Nobody
    /\ asked = Nobody
    /\ grant = Nobody
    /\ log = << >>
    /\ status = [r \in Requests |-> "new"]
    /\ inbox = {}
    /\ targetUp = FALSE
    /\ calls = << >>
    /\ executed = {}
    /\ approved = << >>

(* AuditLog.append: the entry reaches the file, or the call raises, before *)
(* or after it did.                                                        *)
Logged(entry) == log' = Append(log, entry)
AppendRaises(entry) == DiskMayFail /\ (UNCHANGED log \/ Logged(entry))

-----------------------------------------------------------------------------
(* run(): the process is launched and reads its command line; the target   *)
(* is started with the words that are left.                                *)
Start ==
    /\ phase = "down"
    /\ sessions < MaxSessions
    /\ sessions' = sessions + 1
    /\ \/ /\ command \notin DOMAIN Parsed
          /\ phase' = "failed"
          /\ UNCHANGED <<launched, provider, targetUp>>
       \/ /\ command \in DOMAIN Parsed
          /\ phase' = "starting"
          /\ launched' = Parsed[command]
          /\ \E console \in ConsoleAvailable : provider' = ProviderFor(launched', console)
          /\ targetUp' = TRUE
    /\ UNCHANGED <<brokerVars, command, asked, grant, log, status, inbox, calls, executed,
                   approved>>

(* The first half of _establish_grant: list the target's tools, check the  *)
(* policy against them and against the proxy's audience, ask for consent.  *)
PolicyRefused(p, available) ==
    p # NoPolicy /\ (p.audience # Audience \/ UnknownTools(p, Range(available)) # {})

RequestIgnoringTtl(parsed, available) ==    \* wrong on purpose: --ttl is dropped
    [tools |-> available, ttl_seconds |-> DefaultTtl, quota |-> DefaultQuota,
     rules |-> << >>]

RequestForAll(parsed, available) ==
    [tools |-> available, ttl_seconds |-> parsed.ttl_seconds, quota |-> DefaultQuota,
     rules |-> << >>]

RequestFromPolicy(p) ==
    [tools |-> [i \in DOMAIN p.grants |-> p.grants[i].tool],
     ttl_seconds |-> p.ttl_seconds, quota |-> p.quota, rules |-> PolicyConstraints(p)]

ConsentRequest(parsed, available) ==
    IF parsed.policy = NoPolicy THEN RequestForAll(parsed, available)
                                ELSE RequestFromPolicy(parsed.policy)

RequestConsent(available) ==
    /\ phase = "starting"
    /\ IF ~targetUp \/ PolicyRefused(TaskPolicy, available)
       THEN /\ phase' = "failed"
            /\ provider' = Nobody
            /\ UNCHANGED asked
       ELSE /\ phase' = "consenting"
            /\ asked' = ConsentRequest(launched, available)
            /\ UNCHANGED provider
    /\ UNCHANGED <<brokerVars, launchVars, grant, log, status, inbox,
                   targetUp, calls, executed, approved>>

(* The second half, for each way the provider may decide: it may raise     *)
(* itself; a refusal leaves the proxy serving without a grant; an approval *)
(* mints one. The rules follow the tools that were granted.                *)
Consented ==
    /\ phase = "consenting"
    /\ asked' = Nobody
    /\ provider' = Nobody
    /\ UNCHANGED <<brokerVars, launchVars, status, inbox, targetUp, calls, executed>>

ConsentRaises(decision) ==
    /\ decision = Raised
    /\ phase' = "failed"
    /\ UNCHANGED <<grant, log, approved>>

Deny(decision) ==
    /\ decision # Raised /\ ~decision.approved
    /\ phase' = "serving"
    /\ grant' = Nobody
    /\ UNCHANGED <<log, approved>>

GrantedNothingButTools(tools) == << >>      \* wrong on purpose: drops the rules

GrantedConstraints(tools) ==
    [t \in DOMAIN asked.rules \cap tools |-> asked.rules[t]]

Minted(g, decision) ==
    SignCapability(
        [grant_id |-> g, audience |-> Audience, tools |-> decision.granted_tools,
         issued_at |-> now, expires_at |-> now + decision.ttl_seconds,
         quota |-> decision.quota, parent_grant_id |-> NoParent,
         argument_constraints |-> GrantedConstraints(decision.granted_tools)],
        IssuerKey, IssuerKeyId)

(* Everything that may be asked for, and every token that may come of it.  *)
Scopes ==
    {ConsentRequest(Parsed[c], available) : c \in DOMAIN Parsed, available \in OfferedTools}

Askable == UNION {Range(s.tools) : s \in Scopes}

Claims ==
    [grant_id : GrantIds, audience : {Parsed[c].audience : c \in DOMAIN Parsed},
     tools : SUBSET Askable, issued_at : Int, expires_at : Int, quota : Int,
     parent_grant_id : {NoParent},
     argument_constraints : {[t \in DOMAIN s.rules \cap tools |-> s.rules[t]] :
                                s \in Scopes, tools \in SUBSET Askable}]

Tokens ==
    [capability : Claims, signature : [key : {IssuerKey}, over : Claims],
     key_id : {IssuerKeyId}]

ASSUME NobodyAssumption == Nobody \notin Scopes /\ Nobody \notin Tokens

Approval(decision) ==
    [tools |-> decision.granted_tools, from |-> now, until |-> now + decision.ttl_seconds,
     quota |-> decision.quota, affirmed |-> decision.affirmed,
     rules |-> [t \in DOMAIN asked.rules \cap decision.granted_tools |-> asked.rules[t]]]

(* The grant's entry and the history of what was approved: an id that is   *)
(* in the log is never given to another grant.                             *)
Approved(g, decision) ==
    approved' = [h \in DOMAIN approved \cup {g} |->
                    IF h = g THEN Approval(decision) ELSE approved[h]]

(* Wrong on purpose: no trace of the grant in the log.                     *)
RecordNothing(g, decision) == UNCHANGED log /\ Approved(g, decision)

RecordGrant(g, decision) ==
    /\ Logged([event |-> "grant_issued", grant |-> g])
    /\ Approved(g, decision)

(* Wrong on purpose: takes the grant for active before it is recorded.     *)
MintFailsLate(g, decision) ==
    /\ DiskMayFail
    /\ RecordGrant(g, decision) \/ UNCHANGED <<log, approved>>
    /\ grant' = Minted(g, decision)
    /\ phase' = "failed"

MintFails(g, decision) ==
    /\ DiskMayFail
    /\ RecordGrant(g, decision) \/ UNCHANGED <<log, approved>>
    /\ phase' = "failed"
    /\ UNCHANGED grant

Grant(decision) ==
    /\ decision # Raised /\ decision.approved
    /\ \E g \in GrantIds \ DOMAIN approved :
          \/ /\ RecordGrant(g, decision)
             /\ grant' = Minted(g, decision)
             /\ phase' = "serving"
          \/ MintFails(g, decision)

EstablishGrant ==
    /\ Consented
    /\ \E decision \in Outcomes(provider, asked) :
          ConsentRaises(decision) \/ Deny(decision) \/ Grant(decision)

-----------------------------------------------------------------------------
Send(r, call) ==
    /\ phase = "serving"
    /\ status[r] = "new"
    /\ status' = [status EXCEPT ![r] = "sent"]
    /\ calls' = [q \in DOMAIN calls \cup {r} |-> IF q = r THEN call ELSE calls[q]]
    /\ UNCHANGED <<brokerVars, phase, launchVars, provider, asked, grant, log, inbox,
                   targetUp, executed, approved>>

Becomes(r, s) == status' = [status EXCEPT ![r] = s]

ToolCallEntry(r, g, decision, reason) ==
    [event |-> "tool_call", grant |-> g, request |-> r, decision |-> decision,
     reason |-> reason]

(* _on_call_tool without a grant.                                          *)
RefuseUngranted(r) ==
    /\ grant = Nobody
    /\ \/ Logged(ToolCallEntry(r, Nobody, "deny", "no capability")) /\ Becomes(r, "refused")
       \/ /\ AppendRaises(ToolCallEntry(r, Nobody, "deny", "no capability"))
          /\ Becomes(r, "error")
    /\ UNCHANGED <<brokerVars, inbox>>

(* _on_call_tool with a grant: authorize, log, then refuse or forward. An  *)
(* exception anywhere ends the handler and is answered as an error.        *)
Forward(r) ==
    IF targetUp THEN inbox' = inbox \cup {r} /\ Becomes(r, "forwarded")
                ELSE UNCHANGED inbox /\ Becomes(r, "error")

Decide(r) ==
    /\ grant # Nobody
    /\ \E verdict \in {Verdict(grant, calls[r].tool, Audience, calls[r].arguments)} :
          /\ Authorize(grant, calls[r].tool, Audience, calls[r].arguments, verdict)
          /\ \/ /\ verdict = "raise"
                /\ Becomes(r, "error")
                /\ UNCHANGED <<log, inbox>>
             \/ /\ verdict \notin {"raise", "allow"}
                /\ Logged(ToolCallEntry(r, grant.capability.grant_id, "deny", verdict))
                /\ Becomes(r, "refused")
                /\ UNCHANGED inbox
             \/ /\ verdict = "allow"
                /\ Logged(ToolCallEntry(r, grant.capability.grant_id, "allow", verdict))
                /\ Forward(r)
             \/ /\ verdict # "raise"
                /\ AppendRaises(ToolCallEntry(r, grant.capability.grant_id,
                                              IF verdict = "allow" THEN "allow" ELSE "deny",
                                              verdict))
                /\ Becomes(r, "error")
                /\ UNCHANGED inbox

OnCallTool(r) ==
    /\ phase = "serving"
    /\ status[r] = "sent"
    /\ RefuseUngranted(r) \/ Decide(r)
    /\ UNCHANGED <<phase, launchVars, provider, asked, grant, targetUp, calls, executed,
                   approved>>

-----------------------------------------------------------------------------
(* The target carries out a forwarded call, and its answer comes back; or  *)
(* it dies, and the calls still waiting get an error.                      *)
Execute(r) ==
    /\ r \in inbox
    /\ inbox' = inbox \ {r}
    /\ executed' = executed \cup {r}
    /\ UNCHANGED <<brokerVars, phase, launchVars, provider, asked, grant, log, status,
                   targetUp, calls, approved>>

(* Wrong on purpose: a caller is left waiting when the target dies.        *)
AnswerFromLivingTarget(r) ==
    /\ status[r] = "forwarded" /\ targetUp /\ r \in executed
    /\ Becomes(r, "answered")
    /\ UNCHANGED <<brokerVars, phase, launchVars, provider, asked, grant, log, inbox,
                   targetUp, calls, executed, approved>>

Answer(r) ==
    /\ status[r] = "forwarded"
    /\ \/ targetUp /\ r \in executed /\ Becomes(r, "answered")
       \/ ~targetUp /\ Becomes(r, "error")
    /\ UNCHANGED <<brokerVars, phase, launchVars, provider, asked, grant, log, inbox,
                   targetUp, calls, executed, approved>>

TargetDies ==
    /\ targetUp
    /\ targetUp' = FALSE
    /\ inbox' = {}
    /\ UNCHANGED <<brokerVars, phase, launchVars, provider, asked, grant, log, status,
                   calls, executed, approved>>

(* A client gives up on a request; the target is not told.                 *)
Cancel(r) ==
    /\ status[r] \in InFlight
    /\ Becomes(r, "cancelled")
    /\ UNCHANGED <<brokerVars, phase, launchVars, provider, asked, grant, log, inbox,
                   targetUp, calls, executed, approved>>

(* The process ends, by a crash, a kill or its client leaving: the grant   *)
(* and the in-memory quota counters are gone, calls already written to the *)
(* target's pipe are not.                                                  *)
Stop ==
    /\ phase # "down"
    /\ phase' = "down"
    /\ grant' = Nobody
    /\ asked' = Nobody
    /\ provider' = Nobody
    /\ quotaUsed' = [g \in GrantIds |-> 0]
    /\ status' = [r \in Requests |-> IF status[r] \in InFlight THEN "lost" ELSE status[r]]
    /\ UNCHANGED <<now, launchVars, log, inbox, targetUp, calls, executed, approved>>

Tick ==
    /\ now < MaxTime
    /\ now' = now + 1
    /\ UNCHANGED <<quotaUsed, proxyVars>>

Next ==
    \/ Start
    \/ \E available \in OfferedTools : RequestConsent(available)
    \/ EstablishGrant
    \/ \E r \in Requests, call \in ToolCalls : Send(r, call)
    \/ \E r \in Requests : OnCallTool(r) \/ Execute(r) \/ Answer(r) \/ Cancel(r)
    \/ TargetDies
    \/ Stop
    \/ Tick

Spec == Init /\ [][Next]_vars

-----------------------------------------------------------------------------
DecisionEntries == {i \in DOMAIN log : log[i].event = "tool_call"}
AllowEntries == {i \in DecisionEntries : log[i].decision = "allow"}

(* Every variable keeps the shape the properties rely on; the active grant *)
(* is a token issued for something approved.                               *)
TypeOK ==
    /\ now \in 0..MaxTime
    /\ phase \in {"starting", "consenting", "serving", "failed", "down"}
    /\ sessions \in 0..MaxSessions
    /\ provider \in {Nobody, "scripted", "requested", "terminal", "web"}
    /\ (asked # Nobody) = (phase = "consenting")
    /\ quotaUsed \in [GrantIds -> Nat]
    /\ status \in [Requests -> {"new"} \cup InFlight \cup Settled]
    /\ DOMAIN calls = {r \in Requests : status[r] # "new"}
    /\ inbox \subseteq Requests /\ executed \subseteq Requests
    /\ DOMAIN approved \subseteq GrantIds
    /\ grant # Nobody => /\ phase = "serving"
                         /\ grant.capability.grant_id \in DOMAIN approved
                         /\ VerifySignature(grant, IssuerKey)
    /\ \A i \in DOMAIN log :
          log[i].grant # Nobody => log[i].grant \in DOMAIN approved

(* How the state reads as one of module Mediation: the grant in force, and *)
(* the requests the log says were let through.                             *)
ActiveGrant == IF grant = Nobody THEN Nobody ELSE grant.capability.grant_id

AdmittedRequests == {log[i].request : i \in AllowEntries}

Admitted ==
    [r \in AdmittedRequests |-> log[CHOOSE i \in AllowEntries : log[i].request = r].grant]

RulesHold(tool, arguments, constraints) ==
    \A i \in DOMAIN RulesFor(tool, constraints) :
        RuleHolds(RulesFor(tool, constraints)[i], arguments)

(* The proxy keeps the promise of module Mediation, a request being        *)
(* admitted when the log says so: what the target executes was logged as   *)
(* allowed before (proxy.py:155-169), under a grant in force, within the   *)
(* tools, rules, window and quota a human approved (proxy.py:104-129),     *)
(* whatever fails, is cancelled or restarts in between.                    *)
Promise ==
    INSTANCE Mediation WITH
        active <- ActiveGrant, admitted <- Admitted, Meets <- RulesHold

PromiseKept == Promise!MediationSpec

(* A decision in the log belongs to the grant most recently issued in it,  *)
(* so the log alone tells which scope each call was judged by, across      *)
(* restarts and failed writes (issuer.py:52, proxy.py:155-162).            *)
LogExplainsItself ==
    \A i \in DecisionEntries :
        log[i].grant # Nobody =>
            \E j \in 1..(i - 1) :
                /\ log[j] = [event |-> "grant_issued", grant |-> log[i].grant]
                /\ \A k \in (j + 1)..(i - 1) : log[k].event # "grant_issued"

(* The counter of the active grant never lags behind the allowed calls in  *)
(* the log, and it is ahead only by calls answered with an error, because  *)
(* authorize() counts before its caller logs (broker.py:101, proxy.py:149- *)
(* 162).                                                                   *)
QuotaMatchesLog ==
    grant # Nobody =>
        LET g == grant.capability.grant_id
            logged == Cardinality({i \in AllowEntries : log[i].grant = g})
        IN  /\ logged <= quotaUsed[g]
            /\ quotaUsed[g] <= logged + Cardinality({r \in Requests : status[r] = "error"})

(* Every call a client sends is settled, when the target answers or dies   *)
(* (proxy.py:135-169 has no path that leaves a caller waiting).            *)
EveryCallSettles == \A r \in Requests : status[r] = "sent" ~> status[r] \in Settled

(* README.md:5: "Every grant, use, and denial is recorded" - a request the *)
(* proxy has dealt with left a decision in the log.                        *)
EveryCallAudited ==
    \A r \in Requests :
        status[r] \in {"forwarded", "answered", "refused", "error"} =>
            \E i \in DecisionEntries : log[i].request = r

(* A grant is minted only from what a human affirmed as to the tools that  *)
(* are not pre-approved: accepting every default, a lost terminal, a       *)
(* timeout or a script never lets such a call through (consent.py:61-62,   *)
(* 79-85, 166-175, 213); a policy run with --auto counts as a yes to the   *)
(* tools it names (proxy.py:247-252).                                      *)
NothingWithheldByDefault ==
    \A i \in AllowEntries :
        calls[log[i].request].tool \in Withheld =>
            calls[log[i].request].tool \in approved[log[i].grant].affirmed

(* The converse of the promise: a call is refused under a grant only when  *)
(* it lies outside what was approved, by tool, rule or time, or when the   *)
(* quota is used up (proxy.py:119-129, 149-166).                           *)
ApprovalHonoured ==
    [][\A r \in Requests :
          status[r] = "sent" /\ status'[r] = "refused" /\ grant # Nobody =>
              LET g == grant.capability.grant_id
              IN  ~Promise!Within(calls[r], approved[g]) \/ quotaUsed[g] >= approved[g].quota
      ]_vars

(* proxy.py:202-204: a policy "scopes exactly which tools, and which       *)
(* arguments to those tools" - no executed call breaks a rule the policy   *)
(* file states for its tool.                                               *)
EveryRuleEnforced ==
    \A r \in executed : TaskPolicy # NoPolicy =>
        \A i \in DOMAIN TaskPolicy.grants :
            TaskPolicy.grants[i].tool = calls[r].tool =>
                \A j \in DOMAIN TaskPolicy.grants[i].arguments :
                    RuleHolds(TaskPolicy.grants[i].arguments[j], calls[r].arguments)
=============================================================================
