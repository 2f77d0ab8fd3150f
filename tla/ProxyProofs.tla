---------------------------- MODULE ProxyProofs -----------------------------
(***************************************************************************)
(* What Proxy guarantees for any number of requests, grants, restarts and  *)
(* tools, whatever is asked for, answered, lost or refused by the disk.    *)
(***************************************************************************)
EXTENDS Proxy, BrokerProofs, FiniteSetTheorems, SequenceTheorems

-----------------------------------------------------------------------------
(* Every scope that is asked for has numbers for its ttl and its quota:    *)
(* int() read them, or _parse_policy_dict did (proxy.py:216-224, policy.py *)
(* 138-162).                                                               *)
LEMMA ParsedTyped ==
    ASSUME NEW c \in DOMAIN Parsed
    PROVE  /\ Parsed[c].ttl_seconds \in Int
           /\ Parsed[c].policy # NoPolicy => /\ Parsed[c].policy.ttl_seconds \in Int
                                             /\ Parsed[c].policy.quota \in Int
<1> DEFINE words == Words(c)
           path == ValueOf(AfterTimeout(words), PolicyOption)
<1>1. Parsed[c] = ParsedCommand(words) /\ ~Refused(words)
  BY DEF Parsed
<1> HIDE DEF words
<1>2. ParsedCommand(words).ttl_seconds \in Int
  <2>1. CASE Contains(AfterAuto(words), TtlOption)
    <3>1. ValueOf(AfterAuto(words), TtlOption) \in DOMAIN Number
      BY <1>1, <2>1 DEF Refused, BadNumber
    <3> QED BY <2>1, <3>1, LaunchAssumption DEF ParsedCommand
  <2>2. CASE ~Contains(AfterAuto(words), TtlOption)
    BY <2>2, LaunchAssumption DEF ParsedCommand
  <2> QED BY <2>1, <2>2
<1>3. ASSUME ParsedCommand(words).policy # NoPolicy
      PROVE  /\ ParsedCommand(words).policy.ttl_seconds \in Int
             /\ ParsedCommand(words).policy.quota \in Int
  <2>1. Contains(AfterTimeout(words), PolicyOption)
    BY <1>3 DEF ParsedCommand
  <2>2. Loads(path)
    BY <1>1, <2>1 DEF Refused
  <2>3. WellFormed(PolicyFile[path])
    BY <2>2 DEF Loads
  <2>4. PolicyFile[path]["ttl_seconds"] \in DOMAIN Number
        /\ PolicyFile[path]["quota"] \in DOMAIN Number
    BY <2>3 DEF WellFormed
  <2>5. ParsedCommand(words).policy = ParsePolicy(PolicyFile[path])
    BY <2>1 DEF ParsedCommand, LoadTaskPolicy
  <2> QED BY <2>4, <2>5, LaunchAssumption DEF ParsePolicy
<1> QED BY <1>1, <1>2, <1>3

(* Likewise for the scope put to the human, whose tools may all be asked   *)
(* for.                                                                    *)
LEMMA ScopesTyped ==
    ASSUME NEW s \in Scopes
    PROVE  /\ s.ttl_seconds \in Int /\ s.quota \in Int
           /\ Range(s.tools) \subseteq Askable
<1>1. PICK c \in DOMAIN Parsed, available \in OfferedTools :
          s = ConsentRequest(Parsed[c], available)
  BY DEF Scopes
<1>2. Range(s.tools) \subseteq Askable
  BY DEF Askable
<1> QED BY <1>1, <1>2, ParsedTyped, LaunchAssumption
        DEF ConsentRequest, RequestForAll, RequestFromPolicy

-----------------------------------------------------------------------------
(* Whatever the surface and the human: an approval is for tools that were  *)
(* asked for, with a ttl and a quota that are numbers, and every tool that *)
(* is not pre-approved was affirmed by name (consent.py:61-62, 79-85, 166- *)
(* 189, 213, 268-299).                                                     *)
Faithful(decision, req) ==
    /\ decision = [approved |-> decision.approved, granted_tools |-> decision.granted_tools,
                   ttl_seconds |-> decision.ttl_seconds, quota |-> decision.quota,
                   affirmed |-> decision.affirmed]
    /\ decision.granted_tools \subseteq Range(req.tools)
    /\ decision.ttl_seconds \in Int /\ decision.quota \in Int
    /\ \A t \in decision.granted_tools \cap Withheld : t \in decision.affirmed

Providers == {"scripted", "requested", "terminal", "web"}

(* A decision for requested tools is faithful when it affirms the withheld *)
(* ones among them.                                                        *)
LEMMA DecisionFaithful ==
    ASSUME NEW req, NEW tools \in SUBSET Range(req.tools), NEW ttl \in Int, NEW quota \in Int,
           NEW affirmed, tools \cap Withheld \subseteq affirmed
    PROVE  Faithful(Decision(tools, ttl, quota, affirmed), req)
  BY DEF Decision, Faithful

(* Every decision of every surface is faithful.                            *)
LEMMA OutcomesFaithful ==
    ASSUME NEW req, req.ttl_seconds \in Int, req.quota \in Int, NEW p \in Providers,
           NEW decision \in Outcomes(p, req), decision # Raised
    PROVE  Faithful(decision, req)
<1>1. Faithful(Denied(req), req)
  BY DecisionFaithful DEF Denied
<1>2. CASE p = "scripted"
  <2>1. decision = DefaultDemoDecision(req)
    BY <1>2 DEF Outcomes
  <2> QED BY <2>1, DecisionFaithful DEF DefaultDemoDecision, Preapproved
<1>3. CASE p = "requested"
  <2>1. decision = AsRequested(req)
    BY <1>3 DEF Outcomes
  <2>2. decision = [approved |-> TRUE, granted_tools |-> Range(req.tools),
                    ttl_seconds |-> req.ttl_seconds, quota |-> req.quota,
                    affirmed |-> Range(req.tools) \cap Withheld]
    BY <2>1 DEF AsRequested, Decision
  <2> QED BY <2>2 DEF Faithful
<1>4. CASE p = "terminal"
  <2>1. PICK answers \in [DOMAIN req.tools -> Answers], ttl \in TtlAnswers,
             quota \in QuotaAnswers : decision = TerminalDecision(req, answers, ttl, quota)
    BY <1>4 DEF Outcomes, TerminalOutcomes, NoConsole
  <2> DEFINE granted == {req.tools[i] : i \in {j \in DOMAIN answers :
                                                  Agreed(req.tools[j], answers[j])}}
             yes == {req.tools[i] : i \in {j \in DOMAIN answers : answers[j] = "yes"}}
  <2>2. granted \subseteq Range(req.tools)
    BY DEF Range
  <2>3. granted \cap Withheld \subseteq yes
    BY DEF Agreed, Preapproved
  <2>4. decision = IF granted = {} THEN Denied(req)
                   ELSE IF Unreadable \in {ttl, quota} THEN Raised
                   ELSE Decision(granted, Typed(ttl, req.ttl_seconds),
                                 Typed(quota, req.quota), yes)
    BY <2>1 DEF TerminalDecision
  <2>5. Unreadable \notin {ttl, quota} =>
            Typed(ttl, req.ttl_seconds) \in Int /\ Typed(quota, req.quota) \in Int
    BY AnswersAssumption DEF Typed
  <2> HIDE DEF granted, yes
  <2> QED BY <1>1, <2>2, <2>3, <2>4, <2>5, DecisionFaithful
<1>5. CASE p = "web"
  <2>1. CASE decision = Denied(req)
    BY <1>1, <2>1
  <2>2. CASE decision # Denied(req)
    <3>1. PICK form \in Submittable(req) : decision = PostDecision(req, form)
      BY <1>5, <2>2 DEF Outcomes, WebOutcomes
    <3>2. decision = Decision(form.tools, FieldOr(form.ttl, req.ttl_seconds),
                              FieldOr(form.quota, req.quota), form.tools \ Ticked(req))
      BY <2>2, <3>1 DEF PostDecision
    <3>3. form.tools \subseteq Range(req.tools) /\ form.ttl \in TtlAnswers
          /\ form.quota \in QuotaAnswers
      BY DEF Submittable
    <3>4. FieldOr(form.ttl, req.ttl_seconds) \in Int /\ FieldOr(form.quota, req.quota) \in Int
      BY <3>3, AnswersAssumption DEF FieldOr
    <3>5. form.tools \cap Withheld \subseteq form.tools \ Ticked(req)
      BY DEF Ticked, Preapproved
    <3> QED BY <3>2, <3>3, <3>4, <3>5, DecisionFaithful
  <2> QED BY <2>1, <2>2
<1> QED BY <1>2, <1>3, <1>4, <1>5 DEF Providers

-----------------------------------------------------------------------------
(* The invariant. The process has read its command line when it is at      *)
(* work, and has somebody to ask when it asks (proxy.py:82-112, 247-271).  *)
Started ==
    /\ phase \in {"starting", "consenting", "serving"} =>
          \E c \in DOMAIN Parsed : launched = Parsed[c]
    /\ phase \in {"starting", "consenting"} => provider \in Providers
    /\ phase = "consenting" => asked \in Scopes

(* What TypeOK says, but for the bound on time.                            *)
Shaped ==
    /\ now \in Nat
    /\ phase \in {"starting", "consenting", "serving", "failed", "down"}
    /\ sessions \in 0..MaxSessions
    /\ provider \in {Nobody} \cup Providers
    /\ (asked # Nobody) = (phase = "consenting")
    /\ quotaUsed \in [GrantIds -> Nat]
    /\ status \in [Requests -> {"new"} \cup InFlight \cup Settled]
    /\ DOMAIN calls = {r \in Requests : status[r] # "new"}
    /\ inbox \subseteq Requests /\ executed \subseteq Requests
    /\ DOMAIN approved \subseteq GrantIds
    /\ grant # Nobody => phase = "serving"

IssueEntry(g) == [event |-> "grant_issued", grant |-> g]

Entries ==
    {IssueEntry(g) : g \in GrantIds}
    \cup [event : {"tool_call"}, grant : GrantIds \cup {Nobody}, request : Requests,
          decision : {"allow", "deny"}, reason : Reasons]

(* The log: every request is decided once, after it was sent, and what is  *)
(* let through under a grant is a call that was approved for it.           *)
Covers(g, call) ==
    /\ call.tool \in approved[g].tools
    /\ RulesHold(call.tool, call.arguments, approved[g].rules)

LogTyped ==
    /\ log \in Seq(Entries)
    /\ \A i \in DOMAIN log : log[i].grant # Nobody => log[i].grant \in DOMAIN approved

LogJudged ==
    /\ \A i \in DecisionEntries : status[log[i].request] \notin {"new", "sent"}
    /\ \A i, k \in DecisionEntries : log[i].request = log[k].request => i = k
    /\ \A i \in AllowEntries : /\ log[i].grant \in DOMAIN approved
                               /\ Covers(log[i].grant, calls[log[i].request])

OnlyAdmitted == inbox \cup executed \subseteq AdmittedRequests

(* What was approved has numbers for its bounds, and withheld tools only   *)
(* by name.                                                                *)
ApprovedTyped ==
    \A g \in DOMAIN approved :
        /\ approved[g].from \in Int /\ approved[g].until \in Int /\ approved[g].quota \in Int
        /\ approved[g].tools \cap Withheld \subseteq approved[g].affirmed

(* The active grant says what was approved, no more and no less, and it is *)
(* the one the log names last (proxy.py:119-129, issuer.py:40-62).         *)
TokenFor(g) ==
    SignCapability(
        [grant_id |-> g, audience |-> Audience, tools |-> approved[g].tools,
         issued_at |-> approved[g].from, expires_at |-> approved[g].until,
         quota |-> approved[g].quota, parent_grant_id |-> NoParent,
         argument_constraints |-> approved[g].rules],
        IssuerKey, IssuerKeyId)

LastIssued(g) ==
    \E j \in DOMAIN log :
        /\ log[j] = IssueEntry(g)
        /\ \A k \in DOMAIN log : k > j => log[k].event # "grant_issued"

GrantIsApproved ==
    grant # Nobody => \E g \in DOMAIN approved : grant = TokenFor(g) /\ LastIssued(g)

(* The counters: nothing is used of a grant that was never issued, and the *)
(* active grant's counter agrees with the log.                             *)
Counted ==
    /\ \A g \in GrantIds \ DOMAIN approved : quotaUsed[g] = 0
    /\ QuotaMatchesLog

Inv ==
    /\ Shaped /\ Started /\ LogTyped /\ LogJudged /\ OnlyAdmitted
    /\ ApprovedTyped /\ GrantIsApproved /\ Counted /\ LogExplainsItself

-----------------------------------------------------------------------------
(* Counting what the log let through under a grant, and the errors.        *)
Allowed(g) == {i \in AllowEntries : log[i].grant = g}

Errors == {r \in Requests : status[r] = "error"}

(* The quota property in these terms.                                      *)
LEMMA QuotaAgrees ==
    QuotaMatchesLog <=>
        (grant # Nobody =>
            LET g == grant.capability.grant_id
            IN  /\ Cardinality(Allowed(g)) <= quotaUsed[g]
                /\ quotaUsed[g] <= Cardinality(Allowed(g)) + Cardinality(Errors))
  BY DEF QuotaMatchesLog, Allowed, Errors

(* There are finitely many of both, so they can be counted.                *)
LEMMA Finite ==
    ASSUME log \in Seq(Entries)
    PROVE  /\ \A g : IsFiniteSet(Allowed(g)) /\ Cardinality(Allowed(g)) \in Nat
           /\ IsFiniteSet(Errors) /\ Cardinality(Errors) \in Nat
<1>1. IsFiniteSet(DOMAIN log)
  BY FS_Interval, LenProperties
<1>2. \A g : Allowed(g) \in SUBSET DOMAIN log
  BY DEF Allowed, AllowEntries, DecisionEntries
<1>3. Errors \in SUBSET Requests /\ IsFiniteSet(Requests)
  BY ProxyAssumption DEF Errors
<1> QED BY <1>1, <1>2, <1>3, FS_Subset, FS_CardinalityType

-----------------------------------------------------------------------------
(* A step that neither decides a call nor issues a grant: requests move on *)
(* only from where they are, and nobody's call or approval changes.        *)
Onward ==
    \A r \in Requests :
        /\ status[r] \notin {"new", "sent"} => status'[r] \notin {"new", "sent"}
        /\ status[r] # "new" => calls'[r] = calls[r]
        /\ status[r] = "error" => status'[r] = "error"

(* What a decision in the log is about, and where it stands.               *)
LEMMA EntryFields ==
    ASSUME log \in Seq(Entries), NEW i \in DecisionEntries
    PROVE  /\ log[i].request \in Requests /\ log[i].grant \in GrantIds \cup {Nobody}
           /\ i \in 1..Len(log) /\ Len(log) \in Nat
<1>1. i \in 1..Len(log) /\ Len(log) \in Nat /\ log[i] \in Entries
  BY DEF DecisionEntries
<1>2. log[i].event = "tool_call"
  BY DEF DecisionEntries
<1> QED BY <1>1, <1>2 DEF Entries, IssueEntry

(* Such a step leaves alone what the log says.                             *)
LEMMA LogKept ==
    ASSUME Inv, UNCHANGED <<log, approved>>, Onward
    PROVE  LogTyped' /\ LogJudged' /\ ApprovedTyped' /\ LogExplainsItself'
<1> USE DEF Inv
<1>1. DecisionEntries' = DecisionEntries /\ AllowEntries' = AllowEntries
  BY DEF DecisionEntries, AllowEntries
<1>2. LogTyped' /\ ApprovedTyped'
  BY DEF LogTyped, ApprovedTyped
<1>3. LogExplainsItself'
  BY <1>1 DEF LogExplainsItself
<1>4. \A i \in DecisionEntries : log[i].request \in Requests
  BY EntryFields DEF LogTyped
<1>5. \A i \in AllowEntries : calls'[log[i].request] = calls[log[i].request]
  BY <1>4 DEF AllowEntries, LogJudged, Onward
<1>6. LogJudged'
  BY <1>1, <1>4, <1>5 DEF LogJudged, Onward, Covers
<1> QED BY <1>2, <1>3, <1>6

(* It keeps the grant approved, or drops it.                               *)
LEMMA GrantKept ==
    ASSUME Inv, UNCHANGED <<log, approved>>,
           grant' = Nobody \/ (grant' = grant /\ launched' = launched)
    PROVE  GrantIsApproved'
<1>1. ASSUME grant' # Nobody PROVE GrantIsApproved'
  <2>1. grant' = grant /\ launched' = launched
    BY <1>1
  <2>2. \A g : TokenFor(g)' = TokenFor(g) /\ LastIssued(g)' = LastIssued(g)
    BY <2>1 DEF TokenFor, LastIssued, Audience
  <2> QED BY <1>1, <2>1, <2>2 DEF GrantIsApproved, Inv
<1> QED BY <1>1 DEF GrantIsApproved

(* It keeps the counters, or forgets them with the grant: errors only grow *)
(* in number.                                                              *)
LEMMA CountKept ==
    ASSUME Inv, UNCHANGED <<log, approved>>, Onward,
           grant' = Nobody \/ grant' = grant,
           quotaUsed' = quotaUsed \/ (grant' = Nobody /\ quotaUsed' = [g \in GrantIds |-> 0])
    PROVE  Counted'
<1>1. \A g \in GrantIds \ DOMAIN approved' : quotaUsed'[g] = 0
  BY DEF Inv, Counted
<1>2. ASSUME grant' # Nobody PROVE QuotaMatchesLog'
  <2>0. PICK g : g = grant.capability.grant_id
    OBVIOUS
  <2>1. grant' = grant /\ quotaUsed' = quotaUsed /\ Allowed(g)' = Allowed(g)
    BY <1>2 DEF Allowed, AllowEntries, DecisionEntries
  <2>2. Errors \subseteq Errors'
    BY DEF Errors, Onward
  <2>3. log \in Seq(Entries) /\ log' \in Seq(Entries)
    BY DEF Inv, LogTyped
  <2>4. IsFiniteSet(Errors) /\ IsFiniteSet(Errors')
    BY <2>3, ProxyAssumption, FS_Subset DEF Errors
  <2>5. /\ Cardinality(Errors) <= Cardinality(Errors')
        /\ Cardinality(Errors) \in Nat /\ Cardinality(Errors') \in Nat
    BY <2>2, <2>4, FS_Subset, FS_CardinalityType
  <2>6. Cardinality(Allowed(g)) \in Nat
    BY <2>3, Finite
  <2>7. /\ Cardinality(Allowed(g)) <= quotaUsed[g]
        /\ quotaUsed[g] <= Cardinality(Allowed(g)) + Cardinality(Errors)
    BY <1>2, <2>0, <2>1, QuotaAgrees DEF Inv, Counted
  <2>8. quotaUsed[g] \in Nat
    BY <1>2, <2>0, <2>1 DEF Inv, Shaped, GrantIsApproved, TokenFor, SignCapability
  <2>9. /\ Cardinality(Allowed(g)) <= quotaUsed[g]
        /\ quotaUsed[g] <= Cardinality(Allowed(g)) + Cardinality(Errors')
    BY <2>5, <2>6, <2>7, <2>8
  <2>10. grant'.capability.grant_id = g
    BY <2>0, <2>1
  <2> QED BY <2>1, <2>9, <2>10 DEF QuotaMatchesLog, Allowed, Errors
<1>3. ASSUME grant' = Nobody PROVE QuotaMatchesLog'
  BY <1>3 DEF QuotaMatchesLog
<1> QED BY <1>1, <1>2, <1>3 DEF Counted

-----------------------------------------------------------------------------
(* Every step keeps the invariant: first the ones the log does not notice. *)
LEMMA Quiet ==
    ASSUME Inv, UNCHANGED <<quotaUsed, calls, grant, log, approved>>,
           grant = Nobody \/ launched' = launched,
           Onward, Shaped', Started', inbox' \cup executed' \subseteq AdmittedRequests
    PROVE  Inv'
<1>1. AdmittedRequests' = AdmittedRequests
  BY DEF AdmittedRequests, AllowEntries, DecisionEntries
<1>2. OnlyAdmitted'
  BY <1>1 DEF OnlyAdmitted
<1>3. GrantIsApproved'
  BY GrantKept
<1>4. Counted'
  BY CountKept
<1>5. LogTyped' /\ LogJudged' /\ ApprovedTyped' /\ LogExplainsItself'
  BY LogKept
<1> QED BY <1>2, <1>3, <1>4, <1>5 DEF Inv

(* A launch: there is no grant yet.                                        *)
LEMMA StartInv == Inv /\ Start => Inv'
<1> SUFFICES ASSUME Inv, Start PROVE Inv'
  OBVIOUS
<1>1. grant = Nobody
  BY DEF Inv, Shaped, Start
<1>2. provider' \in Providers \/ (provider' = provider /\ phase' = "failed")
  BY DEF Start, ProviderFor, SelectConsentProvider, Providers
<1>3. sessions' \in 0..MaxSessions
  BY ProxyAssumption DEF Start, Inv, Shaped
<1>4. /\ UNCHANGED <<now, quotaUsed, calls, grant, log, approved, status, asked, inbox, executed>>
      /\ phase = "down" /\ phase' \in {"failed", "starting"}
      /\ phase' = "starting" => \E c \in DOMAIN Parsed : launched' = Parsed[c]
  BY DEF Start, brokerVars
<1>5. Shaped'
  BY <1>1, <1>2, <1>3, <1>4 DEF Inv, Shaped
<1>6. Started'
  BY <1>2, <1>4 DEF Started
<1>7. inbox' \cup executed' \subseteq AdmittedRequests /\ Onward
  BY <1>4 DEF Inv, OnlyAdmitted, Onward
<1> QED BY <1>1, <1>4, <1>5, <1>6, <1>7, Quiet

(* A request for consent: what is asked is one of the scopes.              *)
LEMMA RequestConsentInv ==
    ASSUME Inv, NEW available \in OfferedTools, RequestConsent(available)
    PROVE  Inv'
<1>1. /\ UNCHANGED <<now, quotaUsed, calls, grant, log, approved, status, inbox, executed,
                     launched, sessions>>
      /\ phase = "starting" /\ phase' \in {"failed", "consenting"}
  BY DEF RequestConsent, brokerVars, launchVars
<1>2. grant = Nobody
  BY <1>1 DEF Inv, Shaped
<1>3. phase' = "failed" => provider' = Nobody /\ asked' = asked
  BY DEF RequestConsent
<1>4. phase' = "consenting" => provider' = provider /\ asked' \in Scopes
  BY DEF RequestConsent, Inv, Started, Scopes
<1>5. Shaped'
  BY <1>1, <1>2, <1>3, <1>4, NobodyAssumption DEF Inv, Shaped
<1>6. Started'
  BY <1>1, <1>4 DEF Inv, Started
<1>7. inbox' \cup executed' \subseteq AdmittedRequests /\ Onward
  BY <1>1 DEF Inv, OnlyAdmitted, Onward
<1> QED BY <1>1, <1>2, <1>5, <1>6, <1>7, Quiet

(* The target's side, a client that gives up, and the passing of time.     *)
LEMMA TargetInv ==
    ASSUME Inv, NEW r \in Requests, Execute(r) \/ Answer(r) \/ Cancel(r) \/ TargetDies
    PROVE  Inv'
<1>1. /\ UNCHANGED <<now, quotaUsed, calls, grant, log, approved, launched, sessions, phase,
                     provider, asked>>
      /\ inbox' \subseteq inbox
      /\ executed' \subseteq executed \cup inbox
  BY DEF Execute, Answer, Cancel, TargetDies, brokerVars, launchVars
<1>2. \/ status' = status
      \/ /\ status[r] \in InFlight
         /\ \E s \in Settled : status' = [status EXCEPT ![r] = s]
  BY DEF Execute, Answer, Cancel, TargetDies, Becomes, InFlight, Settled
<1>3. Onward
  BY <1>1, <1>2 DEF Onward, Inv, Shaped, InFlight, Settled
<1>4. status' \in [Requests -> {"new"} \cup InFlight \cup Settled]
  BY <1>2 DEF Inv, Shaped
<1>5. DOMAIN calls' = {q \in Requests : status'[q] # "new"}
  BY <1>1, <1>2 DEF Inv, Shaped, InFlight, Settled
<1>6. Shaped'
  BY <1>1, <1>4, <1>5 DEF Inv, Shaped
<1>7. Started' /\ inbox' \cup executed' \subseteq AdmittedRequests
  BY <1>1 DEF Inv, Started, OnlyAdmitted
<1> QED BY <1>1, <1>3, <1>6, <1>7, Quiet

(* The clock may move on as far as it likes.                               *)
LEMMA TimePasses ==
    ASSUME Inv, now' \in Nat, UNCHANGED <<quotaUsed, proxyVars>>
    PROVE  Inv'
<1>1. Shaped' /\ Started' /\ Onward /\ inbox' \cup executed' \subseteq AdmittedRequests
  BY DEF Inv, Shaped, Started, Onward, OnlyAdmitted, proxyVars, launchVars
<1> QED BY <1>1, Quiet DEF proxyVars, launchVars

(* The end of the process: the grant goes with its counter.                *)
LEMMA StopInv == Inv /\ Stop => Inv'
<1> SUFFICES ASSUME Inv, Stop PROVE Inv'
  OBVIOUS
<1>1. /\ UNCHANGED <<now, launched, sessions, log, inbox, calls, executed, approved>>
      /\ phase' = "down" /\ grant' = Nobody /\ asked' = Nobody /\ provider' = Nobody
      /\ quotaUsed' = [g \in GrantIds |-> 0]
      /\ status' = [r \in Requests |-> IF status[r] \in InFlight THEN "lost" ELSE status[r]]
  BY DEF Stop, launchVars
<1>2. Onward
  BY <1>1 DEF Onward, InFlight
<1>3. Shaped'
  <2>1. status' \in [Requests -> {"new"} \cup InFlight \cup Settled]
    BY <1>1 DEF Inv, Shaped, Settled
  <2>2. DOMAIN calls' = {q \in Requests : status'[q] # "new"}
    BY <1>1 DEF Inv, Shaped, InFlight
  <2> QED BY <1>1, <2>1, <2>2 DEF Inv, Shaped
<1>4. Started'
  BY <1>1 DEF Started
<1>5. OnlyAdmitted'
  BY <1>1 DEF Inv, OnlyAdmitted, AdmittedRequests, AllowEntries, DecisionEntries
<1> QED BY <1>1, <1>2, <1>3, <1>4, <1>5, LogKept, GrantKept, CountKept DEF Inv

(* A call from the client, whatever it carries: its request is new, so no  *)
(* decision is about it.                                                   *)
LEMMA SendInv ==
    ASSUME Inv, NEW r \in Requests, NEW call, Send(r, call)
    PROVE  Inv'
<1>1. /\ UNCHANGED <<now, quotaUsed, phase, launched, sessions, provider, asked, grant, log,
                     inbox, executed, approved>>
      /\ status[r] = "new" /\ status' = [status EXCEPT ![r] = "sent"]
      /\ calls' = [q \in DOMAIN calls \cup {r} |-> IF q = r THEN call ELSE calls[q]]
  BY DEF Send, brokerVars, launchVars
<1>2. Onward
  BY <1>1 DEF Onward, Inv, Shaped
<1>3. Shaped'
  <2>1. status' \in [Requests -> {"new"} \cup InFlight \cup Settled]
    BY <1>1 DEF Inv, Shaped, InFlight
  <2>2. DOMAIN calls' = {q \in Requests : status'[q] # "new"}
    BY <1>1 DEF Inv, Shaped
  <2> QED BY <1>1, <2>1, <2>2 DEF Inv, Shaped
<1>4. Started'
  BY <1>1 DEF Inv, Started
<1>5. OnlyAdmitted'
  BY <1>1 DEF Inv, OnlyAdmitted, AdmittedRequests, AllowEntries, DecisionEntries
<1> QED BY <1>1, <1>2, <1>3, <1>4, <1>5, LogKept, GrantKept, CountKept DEF Inv

-----------------------------------------------------------------------------
(* Consent: what an approval mints is a token, and the token says what was *)
(* approved (proxy.py:104-129).                                            *)
LEMMA MintedToken ==
    ASSUME Inv, phase = "consenting", NEW g \in GrantIds,
           NEW decision, Faithful(decision, asked)
    PROVE  /\ Minted(g, decision) \in Tokens
           /\ Minted(g, decision) # Nobody
<1>1. /\ asked \in Scopes
      /\ Audience \in {Parsed[c].audience : c \in DOMAIN Parsed}
      /\ now \in Int
  BY DEF Inv, Started, Shaped, Audience
<1>2. decision.granted_tools \in SUBSET Askable /\ decision.ttl_seconds \in Int
      /\ decision.quota \in Int
  BY <1>1, ScopesTyped DEF Faithful
<1>3. now + decision.ttl_seconds \in Int
  BY <1>1, <1>2
<1> DEFINE rules == GrantedConstraints(decision.granted_tools)
           RuleSets == {[t \in DOMAIN s.rules \cap tools |-> s.rules[t]] :
                            s \in Scopes, tools \in SUBSET Askable}
           claim == [grant_id |-> g, audience |-> Audience, tools |-> decision.granted_tools,
                     issued_at |-> now, expires_at |-> now + decision.ttl_seconds,
                     quota |-> decision.quota, parent_grant_id |-> NoParent,
                     argument_constraints |-> rules]
<1>4. rules \in RuleSets
  BY <1>1, <1>2 DEF GrantedConstraints
<1>5. Claims = [grant_id : GrantIds, audience : {Parsed[c].audience : c \in DOMAIN Parsed},
                tools : SUBSET Askable, issued_at : Int, expires_at : Int, quota : Int,
                parent_grant_id : {NoParent}, argument_constraints : RuleSets]
  BY DEF Claims
<1>6. Minted(g, decision) = SignCapability(claim, IssuerKey, IssuerKeyId)
  BY DEF Minted
<1>7. claim \in Claims
  <2> HIDE DEF rules, RuleSets
  <2> QED BY <1>1, <1>2, <1>3, <1>4, <1>5
<1> HIDE DEF claim
<1>8. Minted(g, decision) \in Tokens
  BY <1>6, <1>7 DEF SignCapability, Tokens
<1> QED BY <1>8, NobodyAssumption

(* Nothing comes of a provider that raises, of a denial, or of a grant     *)
(* that could not be recorded.                                             *)
LEMMA NothingGranted ==
    ASSUME Inv, Consented, phase' \in {"failed", "serving"},
           UNCHANGED <<log, approved>>, grant' \in {grant, Nobody}
    PROVE  Inv'
<1>1. /\ UNCHANGED <<now, quotaUsed, sessions, launched, status, inbox, calls, executed>>
      /\ asked' = Nobody /\ provider' = Nobody /\ phase = "consenting"
  BY DEF Consented, brokerVars, launchVars
<1>2. grant = Nobody /\ grant' = Nobody
  BY <1>1 DEF Inv, Shaped
<1>3. Shaped' /\ Started' /\ Onward /\ inbox' \cup executed' \subseteq AdmittedRequests
  BY <1>1, <1>2 DEF Inv, Shaped, Started, Onward, OnlyAdmitted
<1> QED BY <1>1, <1>2, <1>3, Quiet

(* What writing an entry does to the log, and to what it says.             *)
LEMMA Written ==
    ASSUME log \in Seq(Entries), NEW e \in Entries, Logged(e)
    PROVE  /\ log' \in Seq(Entries)
           /\ Len(log) \in Nat /\ DOMAIN log = 1..Len(log)
           /\ Len(log') = Len(log) + 1 /\ DOMAIN log' = 1..(Len(log) + 1)
           /\ \A i \in DOMAIN log : log'[i] = log[i]
           /\ log'[Len(log) + 1] = e
           /\ DecisionEntries' = IF e.event = "tool_call"
                                 THEN DecisionEntries \cup {Len(log) + 1} ELSE DecisionEntries
           /\ AllowEntries' = IF e.event = "tool_call" /\ e.decision = "allow"
                              THEN AllowEntries \cup {Len(log) + 1} ELSE AllowEntries
<1> DEFINE n == Len(log) + 1
<1>1. /\ log' \in Seq(Entries)
      /\ Len(log) \in Nat /\ DOMAIN log = 1..Len(log)
      /\ Len(log') = n /\ DOMAIN log' = 1..n
      /\ \A i \in DOMAIN log : log'[i] = log[i]
      /\ log'[n] = e
  BY DEF Logged
<1>2. n \notin DOMAIN log /\ DOMAIN log' = DOMAIN log \cup {n}
  BY <1>1
<1> HIDE DEF n
<1>3. DecisionEntries' = IF e.event = "tool_call" THEN DecisionEntries \cup {n}
                                                  ELSE DecisionEntries
  BY <1>1, <1>2 DEF DecisionEntries
<1>4. AllowEntries' = IF e.event = "tool_call" /\ e.decision = "allow"
                      THEN AllowEntries \cup {n} ELSE AllowEntries
  BY <1>1, <1>2, <1>3 DEF AllowEntries, DecisionEntries
<1> QED BY <1>1, <1>3, <1>4 DEF n

(* A grant recorded in the log, and taken for active or lost: its id is    *)
(* new, so nothing was counted or let through under it before.             *)
LEMMA GrantIssued ==
    ASSUME Inv, Consented, NEW g \in GrantIds \ DOMAIN approved,
           NEW decision, Faithful(decision, asked),
           RecordGrant(g, decision),
           \/ grant' = Minted(g, decision) /\ phase' = "serving"
           \/ grant' = grant /\ phase' = "failed"
    PROVE  Inv'
<1> DEFINE n == Len(log) + 1
<1>1. /\ UNCHANGED <<now, quotaUsed, sessions, launched, status, inbox, calls, executed>>
      /\ asked' = Nobody /\ provider' = Nobody /\ phase = "consenting"
  BY DEF Consented, brokerVars, launchVars
<1>2. IssueEntry(g) \in Entries /\ Logged(IssueEntry(g)) /\ log \in Seq(Entries)
  BY DEF Entries, RecordGrant, IssueEntry, Inv, LogTyped
<1>0. grant = Nobody
  BY <1>1 DEF Inv, Shaped
<1>3. /\ log' \in Seq(Entries) /\ Len(log) \in Nat
      /\ DOMAIN log = 1..Len(log) /\ DOMAIN log' = 1..n
      /\ \A i \in DOMAIN log : log'[i] = log[i]
      /\ log'[n] = IssueEntry(g)
      /\ DecisionEntries' = DecisionEntries /\ AllowEntries' = AllowEntries
  BY <1>2, Written DEF IssueEntry
<1>4. /\ DecisionEntries \subseteq DOMAIN log /\ AllowEntries \subseteq DecisionEntries
  BY DEF DecisionEntries, AllowEntries
<1> HIDE DEF n
<1>5. /\ DOMAIN approved' = DOMAIN approved \cup {g}
      /\ \A h \in DOMAIN approved : approved'[h] = approved[h]
      /\ approved'[g] = Approval(decision)
  BY DEF RecordGrant, Approved
<1>6. Shaped' /\ Started'
  BY <1>0, <1>1, <1>5 DEF Inv, Shaped, Started
<1>7. LogTyped'
  <2>1. \A i \in DOMAIN log' : i \in DOMAIN log \/ i = n
    BY <1>3 DEF n
  <2>2. IssueEntry(g).grant = g
    BY DEF IssueEntry
  <2> QED BY <1>3, <1>5, <2>1, <2>2 DEF LogTyped, Inv
<1>8. LogJudged'
  BY <1>1, <1>3, <1>4, <1>5 DEF Inv, LogJudged, Covers
<1>9. OnlyAdmitted'
  <2>1. AdmittedRequests' = AdmittedRequests
    BY <1>3, <1>4 DEF AdmittedRequests
  <2> QED BY <1>1, <2>1 DEF Inv, OnlyAdmitted
<1>10. ApprovedTyped'
  <2>1. /\ Approval(decision).from \in Int /\ Approval(decision).until \in Int
        /\ Approval(decision).quota \in Int
        /\ Approval(decision).tools \cap Withheld \subseteq Approval(decision).affirmed
    BY DEF Approval, Faithful, Inv, Shaped
  <2> QED BY <1>5, <2>1 DEF Inv, ApprovedTyped
<1>11. GrantIsApproved'
  <2> SUFFICES ASSUME grant' # Nobody PROVE GrantIsApproved'
    BY DEF GrantIsApproved
  <2>1. grant' = TokenFor(g)'
    <3>1. Audience' = Audience
      BY <1>1 DEF Audience
    <3> QED BY <1>0, <1>5, <3>1 DEF TokenFor, Minted, Approval, GrantedConstraints
  <2>2. LastIssued(g)'
    BY <1>3 DEF LastIssued, n
  <2> QED BY <1>5, <2>1, <2>2 DEF GrantIsApproved
<1>12. Counted'
  <2>1. \A h \in GrantIds \ DOMAIN approved' : quotaUsed'[h] = 0
    BY <1>1, <1>5 DEF Inv, Counted
  <2>2. ASSUME grant' # Nobody PROVE QuotaMatchesLog'
    <3>1. grant'.capability.grant_id = g
      BY <1>0, <2>2 DEF Minted, SignCapability
    <3>2. {i \in AllowEntries' : log'[i].grant = g} = {}
      BY <1>3, <1>4 DEF Inv, LogJudged
    <3>3. {i \in AllowEntries' : log'[i].grant = grant'.capability.grant_id} = {}
      BY <3>1, <3>2
    <3>4. Cardinality({i \in AllowEntries' : log'[i].grant = grant'.capability.grant_id}) = 0
      BY <3>3, FS_EmptySet
    <3>5. quotaUsed'[grant'.capability.grant_id] = 0
      BY <1>1, <3>1 DEF Inv, Counted
    <3>6. Cardinality({r \in Requests : status'[r] = "error"}) \in Nat
      BY <1>1, <1>2, Finite DEF Errors
    <3> QED BY <3>4, <3>5, <3>6 DEF QuotaMatchesLog
  <2>3. grant' = Nobody => QuotaMatchesLog'
    BY DEF QuotaMatchesLog
  <2> QED BY <2>1, <2>2, <2>3 DEF Counted
<1>13. LogExplainsItself'
  <2> SUFFICES ASSUME NEW i \in DecisionEntries, log[i].grant # Nobody
               PROVE  \E j \in 1..(i - 1) :
                         /\ log'[j] = [event |-> "grant_issued", grant |-> log[i].grant]
                         /\ \A k \in (j + 1)..(i - 1) : log'[k].event # "grant_issued"
    BY <1>3, <1>4 DEF LogExplainsItself
  <2>1. PICK j \in 1..(i - 1) :
            /\ log[j] = [event |-> "grant_issued", grant |-> log[i].grant]
            /\ \A k \in (j + 1)..(i - 1) : log[k].event # "grant_issued"
    BY DEF Inv, LogExplainsItself
  <2>2. i \in 1..Len(log)
    BY <1>3, <1>4
  <2>3. log'[j] = log[j] /\ \A k \in (j + 1)..(i - 1) : log'[k] = log[k]
    BY <1>3, <2>2
  <2> QED BY <2>1, <2>3
<1> QED BY <1>6, <1>7, <1>8, <1>9, <1>10, <1>11, <1>12, <1>13 DEF Inv

(* Consent, however it comes out.                                          *)
LEMMA EstablishGrantInv == Inv /\ EstablishGrant => Inv'
<1> SUFFICES ASSUME Inv, EstablishGrant PROVE Inv'
  OBVIOUS
<1>1. Consented
  BY DEF EstablishGrant
<1>2. PICK decision \in Outcomes(provider, asked) :
          ConsentRaises(decision) \/ Deny(decision) \/ Grant(decision)
  BY DEF EstablishGrant
<1>3. CASE ConsentRaises(decision) \/ Deny(decision)
  BY <1>1, <1>3, NothingGranted DEF ConsentRaises, Deny
<1>4. CASE Grant(decision)
  <2>1. PICK g \in GrantIds \ DOMAIN approved :
            \/ /\ RecordGrant(g, decision)
               /\ grant' = Minted(g, decision)
               /\ phase' = "serving"
            \/ MintFails(g, decision)
    BY <1>4 DEF Grant
  <2>2. CASE MintFails(g, decision) /\ UNCHANGED <<log, approved>>
    BY <1>1, <2>2, NothingGranted DEF MintFails
  <2>3. Faithful(decision, asked)
    <3>1. provider \in Providers /\ asked \in Scopes
      BY <1>1 DEF Consented, Inv, Started
    <3> QED BY <1>4, <3>1, ScopesTyped, OutcomesFaithful DEF Grant
  <2>4. CASE /\ RecordGrant(g, decision)
             /\ \/ MintFails(g, decision)
                \/ grant' = Minted(g, decision) /\ phase' = "serving"
    <3>1. \/ grant' = Minted(g, decision) /\ phase' = "serving"
          \/ grant' = grant /\ phase' = "failed"
      BY <2>4 DEF MintFails
    <3> QED BY <1>1, <2>3, <2>4, <3>1, GrantIssued
  <2>5. MintFails(g, decision) => RecordGrant(g, decision) \/ UNCHANGED <<log, approved>>
    BY DEF MintFails
  <2> QED BY <2>1, <2>2, <2>4, <2>5
<1> QED BY <1>2, <1>3, <1>4

-----------------------------------------------------------------------------
(* The tools/call handler (proxy.py:135-169).                              *)
LEMMA Active ==
    ASSUME Inv, grant # Nobody
    PROVE  LET g == grant.capability.grant_id
           IN  /\ g \in DOMAIN approved /\ g \in GrantIds
               /\ grant = TokenFor(g) /\ LastIssued(g)
  BY DEF Inv, Shaped, GrantIsApproved, TokenFor, SignCapability

(* What such a token says.                                                 *)
LEMMA TokenFields ==
    ASSUME NEW g
    PROVE  /\ TokenFor(g).key_id = IssuerKeyId
           /\ VerifySignature(TokenFor(g), IssuerKey)
           /\ TokenFor(g).capability.grant_id = g
           /\ TokenFor(g).capability.audience = Audience
           /\ TokenFor(g).capability.tools = approved[g].tools
           /\ TokenFor(g).capability.issued_at = approved[g].from
           /\ TokenFor(g).capability.expires_at = approved[g].until
           /\ TokenFor(g).capability.quota = approved[g].quota
           /\ TokenFor(g).capability.argument_constraints = approved[g].rules
  BY DEF TokenFor, SignCapability, VerifySignature

(* A request that is handled: it was sent, and comes to one of three ends. *)
Handles(r, s) ==
    /\ UNCHANGED <<now, phase, launched, sessions, provider, asked, grant, targetUp, calls,
                   executed, approved>>
    /\ s \in {"refused", "error", "forwarded"}
    /\ status[r] = "sent"
    /\ status' = [status EXCEPT ![r] = s]

(* What handling a request does, beside the log and the counter.           *)
LEMMA Handled ==
    ASSUME Inv, NEW r \in Requests, NEW s, Handles(r, s)
    PROVE  /\ Onward /\ Started'
           /\ quotaUsed' \in [GrantIds -> Nat] /\ inbox' \subseteq inbox \cup {r} => Shaped'
           /\ Errors' = IF s = "error" THEN Errors \cup {r} ELSE Errors
           /\ r \notin Errors
<1>1. Onward /\ Started'
  BY DEF Handles, Onward, Inv, Started, Shaped
<1>2. status' \in [Requests -> {"new"} \cup InFlight \cup Settled]
  BY DEF Handles, Inv, Shaped, InFlight, Settled
<1>3. DOMAIN calls' = {q \in Requests : status'[q] # "new"}
  BY DEF Handles, Inv, Shaped
<1>4. ASSUME quotaUsed' \in [GrantIds -> Nat], inbox' \subseteq inbox \cup {r} PROVE Shaped'
  BY <1>2, <1>3, <1>4 DEF Handles, Inv, Shaped
<1>5. Errors' = IF s = "error" THEN Errors \cup {r} ELSE Errors
  BY DEF Handles, Errors, Inv, Shaped
<1>6. r \notin Errors
  BY DEF Handles, Errors
<1> QED BY <1>1, <1>4, <1>5, <1>6

(* The decision of a request that was sent is the first one on it, and it  *)
(* names the grant that the log issued last, or none.                      *)
LEMMA DecisionLogged ==
    ASSUME Inv, NEW r \in Requests, NEW s, Handles(r, s),
           NEW h, NEW d \in {"allow", "deny"}, NEW reason \in Reasons,
           Logged(ToolCallEntry(r, h, d, reason)),
           h = Nobody \/ (grant # Nobody /\ h = grant.capability.grant_id),
           d = "allow" => h # Nobody /\ Covers(h, calls[r])
    PROVE  /\ LogTyped' /\ LogJudged' /\ ApprovedTyped' /\ GrantIsApproved'
           /\ LogExplainsItself'
           /\ AdmittedRequests' = IF d = "allow" THEN AdmittedRequests \cup {r}
                                                 ELSE AdmittedRequests
<1> DEFINE n == Len(log) + 1
           e == ToolCallEntry(r, h, d, reason)
<1>1. h \in DOMAIN approved \cup {Nobody} /\ h \in GrantIds \cup {Nobody}
      /\ (h # Nobody => grant # Nobody /\ h = grant.capability.grant_id /\ LastIssued(h))
  BY Active
<1>2. /\ e \in Entries /\ log \in Seq(Entries)
      /\ e.event = "tool_call" /\ e.decision = d /\ e.grant = h /\ e.request = r
  BY <1>1 DEF Entries, ToolCallEntry, Inv, LogTyped
<1> HIDE DEF e
<1>3. /\ log' \in Seq(Entries) /\ Len(log) \in Nat
      /\ DOMAIN log = 1..Len(log) /\ DOMAIN log' = 1..n
      /\ \A i \in DOMAIN log : log'[i] = log[i]
      /\ log'[n] = e
      /\ DecisionEntries' = DecisionEntries \cup {n}
      /\ AllowEntries' = IF d = "allow" THEN AllowEntries \cup {n} ELSE AllowEntries
  BY <1>2, Written DEF e
<1>4. /\ DecisionEntries \subseteq DOMAIN log /\ AllowEntries \subseteq DecisionEntries
      /\ n \notin DOMAIN log /\ DOMAIN log' = DOMAIN log \cup {n}
  BY <1>3 DEF DecisionEntries, AllowEntries
<1> HIDE DEF n
<1>5. /\ UNCHANGED <<launched, grant, calls, approved>>
      /\ status[r] = "sent" /\ status'[r] \notin {"new", "sent"}
      /\ \A q : q # r => status'[q] = status[q]
  BY DEF Handles, Inv, Shaped
<1>6. LogTyped'
  BY <1>1, <1>2, <1>3, <1>4, <1>5 DEF LogTyped, Inv
<1>7. LogJudged'
  <2>1. \A i \in DecisionEntries : log[i].request # r /\ log'[i] = log[i]
    BY <1>3, <1>4, <1>5 DEF Inv, LogJudged
  <2>2. \A i \in DecisionEntries' : status'[log'[i].request] \notin {"new", "sent"}
    BY <1>2, <1>3, <1>5, <2>1 DEF Inv, LogJudged
  <2>3. \A i, k \in DecisionEntries' : log'[i].request = log'[k].request => i = k
    BY <1>2, <1>3, <2>1 DEF Inv, LogJudged
  <2>4. ASSUME NEW i \in AllowEntries'
        PROVE  /\ log'[i].grant \in DOMAIN approved'
               /\ Covers(log[i].grant, calls[log[i].request])'
    <3>1. CASE i \in AllowEntries
      BY <1>4, <1>5, <2>1, <3>1 DEF Inv, LogJudged, Covers
    <3>2. CASE i \notin AllowEntries
      BY <1>1, <1>2, <1>3, <1>5, <3>2 DEF Covers
    <3> QED BY <3>1, <3>2
  <2> QED BY <2>2, <2>3, <2>4 DEF LogJudged
<1>8. ApprovedTyped'
  BY <1>5 DEF ApprovedTyped, Inv
<1>9. \A g : LastIssued(g) => LastIssued(g)'
  <2> SUFFICES ASSUME NEW g, LastIssued(g) PROVE LastIssued(g)'
    OBVIOUS
  <2>1. PICK j \in DOMAIN log : /\ log[j] = IssueEntry(g)
                                /\ \A k \in DOMAIN log : k > j => log[k].event # "grant_issued"
    BY DEF LastIssued
  <2>2. \A k \in DOMAIN log' : k > j => log'[k].event # "grant_issued"
    BY <1>2, <1>3, <1>4, <2>1
  <2> QED BY <1>3, <1>4, <2>1, <2>2 DEF LastIssued
<1>10. GrantIsApproved'
  <2>1. \A g : TokenFor(g)' = TokenFor(g)
    BY <1>5 DEF TokenFor, Audience
  <2> QED BY <1>5, <1>9, <2>1 DEF Inv, GrantIsApproved
<1>11. LogExplainsItself'
  <2> SUFFICES ASSUME NEW i \in DecisionEntries', log'[i].grant # Nobody
               PROVE  \E j \in 1..(i - 1) :
                         /\ log'[j] = [event |-> "grant_issued", grant |-> log'[i].grant]
                         /\ \A k \in (j + 1)..(i - 1) : log'[k].event # "grant_issued"
    BY DEF LogExplainsItself
  <2>1. CASE i \in DecisionEntries
    <3>1. log'[i] = log[i] /\ i \in 1..Len(log)
      BY <1>3, <1>4, <2>1
    <3>2. PICK j \in 1..(i - 1) :
              /\ log[j] = [event |-> "grant_issued", grant |-> log[i].grant]
              /\ \A k \in (j + 1)..(i - 1) : log[k].event # "grant_issued"
      BY <2>1, <3>1 DEF Inv, LogExplainsItself
    <3>3. log'[j] = log[j] /\ \A k \in (j + 1)..(i - 1) : log'[k] = log[k]
      BY <1>3, <3>1
    <3> QED BY <3>1, <3>2, <3>3
  <2>2. CASE i \notin DecisionEntries
    <3>1. i = n /\ log'[i].grant = h
      BY <1>2, <1>3, <2>2
    <3>2. PICK j \in DOMAIN log : /\ log[j] = IssueEntry(h)
                                  /\ \A k \in DOMAIN log : k > j => log[k].event # "grant_issued"
      BY <1>1, <3>1 DEF LastIssued
    <3>3. j \in 1..(n - 1) /\ DOMAIN log = 1..(n - 1)
      BY <1>3 DEF n
    <3>4. \A k \in (j + 1)..(n - 1) : k \in DOMAIN log /\ k > j
      BY <1>3, <3>3 DEF n
    <3> QED BY <1>3, <3>1, <3>2, <3>3, <3>4 DEF IssueEntry
  <2> QED BY <2>1, <2>2
<1>12. AdmittedRequests' = IF d = "allow" THEN AdmittedRequests \cup {r} ELSE AdmittedRequests
  <2>1. \A i \in AllowEntries : log'[i] = log[i]
    BY <1>3, <1>4
  <2> QED BY <1>2, <1>3, <2>1 DEF AdmittedRequests
<1> QED BY <1>6, <1>7, <1>8, <1>10, <1>11, <1>12

(* The counter goes up with the calls let through and with the errors: it  *)
(* counts in authorize(), before its caller logs (broker.py:101).          *)
LEMMA CallCounted ==
    ASSUME Inv, NEW r \in Requests, NEW s, Handles(r, s), log' \in Seq(Entries),
           grant # Nobody, NEW g, g = grant.capability.grant_id,
           \/ quotaUsed' = quotaUsed /\ Allowed(g)' = Allowed(g)
           \/ /\ quotaUsed' = [quotaUsed EXCEPT ![g] = @ + 1]
              /\ \/ \E i : i \notin Allowed(g) /\ Allowed(g)' = Allowed(g) \cup {i}
                 \/ s = "error" /\ Allowed(g)' = Allowed(g)
    PROVE  Counted' /\ quotaUsed' \in [GrantIds -> Nat]
<1>1. g \in DOMAIN approved /\ g \in GrantIds /\ quotaUsed \in [GrantIds -> Nat]
  BY Active DEF Inv, Shaped
<1>2. UNCHANGED <<approved, grant>>
  BY DEF Handles
<1>3. quotaUsed' \in [GrantIds -> Nat] /\ \A h \in GrantIds : h # g => quotaUsed'[h] = quotaUsed[h]
  BY <1>1
<1>4. \A h \in GrantIds \ DOMAIN approved' : quotaUsed'[h] = 0
  BY <1>1, <1>2, <1>3 DEF Inv, Counted
<1>5. /\ IsFiniteSet(Allowed(g)) /\ Cardinality(Allowed(g)) \in Nat
      /\ IsFiniteSet(Errors) /\ Cardinality(Errors) \in Nat
  BY Finite DEF Inv, LogTyped
<1>6. /\ Cardinality(Allowed(g)) <= quotaUsed[g]
      /\ quotaUsed[g] <= Cardinality(Allowed(g)) + Cardinality(Errors)
  BY QuotaAgrees DEF Inv, Counted
<1>7. /\ Cardinality(Errors') = IF s = "error" THEN Cardinality(Errors) + 1
                                              ELSE Cardinality(Errors)
  BY <1>5, Handled, FS_AddElement
<1>8. /\ Cardinality(Allowed(g)') <= quotaUsed'[g]
      /\ quotaUsed'[g] <= Cardinality(Allowed(g)') + Cardinality(Errors')
  <2>1. CASE quotaUsed' = quotaUsed /\ Allowed(g)' = Allowed(g)
    BY <1>1, <1>5, <1>6, <1>7, <2>1
  <2>2. CASE /\ quotaUsed' = [quotaUsed EXCEPT ![g] = @ + 1]
             /\ \E i : i \notin Allowed(g) /\ Allowed(g)' = Allowed(g) \cup {i}
    <3>1. Cardinality(Allowed(g)') = Cardinality(Allowed(g)) + 1
      BY <1>5, <2>2, FS_AddElement
    <3>2. quotaUsed'[g] = quotaUsed[g] + 1 /\ quotaUsed[g] \in Nat
      BY <1>1, <2>2
    <3> QED BY <1>5, <1>6, <1>7, <3>1, <3>2
  <2>3. CASE /\ quotaUsed' = [quotaUsed EXCEPT ![g] = @ + 1]
             /\ s = "error" /\ Allowed(g)' = Allowed(g)
    <3>1. quotaUsed'[g] = quotaUsed[g] + 1 /\ quotaUsed[g] \in Nat
      BY <1>1, <2>3
    <3> QED BY <1>5, <1>6, <1>7, <2>3, <3>1
  <2> QED BY <2>1, <2>2, <2>3
<1>9. QuotaMatchesLog'
  <2>1. grant'.capability.grant_id = g
    BY <1>2
  <2> QED BY <1>8, <2>1 DEF QuotaMatchesLog, Allowed, Errors
<1> QED BY <1>3, <1>4, <1>9 DEF Counted

(* A call that meets no grant: refused and logged, or an error.            *)
LEMMA RefuseUngrantedInv ==
    ASSUME Inv, NEW r \in Requests, OnCallTool(r), RefuseUngranted(r)
    PROVE  Inv'
<1>1. /\ UNCHANGED <<now, quotaUsed, phase, launched, sessions, provider, asked, grant, targetUp,
                     inbox, calls, executed, approved>>
      /\ grant = Nobody /\ status[r] = "sent"
  BY DEF OnCallTool, RefuseUngranted, brokerVars, launchVars
<1>2. ASSUME NEW s \in {"refused", "error"}, Becomes(r, s),
             Logged(ToolCallEntry(r, Nobody, "deny", "no capability"))
      PROVE  Inv'
  <2>1. Handles(r, s)
    BY <1>1, <1>2 DEF Handles, Becomes
  <2>2. Shaped' /\ Started'
    BY <1>1, <2>1, Handled DEF Inv, Shaped
  <2>3. /\ LogTyped' /\ LogJudged' /\ ApprovedTyped' /\ GrantIsApproved' /\ LogExplainsItself'
        /\ AdmittedRequests' = AdmittedRequests
    BY <1>2, <2>1, DecisionLogged DEF Reasons
  <2>4. Counted'
    BY <1>1 DEF Inv, Counted, QuotaMatchesLog
  <2>5. OnlyAdmitted'
    BY <1>1, <2>3 DEF Inv, OnlyAdmitted
  <2> QED BY <2>2, <2>3, <2>4, <2>5 DEF Inv
<1>3. CASE UNCHANGED log /\ Becomes(r, "error")
  <2>1. Handles(r, "error") /\ log' = log
    BY <1>1, <1>3 DEF Handles, Becomes
  <2>2. Shaped' /\ Started' /\ Onward
    BY <1>1, <2>1, Handled DEF Inv, Shaped
  <2> QED BY <1>1, <2>1, <2>2, Quiet DEF Inv, OnlyAdmitted
<1> QED BY <1>2, <1>3 DEF RefuseUngranted, AppendRaises

(* A call under a grant: a verdict without an entry (the rule or the write *)
(* raised), a refusal with its entry, or an admission with its entry and   *)
(* its count.                                                              *)
LEMMA DecideInv ==
    ASSUME Inv, NEW r \in Requests, OnCallTool(r), Decide(r)
    PROVE  Inv'
<1>1. PICK g : g = grant.capability.grant_id
  OBVIOUS
<1>2. PICK verdict : verdict = Verdict(grant, calls[r].tool, Audience, calls[r].arguments)
  OBVIOUS
<1>3. /\ UNCHANGED <<now, phase, launched, sessions, provider, asked, grant, targetUp, calls,
                     executed, approved>>
      /\ grant # Nobody /\ status[r] = "sent"
      /\ quotaUsed' = IF verdict = "allow" THEN [quotaUsed EXCEPT ![g] = @ + 1] ELSE quotaUsed
  BY <1>1, <1>2 DEF OnCallTool, Decide, Authorize, Increment, launchVars
<1>4. g \in DOMAIN approved /\ g \in GrantIds /\ grant = TokenFor(g) /\ g # Nobody
  BY <1>1, <1>3, Active, ProxyAssumption
<1>5. log \in Seq(Entries) /\ quotaUsed \in [GrantIds -> Nat] /\ inbox \subseteq Requests
  BY DEF Inv, LogTyped, Shaped
<1>6. CASE UNCHANGED log
  <2>1. Becomes(r, "error") /\ inbox' = inbox
    <3>1. CASE verdict = "raise"
      BY <1>2, <3>1 DEF Decide
    <3>2. CASE verdict # "raise"
      <4>1. ASSUME NEW e, Logged(e) PROVE FALSE
        BY <1>5, <1>6, <4>1 DEF Logged
      <4> QED BY <1>2, <3>2, <4>1 DEF Decide
    <3> QED BY <3>1, <3>2
  <2>2. Handles(r, "error")
    BY <1>3, <2>1 DEF Handles, Becomes
  <2>3. Allowed(g)' = Allowed(g)
    BY <1>6 DEF Allowed, AllowEntries, DecisionEntries
  <2>4. Counted' /\ quotaUsed' \in [GrantIds -> Nat]
    BY <1>1, <1>3, <1>5, <1>6, <2>2, <2>3, CallCounted
  <2>5. Shaped' /\ Started' /\ Onward
    BY <2>1, <2>2, <2>4, Handled
  <2>6. OnlyAdmitted'
    BY <1>3, <1>6, <2>1
       DEF Inv, OnlyAdmitted, AdmittedRequests, AllowEntries, DecisionEntries
  <2> QED BY <1>3, <1>6, <2>4, <2>5, <2>6, LogKept, GrantKept DEF Inv
<1>7. CASE /\ verdict \notin {"raise", "allow"}
           /\ Logged(ToolCallEntry(r, g, "deny", verdict))
           /\ Becomes(r, "refused") \/ Becomes(r, "error")
           /\ UNCHANGED inbox
  <2>1. PICK s \in {"refused", "error"} : Handles(r, s)
    BY <1>3, <1>7 DEF Handles, Becomes
  <2>2. verdict \in Reasons
    BY <1>2, <1>7, VerdictTyped
  <2>3. /\ LogTyped' /\ LogJudged' /\ ApprovedTyped' /\ GrantIsApproved' /\ LogExplainsItself'
        /\ AdmittedRequests' = AdmittedRequests
    BY <1>1, <1>3, <1>7, <2>1, <2>2, DecisionLogged
  <2>4. Allowed(g)' = Allowed(g)
    <3>1. ToolCallEntry(r, g, "deny", verdict) \in Entries
      BY <1>4, <2>2 DEF Entries, ToolCallEntry
    <3>2. /\ AllowEntries' = AllowEntries
          /\ \A i \in DOMAIN log : log'[i] = log[i]
      BY <1>5, <1>7, <3>1, Written DEF ToolCallEntry
    <3> QED BY <3>2 DEF Allowed, AllowEntries, DecisionEntries
  <2>5. Counted' /\ quotaUsed' \in [GrantIds -> Nat]
    BY <1>1, <1>3, <1>7, <2>1, <2>3, <2>4, CallCounted DEF LogTyped
  <2>6. Shaped' /\ Started'
    BY <1>7, <2>1, <2>5, Handled
  <2>7. OnlyAdmitted'
    BY <1>3, <1>7, <2>3 DEF Inv, OnlyAdmitted
  <2> QED BY <2>3, <2>5, <2>6, <2>7 DEF Inv
<1>8. CASE /\ verdict = "allow"
           /\ Logged(ToolCallEntry(r, g, "allow", verdict))
           /\ Forward(r) \/ (Becomes(r, "error") /\ UNCHANGED inbox)
  <2>1. PICK s \in {"forwarded", "error"} :
            /\ Handles(r, s)
            /\ inbox' \subseteq inbox \cup {r}
    BY <1>3, <1>8 DEF Forward, Handles, Becomes
  <2>2. Covers(g, calls[r])
    BY <1>2, <1>4, <1>8, AllowedMeans, MatchPasses, TokenFields DEF Covers, RulesHold
  <2>3. verdict \in Reasons
    BY <1>8 DEF Reasons
  <2>4. /\ LogTyped' /\ LogJudged' /\ ApprovedTyped' /\ GrantIsApproved' /\ LogExplainsItself'
        /\ AdmittedRequests' = AdmittedRequests \cup {r}
    BY <1>1, <1>3, <1>4, <1>8, <2>1, <2>2, <2>3, DecisionLogged
  <2>5. \E i : i \notin Allowed(g) /\ Allowed(g)' = Allowed(g) \cup {i}
    <3> DEFINE e == ToolCallEntry(r, g, "allow", verdict)
               n == Len(log) + 1
    <3>1. e \in Entries /\ e.event = "tool_call" /\ e.decision = "allow" /\ e.grant = g
      BY <1>4, <2>3 DEF Entries, ToolCallEntry
    <3> HIDE DEF e
    <3>2. /\ AllowEntries' = AllowEntries \cup {n}
          /\ \A i \in DOMAIN log : log'[i] = log[i]
          /\ log'[n] = e
          /\ n \notin DOMAIN log
      BY <1>5, <1>8, <3>1, Written DEF e
    <3> HIDE DEF n
    <3>3. AllowEntries \subseteq DOMAIN log
      BY DEF AllowEntries, DecisionEntries
    <3>4. Allowed(g)' = Allowed(g) \cup {n} /\ n \notin Allowed(g)
      BY <3>1, <3>2, <3>3 DEF Allowed
    <3> QED BY <3>4
  <2>6. Counted' /\ quotaUsed' \in [GrantIds -> Nat]
    BY <1>1, <1>3, <1>8, <2>1, <2>4, <2>5, CallCounted DEF LogTyped
  <2>7. Shaped' /\ Started'
    BY <2>1, <2>6, Handled
  <2>8. OnlyAdmitted'
    BY <1>3, <2>1, <2>4 DEF Inv, OnlyAdmitted
  <2> QED BY <2>4, <2>6, <2>7, <2>8 DEF Inv
<1> QED BY <1>1, <1>2, <1>6, <1>7, <1>8 DEF Decide, AppendRaises

-----------------------------------------------------------------------------
(* The invariant, in every reachable state.                                *)
LEMMA InitInv == Init => Inv
<1> SUFFICES ASSUME Init PROVE Inv
  OBVIOUS
<1>1. log = << >> /\ grant = Nobody /\ inbox = {} /\ executed = {} /\ phase = "down"
  BY DEF Init
<1>2. DecisionEntries = {} /\ AllowEntries = {}
  BY <1>1 DEF DecisionEntries, AllowEntries
<1>3. DOMAIN approved = {} /\ DOMAIN calls = {}
  BY DEF Init
<1>4. Shaped
  BY <1>3, ProxyAssumption DEF Init, BrokerInit, Shaped
<1>5. LogTyped /\ LogJudged /\ OnlyAdmitted /\ LogExplainsItself
  BY <1>1, <1>2, EmptySeq DEF LogTyped, LogJudged, OnlyAdmitted, LogExplainsItself
<1>6. Started /\ ApprovedTyped /\ GrantIsApproved
  BY <1>1, <1>3 DEF Started, ApprovedTyped, GrantIsApproved
<1>7. Counted
  BY <1>1 DEF Init, BrokerInit, Counted, QuotaMatchesLog
<1> QED BY <1>4, <1>5, <1>6, <1>7 DEF Inv

(* Every step but the passing of time, which others may let pass faster.   *)
Acts ==
    \/ Start
    \/ \E available \in OfferedTools : RequestConsent(available)
    \/ EstablishGrant
    \/ \E r \in Requests, call \in ToolCalls : Send(r, call)
    \/ \E r \in Requests : OnCallTool(r) \/ Execute(r) \/ Answer(r) \/ Cancel(r)
    \/ TargetDies
    \/ Stop

(* Each of these steps keeps the invariant.                                *)
LEMMA ActsInv == Inv /\ Acts => Inv'
<1> SUFFICES ASSUME Inv, Acts PROVE Inv'
  OBVIOUS
<1>1. ASSUME NEW available \in OfferedTools, RequestConsent(available) PROVE Inv'
  BY <1>1, RequestConsentInv
<1>2. ASSUME NEW r \in Requests, NEW call \in ToolCalls, Send(r, call) PROVE Inv'
  BY <1>2, SendInv
<1>3. ASSUME NEW r \in Requests, OnCallTool(r) PROVE Inv'
  BY <1>3, RefuseUngrantedInv, DecideInv DEF OnCallTool
<1>4. ASSUME NEW r \in Requests, Execute(r) \/ Answer(r) \/ Cancel(r) PROVE Inv'
  BY <1>4, TargetInv
<1>5. CASE TargetDies
  <2>1. Shaped' /\ Started' /\ Onward /\ inbox' \cup executed' \subseteq AdmittedRequests
    BY <1>5 DEF TargetDies, Inv, Shaped, Started, Onward, OnlyAdmitted, brokerVars, launchVars
  <2> QED BY <1>5, <2>1, Quiet DEF TargetDies, brokerVars, launchVars
<1> QED BY <1>1, <1>2, <1>3, <1>4, <1>5, StartInv, EstablishGrantInv, StopInv DEF Acts

(* So does a step in which nothing happens.                                *)
LEMMA StutterInv == Inv /\ UNCHANGED vars => Inv'
  BY TimePasses DEF vars, brokerVars, Inv, Shaped

(* Everything above holds in every reachable state, for any number of      *)
(* requests, grants, launches and failed writes.                           *)
THEOREM Invariance == Spec => []Inv
<1>1. Inv /\ [Next]_vars => Inv'
  <2>1. Inv /\ Tick => Inv'
    <3> SUFFICES ASSUME Inv, Tick PROVE Inv'
      OBVIOUS
    <3>1. now' \in Nat
      BY DEF Tick, Inv, Shaped
    <3> QED BY <3>1, TimePasses DEF Tick
  <2> QED BY <2>1, ActsInv, StutterInv DEF Next, Acts
<1> QED BY InitInv, <1>1, PTL DEF Spec

-----------------------------------------------------------------------------
(* TypeOK: the active grant is signed and was issued for an approval, and  *)
(* consent is pending exactly while somebody is asked (proxy.py:82-129).   *)
THEOREM TypeCorrect == Spec => []TypeOK
<1> DEFINE OnTime == now <= MaxTime
<1>1. Init => OnTime
  BY ProxyAssumption DEF Init
<1>2. Inv /\ OnTime /\ [Next]_vars => OnTime'
  <2> SUFFICES ASSUME Inv, OnTime, [Next]_vars PROVE OnTime'
    OBVIOUS
  <2>1. now' = now \/ Tick
    BY DEF Next, Start, RequestConsent, EstablishGrant, Consented, Send, OnCallTool,
           RefuseUngranted, Decide, Authorize, Execute, Answer, Cancel, TargetDies, Stop, vars,
           brokerVars
  <2> QED BY <2>1, ProxyAssumption DEF Tick, Inv, Shaped
<1>3. Inv /\ OnTime => TypeOK
  <2> SUFFICES ASSUME Inv, OnTime PROVE TypeOK
    OBVIOUS
  <2>1. now \in 0..MaxTime
    BY ProxyAssumption DEF Inv, Shaped
  <2>2. ASSUME grant # Nobody
        PROVE  /\ grant.capability.grant_id \in DOMAIN approved
               /\ VerifySignature(grant, IssuerKey)
    BY <2>2, Active DEF TokenFor, SignCapability, VerifySignature
  <2> QED BY <2>1, <2>2 DEF TypeOK, Inv, Shaped, LogTyped, Providers
<1> HIDE DEF OnTime
<1> QED BY Invariance, <1>1, <1>2, <1>3, PTL DEF Spec

(* The log alone tells by which scope each call was judged, across         *)
(* restarts and failed writes (issuer.py:52, proxy.py:155-162).            *)
THEOREM LogExplained == Spec => []LogExplainsItself
<1>1. Inv => LogExplainsItself
  BY DEF Inv
<1> QED BY Invariance, <1>1, PTL

(* The active grant's counter and the log agree, up to the errors, however *)
(* many calls and failed writes there are (broker.py:101, proxy.py:149-    *)
(* 162).                                                                   *)
THEOREM QuotaAgreesWithLog == Spec => []QuotaMatchesLog
<1>1. Inv => QuotaMatchesLog
  BY DEF Inv, Counted
<1> QED BY Invariance, <1>1, PTL

(* A call to a tool that is not pre-approved is let through only when a    *)
(* human said yes to that tool by name, or a policy run with --auto named  *)
(* it (consent.py:61-62, 79-85, proxy.py:247-252).                         *)
THEOREM WithheldNeedsAYes == Spec => []NothingWithheldByDefault
<1>1. Inv => NothingWithheldByDefault
  BY DEF Inv, LogJudged, Covers, ApprovedTyped, NothingWithheldByDefault
<1> QED BY Invariance, <1>1, PTL

(* A refusal under a grant has a reason in what was approved: the call is  *)
(* outside it by tool, rule or time, or the quota is used up.              *)
LEMMA RefusedOutside ==
    ASSUME Inv, NEW r \in Requests, OnCallTool(r), status'[r] = "refused", grant # Nobody,
           NEW g, g = grant.capability.grant_id
    PROVE  ~Promise!Within(calls[r], approved[g]) \/ quotaUsed[g] >= approved[g].quota
<1>1. PICK verdict : verdict = Verdict(grant, calls[r].tool, Audience, calls[r].arguments)
  OBVIOUS
<1>2. verdict \notin {"allow", "raise"}
  <2>1. status \in [Requests -> {"new"} \cup InFlight \cup Settled]
    BY DEF Inv, Shaped
  <2>2. ~Becomes(r, "error") /\ ~Forward(r)
    BY <2>1 DEF Becomes, Forward
  <2> QED BY <1>1, <2>2 DEF OnCallTool, RefuseUngranted, Decide
<1>3. g \in DOMAIN approved /\ g \in GrantIds /\ grant = TokenFor(g)
  BY Active
<1>4. grant.key_id = IssuerKeyId /\ VerifySignature(grant, IssuerKey)
  BY <1>3, TokenFields
<1>5. /\ grant.capability.grant_id = g
      /\ grant.capability.audience = Audience
      /\ grant.capability.tools = approved[g].tools
      /\ grant.capability.issued_at = approved[g].from
      /\ grant.capability.expires_at = approved[g].until
      /\ grant.capability.quota = approved[g].quota
      /\ grant.capability.argument_constraints = approved[g].rules
  BY <1>3, TokenFields
<1>6. /\ now \in Int /\ approved[g].from \in Int /\ approved[g].until \in Int
      /\ approved[g].quota \in Int /\ quotaUsed[g] \in Int
  BY <1>3 DEF Inv, Shaped, ApprovedTyped
<1>7. MatchArguments(calls[r].tool, calls[r].arguments, approved[g].rules) = "fail" =>
          ~RulesHold(calls[r].tool, calls[r].arguments, approved[g].rules)
  BY MatchPasses DEF RulesHold
<1>8. \/ now < approved[g].from
      \/ now >= approved[g].until
      \/ calls[r].tool \notin approved[g].tools
      \/ MatchArguments(calls[r].tool, calls[r].arguments, approved[g].rules) = "fail"
      \/ ~(quotaUsed[g] < approved[g].quota)
  BY <1>1, <1>2, <1>4, <1>5, RefusedMeans, ProxyAssumption DEF GetUsed
<1> QED BY <1>6, <1>7, <1>8 DEF Promise!Within

(* No call that lies within what was approved, and for which quota is      *)
(* left, is refused (proxy.py:119-129, 149-166; the converse of the        *)
(* promise).                                                               *)
THEOREM RefusalsAreDeserved == Spec => ApprovalHonoured
<1> DEFINE Deserved ==
        \A r \in Requests :
            status[r] = "sent" /\ status'[r] = "refused" /\ grant # Nobody =>
                LET g == grant.capability.grant_id
                IN  ~Promise!Within(calls[r], approved[g]) \/ quotaUsed[g] >= approved[g].quota
<1>1. Inv /\ Next => Deserved
  <2> SUFFICES ASSUME Inv, Next, NEW r \in Requests,
                      status[r] = "sent", status'[r] = "refused", grant # Nobody
               PROVE  LET g == grant.capability.grant_id
                      IN  \/ ~Promise!Within(calls[r], approved[g])
                          \/ quotaUsed[g] >= approved[g].quota
    OBVIOUS
  <2>1. OnCallTool(r)
    <3>1. status \in [Requests -> {"new"} \cup InFlight \cup Settled]
      BY DEF Inv, Shaped
    <3>2. status' # status
      OBVIOUS
    <3>3. \/ \E q \in Requests, call \in ToolCalls : Send(q, call)
          \/ \E q \in Requests : OnCallTool(q) \/ Answer(q) \/ Cancel(q)
          \/ Stop
      BY <3>2 DEF Next, Start, RequestConsent, EstablishGrant, Consented, Execute, TargetDies,
                  Tick, proxyVars
    <3>4. ASSUME NEW q \in Requests, OnCallTool(q) PROVE OnCallTool(r)
      <4>1. \E s : status' = [status EXCEPT ![q] = s]
        BY <3>4 DEF OnCallTool, RefuseUngranted, Decide, Becomes, Forward
      <4>2. q = r
        BY <3>1, <4>1
      <4> QED BY <3>4, <4>2
    <3>5. ~Stop /\ \A q \in Requests, call \in ToolCalls : ~Send(q, call)
      BY <3>1 DEF Stop, Send, InFlight
    <3>6. \A q \in Requests : ~Answer(q) /\ ~Cancel(q)
      BY <3>1 DEF Answer, Cancel, Becomes
    <3> QED BY <3>3, <3>4, <3>5, <3>6
  <2> QED BY <2>1, RefusedOutside
<1> QED BY Invariance, <1>1, PTL DEF Spec, ApprovalHonoured

=============================================================================
