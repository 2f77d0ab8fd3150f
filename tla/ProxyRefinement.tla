-------------------------- MODULE ProxyRefinement ---------------------------
(***************************************************************************)
(* Proxy implements Mediation: with the active grant read as the scope in  *)
(* force and the log's allowed calls as the requests admitted, every step  *)
(* of the proxy is a step of the promise, or no step at all.               *)
(***************************************************************************)
EXTENDS ProxyProofs

(* A request is admitted under the grant its entry in the log names: there *)
(* is one such entry, whichever CHOOSE finds (proxy.py:155-162).           *)
AdmittedByEntry ==
    \A i \in AllowEntries :
        /\ log[i].request \in AdmittedRequests
        /\ Admitted[log[i].request] = log[i].grant

(* It holds because no request is decided twice.                           *)
LEMMA EntryAdmits == Inv => AdmittedByEntry
<1> SUFFICES ASSUME Inv, NEW i \in AllowEntries
             PROVE  /\ log[i].request \in AdmittedRequests
                    /\ Admitted[log[i].request] = log[i].grant
  BY DEF AdmittedByEntry
<1> DEFINE j == CHOOSE k \in AllowEntries : log[k].request = log[i].request
<1>1. j \in AllowEntries /\ log[j].request = log[i].request
  OBVIOUS
<1>2. AllowEntries \subseteq DecisionEntries
  BY DEF AllowEntries
<1>3. j = i
  BY <1>1, <1>2 DEF Inv, LogJudged
<1> QED BY <1>3 DEF Admitted, AdmittedRequests

(* Mediation counts as this module does.                                   *)
LEMMA SameCardinality == \A S : Promise!Cardinality(S) = Cardinality(S)
  BY DEF Cardinality, Promise!Cardinality

(* The requests admitted under a grant are no more than its entries.       *)
LEMMA UsesCounted ==
    ASSUME Inv, NEW g
    PROVE  Cardinality(Promise!Uses(g)) \in Nat
           /\ Cardinality(Promise!Uses(g)) <= Cardinality(Allowed(g))
<1> DEFINE U == Promise!Uses(g)
           f == [q \in U |-> CHOOSE i \in AllowEntries : log[i].request = q]
<1>1. U = {q \in AdmittedRequests : Admitted[q] = g}
  BY DEF Promise!Uses, Admitted
<1>2. ASSUME NEW q \in U
      PROVE  f[q] \in Allowed(g) /\ log[f[q]].request = q
  <2>1. \E i \in AllowEntries : log[i].request = q
    BY <1>1 DEF AdmittedRequests
  <2>2. f[q] \in AllowEntries /\ log[f[q]].request = q
    BY <2>1
  <2>3. log[f[q]].grant = g
    BY <1>1, <2>2, EntryAdmits DEF AdmittedByEntry
  <2> QED BY <2>2, <2>3 DEF Allowed
<1> HIDE DEF U
<1>3. f \in [U -> Allowed(g)] /\ \A a, b \in U : f[a] = f[b] => a = b
  <2>1. DOMAIN f = U /\ f = [q \in DOMAIN f |-> f[q]]
    OBVIOUS
  <2> HIDE DEF f
  <2>2. f \in [U -> Allowed(g)]
    BY <1>2, <2>1
  <2>3. ASSUME NEW a \in U, NEW b \in U, f[a] = f[b] PROVE a = b
    BY <1>2, <2>3
  <2> QED BY <2>2, <2>3
<1>4. f \in Injection(U, Allowed(g))
  BY <1>3 DEF Injection, IsInjective
<1>5. IsFiniteSet(Allowed(g))
  BY Finite DEF Inv, LogTyped
<1>6. IsFiniteSet(U) /\ Cardinality(U) <= Cardinality(Allowed(g))
  BY <1>4, <1>5, FS_Injection
<1> QED BY <1>6, FS_CardinalityType DEF U

-----------------------------------------------------------------------------
(* The initial states.                                                     *)
LEMMA InitMapped == Init => Promise!MediationInit
<1> SUFFICES ASSUME Init PROVE Promise!MediationInit
  OBVIOUS
<1>1. AdmittedRequests = {}
  BY DEF Init, AdmittedRequests, AllowEntries, DecisionEntries
<1>2. Admitted = << >>
  BY <1>1 DEF Admitted
<1> QED BY <1>2 DEF Init, Promise!MediationInit, ActiveGrant

-----------------------------------------------------------------------------
(* Steps that the promise does not see, but for what they do to the        *)
(* executed calls, the clock or the grant.                                 *)
LEMMA SameLog == UNCHANGED log => UNCHANGED <<Admitted, AdmittedRequests>>
  BY DEF Admitted, AdmittedRequests, AllowEntries, DecisionEntries

(* A step that changes neither the grant in force nor what was admitted    *)
(* and executed is no step of the abstract specification.                  *)
LEMMA Unseen ==
    ASSUME UNCHANGED <<now, approved, grant, calls, log, executed>>
    PROVE  UNCHANGED Promise!mediationVars
  BY SameLog DEF Promise!mediationVars, ActiveGrant

(* Entries that let nothing through leave the admitted requests as they    *)
(* were.                                                                   *)
LEMMA SameAdmitted ==
    ASSUME Inv, AdmittedByEntry', AllowEntries' = AllowEntries,
           \A i \in AllowEntries : log'[i] = log[i]
    PROVE  UNCHANGED Admitted
<1>1. AdmittedRequests' = AdmittedRequests
  BY DEF AdmittedRequests
<1>2. ASSUME NEW q \in AdmittedRequests PROVE Admitted'[q] = Admitted[q]
  <2>1. PICK i \in AllowEntries : log[i].request = q
    BY DEF AdmittedRequests
  <2> QED BY <2>1, EntryAdmits DEF AdmittedByEntry
<1> QED BY <1>1, <1>2 DEF Admitted

(* Consent is the abstract grant, refusal or failure.                      *)
LEMMA GrantMapped ==
    ASSUME Inv, AdmittedByEntry', EstablishGrant
    PROVE  Promise!MediationNext \/ UNCHANGED Promise!mediationVars
<1>1. /\ UNCHANGED <<now, calls, executed>>
      /\ phase = "consenting" /\ Consented
  BY DEF EstablishGrant, Consented, brokerVars
<1>2. grant = Nobody
  BY <1>1 DEF Inv, Shaped
<1>3. PICK decision \in Outcomes(provider, asked) :
          ConsentRaises(decision) \/ Deny(decision) \/ Grant(decision)
  BY DEF EstablishGrant
<1>4. CASE ConsentRaises(decision) \/ Deny(decision)
  BY <1>1, <1>2, <1>4, Unseen DEF ConsentRaises, Deny
<1>5. CASE Grant(decision)
  <2>1. PICK g \in GrantIds \ DOMAIN approved :
            \/ /\ RecordGrant(g, decision)
               /\ grant' = Minted(g, decision)
               /\ phase' = "serving"
            \/ MintFails(g, decision)
    BY <1>5 DEF Grant
  <2>2. CASE MintFails(g, decision) /\ UNCHANGED <<log, approved>>
    BY <1>1, <2>2, Unseen DEF MintFails
  <2>3. CASE /\ RecordGrant(g, decision)
             /\ grant' = Minted(g, decision) \/ grant' = grant
    <3>1. provider \in Providers /\ asked \in Scopes
      BY <1>1 DEF Inv, Started
    <3>2. Faithful(decision, asked)
      BY <1>5, <3>1, ScopesTyped, OutcomesFaithful DEF Grant
    <3>3. /\ Minted(g, decision) # Nobody
          /\ Minted(g, decision).capability.grant_id = g
      BY <1>1, <3>2, MintedToken DEF Minted, SignCapability
    <3>4. ActiveGrant = Nobody /\ ActiveGrant' \in {g, Nobody}
      BY <1>2, <2>3, <3>3 DEF ActiveGrant
    <3>5. IssueEntry(g) \in Entries /\ Logged(IssueEntry(g)) /\ log \in Seq(Entries)
      BY <2>3 DEF Entries, RecordGrant, IssueEntry, Inv, LogTyped
    <3>6. AllowEntries' = AllowEntries /\ \A i \in AllowEntries : log'[i] = log[i]
      BY <3>5, Written DEF IssueEntry, AllowEntries, DecisionEntries
    <3>7. UNCHANGED Admitted
      BY <3>6, SameAdmitted
    <3>8. /\ DOMAIN approved' = DOMAIN approved \cup {g}
          /\ \A h \in DOMAIN approved : approved'[h] = approved[h]
          /\ approved'[g].from = now
      BY <2>3 DEF RecordGrant, Approved, Approval
    <3>9. Promise!Approve
      BY <1>1, <3>4, <3>7, <3>8 DEF Promise!Approve
    <3> QED BY <3>9 DEF Promise!MediationNext
  <2> QED BY <2>1, <2>2, <2>3 DEF MintFails
<1> QED BY <1>3, <1>4, <1>5

(* A decision is the abstract admission, or nothing.                       *)
LEMMA CallMapped ==
    ASSUME Inv, AdmittedByEntry', NEW r \in Requests, OnCallTool(r)
    PROVE  Promise!MediationNext \/ UNCHANGED Promise!mediationVars
<1>1. /\ UNCHANGED <<now, approved, grant, calls, executed>>
      /\ status[r] = "sent" /\ log \in Seq(Entries)
  BY DEF OnCallTool, RefuseUngranted, Decide, Authorize, brokerVars, Inv, LogTyped
<1>2. UNCHANGED ActiveGrant
  BY <1>1 DEF ActiveGrant
<1>3. CASE UNCHANGED log
  BY <1>1, <1>3, Unseen
<1>4. ASSUME NEW h \in GrantIds \cup {Nobody}, NEW reason \in Reasons,
             Logged(ToolCallEntry(r, h, "deny", reason))
      PROVE  UNCHANGED Promise!mediationVars
  <2>1. ToolCallEntry(r, h, "deny", reason) \in Entries
    BY DEF Entries, ToolCallEntry
  <2>2. AllowEntries' = AllowEntries /\ \A i \in AllowEntries : log'[i] = log[i]
    BY <1>1, <1>4, <2>1, Written DEF ToolCallEntry, AllowEntries, DecisionEntries
  <2>3. UNCHANGED Admitted
    BY <2>2, SameAdmitted
  <2> QED BY <1>1, <1>2, <2>3 DEF Promise!mediationVars
<1>5. CASE RefuseUngranted(r)
  <2>1. Logged(ToolCallEntry(r, Nobody, "deny", "no capability")) \/ UNCHANGED log
    BY <1>5 DEF RefuseUngranted, AppendRaises
  <2> QED BY <1>3, <1>4, <2>1 DEF Reasons
<1>6. CASE Decide(r)
  <2>1. PICK g : g = grant.capability.grant_id
    OBVIOUS
  <2>2. PICK verdict : verdict = Verdict(grant, calls[r].tool, Audience, calls[r].arguments)
    OBVIOUS
  <2>3. grant # Nobody
    BY <1>6 DEF Decide
  <2>4. g \in DOMAIN approved /\ g \in GrantIds /\ grant = TokenFor(g)
    BY <2>1, <2>3, Active
  <2>5. \/ UNCHANGED log
        \/ verdict \notin {"raise", "allow"} /\ Logged(ToolCallEntry(r, g, "deny", verdict))
        \/ verdict = "allow" /\ Logged(ToolCallEntry(r, g, "allow", verdict))
    BY <1>6, <2>1, <2>2 DEF Decide, AppendRaises
  <2>6. CASE verdict \notin {"raise", "allow"} /\ Logged(ToolCallEntry(r, g, "deny", verdict))
    <3>1. verdict \in Reasons
      BY <2>2, <2>6, VerdictTyped
    <3> QED BY <1>4, <2>4, <2>6, <3>1
  <2>7. CASE verdict = "allow" /\ Logged(ToolCallEntry(r, g, "allow", verdict))
    <3>1. /\ ~(now < approved[g].from) /\ ~(now >= approved[g].until)
          /\ calls[r].tool \in approved[g].tools
          /\ MatchArguments(calls[r].tool, calls[r].arguments, approved[g].rules) = "pass"
          /\ quotaUsed[g] < approved[g].quota
      BY <2>2, <2>4, <2>7, AllowedMeans, TokenFields DEF GetUsed
    <3>2. /\ now \in Int /\ approved[g].from \in Int /\ approved[g].until \in Int
          /\ approved[g].quota \in Int /\ quotaUsed[g] \in Int
      BY <2>4 DEF Inv, Shaped, ApprovedTyped
    <3>3. Promise!Within(calls[r], approved[g])
      <4>1. RulesHold(calls[r].tool, calls[r].arguments, approved[g].rules)
        BY <3>1, MatchPasses DEF RulesHold
      <4> QED BY <3>1, <3>2, <4>1 DEF Promise!Within
    <3>4. Cardinality(Promise!Uses(g)) < approved[g].quota
      <4>1. Cardinality(Allowed(g)) <= quotaUsed[g] /\ Cardinality(Allowed(g)) \in Nat
        BY <1>1, <2>1, <2>3, QuotaAgrees, Finite DEF Inv, Counted
      <4> QED BY <3>1, <3>2, <4>1, UsesCounted
    <3> DEFINE e == ToolCallEntry(r, g, "allow", verdict)
               n == Len(log) + 1
    <3>5. /\ e \in Entries /\ e.event = "tool_call" /\ e.decision = "allow"
          /\ e.grant = g /\ e.request = r
      BY <2>4, <2>7 DEF Entries, ToolCallEntry, Reasons
    <3> HIDE DEF e
    <3>6. /\ AllowEntries' = AllowEntries \cup {n}
          /\ \A i \in AllowEntries : log'[i] = log[i]
          /\ log'[n] = e
      BY <1>1, <2>7, <3>5, Written DEF AllowEntries, DecisionEntries, e
    <3> HIDE DEF n
    <3>7. AdmittedRequests' = AdmittedRequests \cup {r}
      BY <3>5, <3>6 DEF AdmittedRequests
    <3>8. Admitted'[r] = g
      BY <3>5, <3>6 DEF AdmittedByEntry
    <3>9. ASSUME NEW q \in AdmittedRequests PROVE Admitted'[q] = Admitted[q]
      <4>1. PICK i \in AllowEntries : log[i].request = q
        BY DEF AdmittedRequests
      <4> QED BY <3>6, <4>1, EntryAdmits DEF AdmittedByEntry
    <3>10. r \notin AdmittedRequests
      BY <1>1 DEF AdmittedRequests, AllowEntries, Inv, LogJudged
    <3>11. DOMAIN Admitted = AdmittedRequests /\ DOMAIN Admitted' = AdmittedRequests'
           /\ Admitted' = [q \in DOMAIN Admitted' |-> Admitted'[q]]
      BY DEF Admitted
    <3>12. Admitted' = [q \in DOMAIN Admitted \cup {r} |->
                           IF q = r THEN ActiveGrant ELSE Admitted[q]]
      <4>1. ActiveGrant = g
        BY <2>1, <2>3 DEF ActiveGrant
      <4> QED BY <3>7, <3>8, <3>9, <3>10, <3>11, <4>1
    <3>13. r \in DOMAIN calls \ DOMAIN Admitted
      BY <1>1, <3>10, <3>11 DEF Inv, Shaped
    <3>14. ActiveGrant = g /\ ActiveGrant # Nobody
      BY <2>1, <2>3, <2>4, ProxyAssumption DEF ActiveGrant
    <3>15. /\ Promise!Within(calls[r], approved[ActiveGrant])
           /\ Cardinality(Promise!Uses(ActiveGrant)) < approved[ActiveGrant].quota
      BY <3>3, <3>4, <3>14
    <3>16. Promise!Admit
      BY <1>1, <1>2, <3>12, <3>13, <3>14, <3>15, SameCardinality DEF Promise!Admit
    <3> QED BY <3>16 DEF Promise!MediationNext
  <2> QED BY <1>3, <2>5, <2>6, <2>7
<1> QED BY <1>5, <1>6 DEF OnCallTool

(* Every step of the proxy is a step of the promise, or none.              *)
LEMMA StepMapped ==
    Inv /\ AdmittedByEntry' /\ [Next]_vars =>
        [Promise!MediationNext]_(Promise!mediationVars)
<1> SUFFICES ASSUME Inv, AdmittedByEntry', [Next]_vars
             PROVE  Promise!MediationNext \/ UNCHANGED Promise!mediationVars
  OBVIOUS
<1>1. ASSUME Start \/ (\E available \in OfferedTools : RequestConsent(available)) \/ TargetDies
             \/ (\E r \in Requests : Answer(r) \/ Cancel(r)) \/ UNCHANGED vars
      PROVE  UNCHANGED Promise!mediationVars
  BY <1>1, Unseen DEF Start, RequestConsent, TargetDies, Answer, Cancel, vars, brokerVars,
                      proxyVars
<1>2. ASSUME NEW r \in Requests, NEW call, Send(r, call) PROVE Promise!Ask
  <2>1. UNCHANGED <<now, approved, ActiveGrant, Admitted, executed>>
    BY <1>2, SameLog DEF Send, brokerVars, ActiveGrant
  <2>2. /\ r \in Requests \ DOMAIN calls
        /\ DOMAIN calls' = DOMAIN calls \cup {r}
        /\ \A q \in DOMAIN calls : calls'[q] = calls[q]
    BY <1>2 DEF Send, Inv, Shaped
  <2> QED BY <2>1, <2>2 DEF Promise!Ask
<1>3. ASSUME NEW r \in Requests, Execute(r)
      PROVE  Promise!Execute \/ UNCHANGED Promise!mediationVars
  <2>1. UNCHANGED <<now, approved, calls, ActiveGrant, Admitted>>
        /\ r \in inbox /\ executed' = executed \cup {r}
    BY <1>3, SameLog DEF Execute, brokerVars, ActiveGrant
  <2>2. r \in DOMAIN Admitted
    BY <2>1 DEF Inv, OnlyAdmitted, Admitted
  <2>3. CASE r \in executed
    BY <2>1, <2>3 DEF Promise!mediationVars
  <2>4. CASE r \notin executed
    BY <2>1, <2>2, <2>4 DEF Promise!Execute
  <2> QED BY <2>3, <2>4
<1>4. Stop => Promise!Revoke
  BY SameLog DEF Stop, Promise!Revoke, ActiveGrant
<1>5. Tick => Promise!Pass
  BY SameLog DEF Tick, Promise!Pass, proxyVars, ActiveGrant, Inv, Shaped
<1> QED BY <1>1, <1>2, <1>3, <1>4, <1>5, GrantMapped, CallMapped
        DEF Next, Promise!MediationNext

(* The proxy keeps the promise of Mediation, for any number of requests,   *)
(* grants, sessions, tools and rules (proxy.py:104-169).                   *)
THEOREM ProxyKeepsPromise == Spec => PromiseKept
<1>1. Inv => AdmittedByEntry
  BY EntryAdmits
<1> QED BY Invariance, InitMapped, <1>1, StepMapped, PTL DEF Spec, PromiseKept, Promise!MediationSpec
=============================================================================
