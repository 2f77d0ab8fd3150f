------------------------------- MODULE Broker -------------------------------
(***************************************************************************)
(* The authorization engine (src/covenant/broker.py). Broker.authorize is  *)
(* one atomic step: it is synchronous, and the proxy runs it on a          *)
(* single-threaded event loop. Its only state is the quota store; the      *)
(* clock is the wall clock it reads.                                       *)
(***************************************************************************)
EXTENDS Capability

CONSTANTS
    GrantIds,      \* every grant_id a behaviour may use
    TrustedKeys    \* the trusted keystore: a function from key_id to key

VARIABLES
    now,           \* what Broker._clock() returns
    quotaUsed      \* InMemoryQuotaStore._used, 0 for an absent grant_id

brokerVars == <<now, quotaUsed>>

BrokerInit == quotaUsed = [g \in GrantIds |-> 0]

GetUsed(grantId) == quotaUsed[grantId]

(* Wrong on purpose: once more than the quota, and once less.              *)
QuotaLeftOffByOne(capability) == GetUsed(capability.grant_id) <= capability.quota

QuotaLeftOneShort(capability) == GetUsed(capability.grant_id) + 1 < capability.quota

QuotaLeft(capability) == GetUsed(capability.grant_id) < capability.quota

(* The outcome of authorize(): the checks in the order of the code, the    *)
(* first that fails deciding. "raise" is the ValueError of a rule with an  *)
(* unknown operator, which leaves authorize() before the quota is touched. *)
Verdict(token, tool, audience, arguments) ==
    LET cap     == token.capability
        matched == MatchArguments(tool, arguments, cap.argument_constraints)
    IN  IF token.key_id \notin DOMAIN TrustedKeys              THEN "signature"
        ELSE IF ~VerifySignature(token, TrustedKeys[token.key_id]) THEN "signature"
        ELSE IF now < cap.issued_at                            THEN "not_yet_valid"
        ELSE IF now >= cap.expires_at                          THEN "expired"
        ELSE IF audience # cap.audience                        THEN "audience"
        ELSE IF tool \notin cap.tools                          THEN "scope"
        ELSE IF matched = "raise"                              THEN "raise"
        ELSE IF matched = "fail"                               THEN "arguments"
        ELSE IF ~QuotaLeft(cap)                                THEN "quota"
        ELSE "allow"

(* Wrong on purpose: stores what remains of the quota, and forgets to count*)
IncrementDown(grantId) == quotaUsed' = [quotaUsed EXCEPT ![grantId] = @ - 1]

IncrementNothing(grantId) == UNCHANGED quotaUsed

Increment(grantId) == quotaUsed' = [quotaUsed EXCEPT ![grantId] = @ + 1]

(* authorize() as an action: the verdict it returns and the quota counter  *)
(* it leaves, incremented only on ALLOW.                                   *)
Authorize(token, tool, audience, arguments, verdict) ==
    /\ verdict = Verdict(token, tool, audience, arguments)
    /\ IF verdict = "allow" THEN Increment(token.capability.grant_id) ELSE UNCHANGED quotaUsed
    /\ UNCHANGED now
=============================================================================
