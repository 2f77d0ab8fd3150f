---------------------------- MODULE BrokerProofs -----------------------------
(***************************************************************************)
(* What a verdict of Broker.authorize says about the token and the call,   *)
(* whoever holds the token and however the checks are ordered.             *)
(***************************************************************************)
EXTENDS Broker, TLAPS

(* A call's arguments match exactly when every rule of its tool holds: the *)
(* loop of match_arguments (policy.py:81-90) has no other way to pass.     *)
LEMMA MatchPasses ==
    ASSUME NEW tool, NEW arguments, NEW constraints
    PROVE  /\ MatchArguments(tool, arguments, constraints) \in {"pass", "raise", "fail"}
           /\ MatchArguments(tool, arguments, constraints) = "pass" <=>
                \A i \in DOMAIN RulesFor(tool, constraints) :
                    RuleHolds(RulesFor(tool, constraints)[i], arguments)
  BY DEF MatchArguments

(* The checks an ALLOW has passed, whatever their order in authorize().    *)
LEMMA AllowedMeans ==
    ASSUME NEW token, NEW tool, NEW audience, NEW arguments,
           Verdict(token, tool, audience, arguments) = "allow"
    PROVE  /\ token.key_id \in DOMAIN TrustedKeys
           /\ VerifySignature(token, TrustedKeys[token.key_id])
           /\ ~(now < token.capability.issued_at)
           /\ ~(now >= token.capability.expires_at)
           /\ audience = token.capability.audience
           /\ tool \in token.capability.tools
           /\ MatchArguments(tool, arguments, token.capability.argument_constraints) = "pass"
           /\ GetUsed(token.capability.grant_id) < token.capability.quota
  BY MatchPasses DEF Verdict, QuotaLeft

(* A refusal means that the call is outside the token's scope, or that its *)
(* quota is used up (broker.py:76-100): no other check can fail.           *)
LEMMA RefusedMeans ==
    ASSUME NEW token, NEW tool, NEW audience, NEW arguments,
           Verdict(token, tool, audience, arguments) \notin {"allow", "raise"}
    PROVE  \/ token.key_id \notin DOMAIN TrustedKeys
           \/ ~VerifySignature(token, TrustedKeys[token.key_id])
           \/ now < token.capability.issued_at
           \/ now >= token.capability.expires_at
           \/ audience # token.capability.audience
           \/ tool \notin token.capability.tools
           \/ MatchArguments(tool, arguments, token.capability.argument_constraints) = "fail"
           \/ ~(GetUsed(token.capability.grant_id) < token.capability.quota)
  BY MatchPasses DEF Verdict, QuotaLeft

(* The words authorize() and the proxy put in the log as the reason.       *)
Reasons == {"no capability", "signature", "not_yet_valid", "expired", "audience", "scope",
            "arguments", "quota", "allow"}

(* A verdict is one of those words, or the exception.                      *)
LEMMA VerdictTyped ==
    ASSUME NEW token, NEW tool, NEW audience, NEW arguments
    PROVE  Verdict(token, tool, audience, arguments) \in Reasons \cup {"raise"}
  BY DEF Verdict, Reasons
=============================================================================
