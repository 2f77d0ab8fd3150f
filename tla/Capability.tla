----------------------------- MODULE Capability -----------------------------
(***************************************************************************)
(* Capability tokens (src/covenant/capability.py): the claim, its signed   *)
(* form, and attenuation.                                                  *)
(*                                                                         *)
(* canonical_bytes() is an injective encoding of the claim, so the claim   *)
(* itself stands for it; an Ed25519 signature is the pair of the signing   *)
(* key and the claim signed. Times are seconds; quotas and TTLs are what   *)
(* a human typed, any integer.                                             *)
(***************************************************************************)
EXTENDS Policy

CONSTANTS NoParent, Inherit

SignCapability(capability, key, keyId) ==
    [capability |-> capability,
     signature  |-> [key |-> key, over |-> capability],
     key_id     |-> keyId]

(* Wrong on purpose: believes whatever key signed the token.               *)
VerifyAnyKey(token, trustedKey) ==
    token.signature.over = token.capability

VerifySignature(token, trustedKey) ==
    token.signature = [key |-> trustedKey, over |-> token.capability]

(***************************************************************************)
(* attenuate(): `narrow` holds the keyword arguments of the call; its      *)
(* `constraints` are Inherit when the caller passes none.                  *)
(***************************************************************************)
(* Wrong on purpose: looks for rules the child adds, not for those it      *)
(* lacks.                                                                  *)
DropsRuleReversed(parent, narrow) ==
    /\ narrow.constraints # Inherit
    /\ \E t \in DOMAIN parent.argument_constraints \cap narrow.tools :
          \E i \in DOMAIN RulesFor(t, narrow.constraints) :
             \A j \in DOMAIN parent.argument_constraints[t] :
                RulesFor(t, narrow.constraints)[i] # parent.argument_constraints[t][j]

DropsRule(parent, narrow) ==
    /\ narrow.constraints # Inherit
    /\ \E t \in DOMAIN parent.argument_constraints \cap narrow.tools :
          \E i \in DOMAIN parent.argument_constraints[t] :
             \A j \in DOMAIN RulesFor(t, narrow.constraints) :
                RulesFor(t, narrow.constraints)[j] # parent.argument_constraints[t][i]

AttenuateRefuses(parent, narrow) ==
    \/ ~(narrow.tools \subseteq parent.tools)
    \/ narrow.expires_at > parent.expires_at
    \/ narrow.quota > parent.quota
    \/ DropsRule(parent, narrow)

ChildConstraints(parent, narrow) ==
    IF narrow.constraints = Inherit
    THEN [t \in DOMAIN parent.argument_constraints \cap narrow.tools |->
            parent.argument_constraints[t]]
    ELSE narrow.constraints

Attenuated(parent, narrow) ==
    [grant_id             |-> narrow.grant_id,
     audience             |-> parent.audience,
     tools                |-> narrow.tools,
     issued_at            |-> narrow.issued_at,
     expires_at           |-> narrow.expires_at,
     quota                |-> narrow.quota,
     parent_grant_id      |-> parent.grant_id,
     argument_constraints |-> ChildConstraints(parent, narrow)]

-----------------------------------------------------------------------------
(***************************************************************************)
(* What a claim permits, quota aside: the reading of a capability that     *)
(* Broker.authorize must enforce and that attenuation must not widen.      *)
(***************************************************************************)
Permits(capability, tool, audience, arguments, time) ==
    /\ capability.issued_at <= time
    /\ time < capability.expires_at
    /\ audience = capability.audience
    /\ tool \in capability.tools
    /\ MatchArguments(tool, arguments, capability.argument_constraints) = "pass"
=============================================================================
