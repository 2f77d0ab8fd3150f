----------------------------- MODULE Delegation -----------------------------
(***************************************************************************)
(* The life of capability tokens: the issuer mints roots                   *)
(* (src/covenant/issuer.py), holders attenuate them (capability.py) and    *)
(* anybody presents tokens, intact or edited since, to one broker          *)
(* (broker.py).                                                            *)
(*                                                                         *)
(* The history variables `spent` and `lineage` only record: what the       *)
(* issuer's key has signed, how many calls were allowed under each claim,  *)
(* and which claims were narrowed from which.                              *)
(***************************************************************************)
EXTENDS Broker

CONSTANTS
    Tools, Audiences, KeyIds,
    Arguments,          \* the argument dicts a call may carry
    MintRequests,       \* keyword arguments mint() may be called with
    Narrowings,         \* keyword arguments attenuate() may be called with
    IssuerKey, IssuerKeyId,
    ForeignKeys,        \* signing keys the keystore does not hold
    MaxTime, MaxIssued  \* bounds: the last second, the number of claims signed

ASSUME KeystoreAssumption ==
    /\ IssuerKeyId \in DOMAIN TrustedKeys
    /\ TrustedKeys[IssuerKeyId] = IssuerKey
    /\ \A k \in DOMAIN TrustedKeys : TrustedKeys[k] \notin ForeignKeys

ASSUME RequestAssumption ==
    /\ NoParent \notin GrantIds
    /\ \A m \in MintRequests : m.ttl_seconds \in Int /\ m.quota \in Int
    /\ \A n \in Narrowings :
          /\ n.grant_id \in GrantIds
          /\ n.quota \in Int /\ n.expires_at \in Int /\ n.issued_at \in Int

VARIABLES
    tokens,     \* the signed capabilities in circulation
    spent,      \* for each claim the issuer's key signed: calls allowed under it
    lineage     \* pairs <<descendant, ancestor>> of claims

vars == <<now, quotaUsed, tokens, spent, lineage>>

Issued == DOMAIN spent

Init ==
    /\ BrokerInit
    /\ now = 0
    /\ tokens = {}
    /\ spent = << >>
    /\ lineage = {}

(* Recording a claim the issuer's key has just signed, with its ancestors. *)
Record(token, ancestors) ==
    /\ tokens' = tokens \cup {token}
    /\ spent' = [c \in Issued \cup {token.capability} |->
                    IF c \in Issued THEN spent[c] ELSE 0]
    /\ lineage' = lineage \cup {<<token.capability, a>> : a \in ancestors}
    /\ UNCHANGED <<now, quotaUsed>>

MayIssue == Cardinality(Issued) < MaxIssued

(* Issuer.mint draws a random grant id, so never one already in use.       *)
MintedCapability(request, grantId) ==
    [grant_id             |-> grantId,
     audience             |-> request.audience,
     tools                |-> request.tools,
     issued_at            |-> now,
     expires_at           |-> now + request.ttl_seconds,
     quota                |-> request.quota,
     parent_grant_id      |-> NoParent,
     argument_constraints |-> request.constraints]

Mint(request) ==
    /\ MayIssue
    /\ \E g \in GrantIds \ {c.grant_id : c \in Issued} :
          Record(SignCapability(MintedCapability(request, g), IssuerKey, IssuerKeyId), {})

(* attenuate() leaves the choice of the child's grant id, and of the time  *)
(* it becomes valid, to its caller.                                        *)
Attenuate(parent, narrow) ==
    /\ MayIssue
    /\ ~AttenuateRefuses(parent.capability, narrow)
    /\ Record(SignCapability(Attenuated(parent.capability, narrow), IssuerKey, IssuerKeyId),
              {parent.capability} \cup
                  {a \in Issued : <<parent.capability, a>> \in lineage})

MoreQuota(capability) == [capability EXCEPT !.quota = @ + 1]

(* A token comes to the broker as issued, with its claim edited, with      *)
(* another key id, or edited and signed again by a key of somebody else.   *)
Presentable ==
    tokens
    \cup {[t EXCEPT !.capability.tools = Tools] : t \in tokens}
    \cup {[t EXCEPT !.capability = MoreQuota(@)] : t \in tokens}
    \cup {[t EXCEPT !.key_id = k] : t \in tokens, k \in KeyIds}
    \cup {SignCapability(MoreQuota(t.capability), f, k) :
              t \in tokens, f \in ForeignKeys, k \in KeyIds}

Call(token, tool, audience, arguments) ==
    \E verdict \in {Verdict(token, tool, audience, arguments)} :
        /\ Authorize(token, tool, audience, arguments, verdict)
        /\ spent' = IF verdict = "allow"
                    THEN [spent EXCEPT ![token.capability] = @ + 1] ELSE spent
        /\ UNCHANGED <<tokens, lineage>>

(* The broker reads the wall clock, which may also be set, forward or back.*)
Tick ==
    /\ now' \in 0..MaxTime
    /\ UNCHANGED <<quotaUsed, tokens, spent, lineage>>

Next ==
    \/ Tick
    \/ \E m \in MintRequests : Mint(m)
    \/ \E t \in tokens, n \in Narrowings : Attenuate(t, n)
    \/ \E t \in Presentable, tool \in Tools, audience \in Audiences, a \in Arguments :
          Call(t, tool, audience, a)

Spec == Init /\ [][Next]_vars

-----------------------------------------------------------------------------
(* Every variable keeps the shape the rest of the module relies on; claims *)
(* carry integer times and quotas.                                         *)
TypeOK ==
    /\ now \in Int
    /\ quotaUsed \in [GrantIds -> Nat]
    /\ spent \in [Issued -> Nat]
    /\ \A c \in Issued :
          /\ c.grant_id \in GrantIds
          /\ c.quota \in Int /\ c.issued_at \in Int /\ c.expires_at \in Int
    /\ lineage \subseteq Issued \X Issued
    /\ \A t \in tokens : t.capability \in Issued

(* No claim is ever used more often than its quota says, whatever other    *)
(* claims share its grant id and however its token was presented: quota    *)
(* check of authorize() (broker.py:97-101).                                *)
QuotaRespected == \A c \in Issued : spent[c] <= IF c.quota < 0 THEN 0 ELSE c.quota

(* A call is allowed only under a claim the issuer's key signed, to the    *)
(* letter: the reason authorize() resolves key_id in the trusted keystore  *)
(* instead of believing the token (broker.py:73-79).                       *)
OnlyIssuedAllowed ==
    \A t \in Presentable, tool \in Tools, audience \in Audiences, a \in Arguments :
        Verdict(t, tool, audience, a) = "allow" => t.capability \in Issued

(* What the broker would allow under an attenuated claim, every ancestor   *)
(* of the claim permits, as to audience, tool, arguments and expiry:       *)
(* delegation never widens what was granted (capability.py:151-172).       *)
WithinAncestors ==
    \A t \in tokens, tool \in Tools, audience \in Audiences, a \in Arguments :
        Verdict(t, tool, audience, a) = "allow" =>
            \A c \in Issued : <<t.capability, c>> \in lineage =>
                Permits([c EXCEPT !.issued_at = t.capability.issued_at],
                        tool, audience, a, now)

(* The same, as to the start of the ancestor's validity too.               *)
NeverWidens ==
    \A t \in tokens, tool \in Tools, audience \in Audiences, a \in Arguments :
        Verdict(t, tool, audience, a) = "allow" =>
            \A c \in Issued : <<t.capability, c>> \in lineage =>
                Permits(c, tool, audience, a, now)
=============================================================================
