-------------------------- MODULE DelegationProofs --------------------------
(***************************************************************************)
(* What Delegation guarantees for every keystore, tool, rule, request and  *)
(* bound: types, quotas, authenticity, and that delegation only narrows.   *)
(***************************************************************************)
EXTENDS Delegation, BrokerProofs

-----------------------------------------------------------------------------
(* One claim asks no more than another: same server, fewer tools, no more  *)
(* uses, no later end, and at least the rules the other has for those tools*)
Narrower(d, a) ==
    /\ d.audience = a.audience
    /\ d.tools \subseteq a.tools
    /\ d.quota <= a.quota
    /\ d.expires_at <= a.expires_at
    /\ \A t \in d.tools : \A i \in DOMAIN RulesFor(t, a.argument_constraints) :
          \E j \in DOMAIN RulesFor(t, d.argument_constraints) :
              RulesFor(t, d.argument_constraints)[j] = RulesFor(t, a.argument_constraints)[i]

(* A claim attenuate() does not refuse to sign is narrower than the one it *)
(* is derived from (capability.py:154-172).                                *)
THEOREM AttenuationNarrows ==
    ASSUME NEW parent, NEW narrow,
           parent.expires_at \in Int, narrow.expires_at \in Int,
           parent.quota \in Int, narrow.quota \in Int,
           ~AttenuateRefuses(parent, narrow)
    PROVE  Narrower(Attenuated(parent, narrow), parent)
<1> DEFINE child == Attenuated(parent, narrow)
<1>1. /\ child.audience = parent.audience
      /\ child.tools = narrow.tools
      /\ child.quota = narrow.quota
      /\ child.expires_at = narrow.expires_at
      /\ child.argument_constraints = ChildConstraints(parent, narrow)
  BY DEF Attenuated
<1>2. /\ narrow.tools \subseteq parent.tools
      /\ narrow.quota <= parent.quota
      /\ narrow.expires_at <= parent.expires_at
  BY DEF AttenuateRefuses
<1>3. ASSUME NEW t \in narrow.tools,
             NEW i \in DOMAIN RulesFor(t, parent.argument_constraints)
      PROVE  \E j \in DOMAIN RulesFor(t, ChildConstraints(parent, narrow)) :
                 RulesFor(t, ChildConstraints(parent, narrow))[j]
                   = RulesFor(t, parent.argument_constraints)[i]
  <2>1. /\ t \in DOMAIN parent.argument_constraints
        /\ RulesFor(t, parent.argument_constraints) = parent.argument_constraints[t]
    BY <1>3 DEF RulesFor
  <2>2. CASE narrow.constraints = Inherit
    <3>1. RulesFor(t, ChildConstraints(parent, narrow)) = parent.argument_constraints[t]
      BY <2>1, <2>2 DEF ChildConstraints, RulesFor
    <3> QED BY <2>1, <3>1
  <2>3. CASE narrow.constraints # Inherit
    <3>1. ChildConstraints(parent, narrow) = narrow.constraints
      BY <2>3 DEF ChildConstraints
    <3>2. ~DropsRule(parent, narrow)
      BY DEF AttenuateRefuses
    <3> QED BY <2>1, <2>3, <3>1, <3>2 DEF DropsRule
  <2> QED BY <2>2, <2>3
<1> QED BY <1>1, <1>2, <1>3 DEF Narrower

(* Narrowing composes along a chain of delegations.                        *)
LEMMA NarrowerTransitive ==
    ASSUME NEW a, NEW b, NEW c,
           a.expires_at \in Int, b.expires_at \in Int, c.expires_at \in Int,
           a.quota \in Int, b.quota \in Int, c.quota \in Int,
           Narrower(c, b), Narrower(b, a)
    PROVE  Narrower(c, a)
  BY DEF Narrower

(* What a narrower claim lets pass, the other would too.                   *)
LEMMA NarrowerMatches ==
    ASSUME NEW a, NEW d, Narrower(d, a), NEW tool \in d.tools, NEW arguments,
           MatchArguments(tool, arguments, d.argument_constraints) = "pass"
    PROVE  MatchArguments(tool, arguments, a.argument_constraints) = "pass"
<1>1. \A j \in DOMAIN RulesFor(tool, d.argument_constraints) :
          RuleHolds(RulesFor(tool, d.argument_constraints)[j], arguments)
  BY MatchPasses
<1>2. \A i \in DOMAIN RulesFor(tool, a.argument_constraints) :
          RuleHolds(RulesFor(tool, a.argument_constraints)[i], arguments)
  BY <1>1 DEF Narrower
<1> QED BY <1>2, MatchPasses

-----------------------------------------------------------------------------
(* Adding one at a point keeps a function into Nat such a function.        *)
LEMMA BumpTyped ==
    ASSUME NEW S, NEW f \in [S -> Nat], NEW x
    PROVE  [f EXCEPT ![x] = @ + 1] \in [S -> Nat]
<1>1. CASE x \in S
  BY <1>1
<1>2. CASE x \notin S
  <2>1. [f EXCEPT ![x] = @ + 1] = f
    BY <1>2
  <2> QED BY <2>1
<1> QED BY <1>1, <1>2

(* What recording a signed claim leaves behind.                            *)
LEMMA Recorded ==
    ASSUME NEW c, NEW ancestors,
           Record(SignCapability(c, IssuerKey, IssuerKeyId), ancestors)
    PROVE  /\ Issued' = Issued \cup {c}
           /\ spent' = [d \in Issued \cup {c} |-> IF d \in Issued THEN spent[d] ELSE 0]
           /\ tokens' = tokens \cup {SignCapability(c, IssuerKey, IssuerKeyId)}
           /\ SignCapability(c, IssuerKey, IssuerKeyId).capability = c
           /\ lineage' = lineage \cup {<<c, a>> : a \in ancestors}
           /\ UNCHANGED <<now, quotaUsed>>
<1>1. SignCapability(c, IssuerKey, IssuerKeyId).capability = c
  BY DEF SignCapability
<1>2. spent' = [d \in Issued \cup {c} |-> IF d \in Issued THEN spent[d] ELSE 0]
  BY <1>1 DEF Record
<1> QED BY <1>1, <1>2 DEF Record, Issued

(* TypeOK is kept by signing a well-formed claim.                          *)
LEMMA RecordTyped ==
    ASSUME TypeOK, NEW c, NEW ancestors \in SUBSET Issued,
           Record(SignCapability(c, IssuerKey, IssuerKeyId), ancestors),
           c.grant_id \in GrantIds,
           c.quota \in Int, c.issued_at \in Int, c.expires_at \in Int
    PROVE  TypeOK'
<1>1. /\ Issued' = Issued \cup {c}
      /\ spent' = [d \in Issued \cup {c} |-> IF d \in Issued THEN spent[d] ELSE 0]
      /\ tokens' = tokens \cup {SignCapability(c, IssuerKey, IssuerKeyId)}
      /\ SignCapability(c, IssuerKey, IssuerKeyId).capability = c
      /\ lineage' = lineage \cup {<<c, a>> : a \in ancestors}
      /\ UNCHANGED <<now, quotaUsed>>
  BY Recorded
<1>2. spent' \in [Issued' -> Nat]
  BY <1>1 DEF TypeOK
<1>3. \A d \in Issued' :
         /\ d.grant_id \in GrantIds
         /\ d.quota \in Int /\ d.issued_at \in Int /\ d.expires_at \in Int
  BY <1>1 DEF TypeOK
<1>4. lineage' \subseteq Issued' \X Issued'
  BY <1>1 DEF TypeOK
<1>5. \A t \in tokens' : t.capability \in Issued'
  BY <1>1 DEF TypeOK
<1>6. now' \in Int /\ quotaUsed' \in [GrantIds -> Nat]
  BY <1>1 DEF TypeOK
<1> QED BY <1>2, <1>3, <1>4, <1>5, <1>6 DEF TypeOK

(* TypeOK holds before anything is minted.                                 *)
LEMMA TypeInit == Init => TypeOK
  BY DEF Init, BrokerInit, TypeOK, Issued

(* TypeOK is kept by every step.                                           *)
LEMMA TypeStep == TypeOK /\ [Next]_vars => TypeOK'
<1> SUFFICES ASSUME TypeOK, [Next]_vars PROVE TypeOK'
  OBVIOUS
<1>1. CASE Tick
  BY <1>1 DEF Tick, TypeOK, Issued
<1>2. ASSUME NEW m \in MintRequests, Mint(m) PROVE TypeOK'
  <2>1. PICK g \in GrantIds :
           Record(SignCapability(MintedCapability(m, g), IssuerKey, IssuerKeyId), {})
    BY <1>2 DEF Mint
  <2> DEFINE c == MintedCapability(m, g)
  <2>3. Record(SignCapability(c, IssuerKey, IssuerKeyId), {})
    BY <2>1
  <2>2. /\ c.grant_id \in GrantIds
        /\ c.quota \in Int /\ c.issued_at \in Int /\ c.expires_at \in Int
    BY RequestAssumption DEF MintedCapability, TypeOK
  <2> HIDE DEF c
  <2> QED BY <2>2, <2>3, RecordTyped
<1>3. ASSUME NEW t \in tokens, NEW n \in Narrowings, Attenuate(t, n) PROVE TypeOK'
  <2> DEFINE c == Attenuated(t.capability, n)
  <2>1. Record(SignCapability(c, IssuerKey, IssuerKeyId),
               {t.capability} \cup {a \in Issued : <<t.capability, a>> \in lineage})
    BY <1>3 DEF Attenuate
  <2>2. /\ c.grant_id \in GrantIds
        /\ c.quota \in Int /\ c.issued_at \in Int /\ c.expires_at \in Int
    BY RequestAssumption DEF Attenuated
  <2>3. t.capability \in Issued
    BY DEF TypeOK
  <2> HIDE DEF c
  <2> QED BY <2>1, <2>2, <2>3, RecordTyped
<1>4. ASSUME NEW t \in Presentable, NEW tool \in Tools, NEW audience \in Audiences,
             NEW a \in Arguments, Call(t, tool, audience, a)
      PROVE  TypeOK'
  <2> DEFINE v == Verdict(t, tool, audience, a)
  <2>1. /\ quotaUsed' = IF v = "allow"
                        THEN [quotaUsed EXCEPT ![t.capability.grant_id] = @ + 1]
                        ELSE quotaUsed
        /\ spent' = IF v = "allow" THEN [spent EXCEPT ![t.capability] = @ + 1] ELSE spent
        /\ UNCHANGED <<now, tokens, lineage>>
    BY <1>4 DEF Call, Authorize, Increment
  <2> HIDE DEF v
  <2> DEFINE S == Issued
  <2>2. spent \in [S -> Nat] /\ quotaUsed \in [GrantIds -> Nat]
    BY DEF TypeOK
  <2> HIDE DEF S
  <2>3. spent' \in [S -> Nat]
    BY <2>1, <2>2, BumpTyped
  <2>4. quotaUsed' \in [GrantIds -> Nat]
    BY <2>1, <2>2, BumpTyped
  <2>5. Issued' = Issued /\ S = Issued
    BY <2>1, <2>2, <2>3 DEF Issued, S
  <2> QED BY <2>1, <2>3, <2>4, <2>5 DEF TypeOK
<1>5. CASE UNCHANGED vars
  BY <1>5 DEF vars, TypeOK, Issued
<1> QED BY <1>1, <1>2, <1>3, <1>4, <1>5 DEF Next

(* The shape of the state is an invariant.                                 *)
THEOREM TypeCorrect == Spec => []TypeOK
  BY TypeInit, TypeStep, PTL DEF Spec

-----------------------------------------------------------------------------
(* A token in circulation is what the issuer signed, unedited.             *)
Genuine == \A t \in tokens : \E c \in Issued : t = SignCapability(c, IssuerKey, IssuerKeyId)

(* Whatever is presented, only a signed claim can be allowed.              *)
LEMMA AllowedIsIssued ==
    ASSUME Genuine, NEW t \in Presentable, NEW tool, NEW audience, NEW a,
           Verdict(t, tool, audience, a) = "allow"
    PROVE  t.capability \in Issued
<1>1. /\ t.key_id \in DOMAIN TrustedKeys
      /\ t.signature.key = TrustedKeys[t.key_id]
      /\ t.signature.over = t.capability
  <2>1. /\ t.key_id \in DOMAIN TrustedKeys
        /\ VerifySignature(t, TrustedKeys[t.key_id])
    BY AllowedMeans
  <2> QED BY <2>1 DEF VerifySignature
<1>2. CASE t \in tokens
  BY <1>2 DEF Genuine, SignCapability
<1>3. CASE t \in {[u EXCEPT !.capability.tools = Tools] : u \in tokens}
  <2>1. PICK u \in tokens : t = [u EXCEPT !.capability.tools = Tools]
    BY <1>3
  <2>2. PICK c \in Issued : u = SignCapability(c, IssuerKey, IssuerKeyId)
    BY DEF Genuine
  <2>3. t.signature = u.signature
    BY <2>1, <2>2 DEF SignCapability
  <2>4. u.signature.over = c
    BY <2>2 DEF SignCapability
  <2> QED BY <1>1, <2>3, <2>4
<1>4. CASE t \in {[u EXCEPT !.capability = MoreQuota(@)] : u \in tokens}
  <2>1. PICK u \in tokens : t.signature = u.signature
    BY <1>4 DEF Genuine, SignCapability
  <2>2. PICK c \in Issued : u = SignCapability(c, IssuerKey, IssuerKeyId)
    BY DEF Genuine
  <2>3. u.signature.over = c
    BY <2>2 DEF SignCapability
  <2> QED BY <1>1, <2>1, <2>3
<1>5. CASE t \in {[u EXCEPT !.key_id = k] : u \in tokens, k \in KeyIds}
  BY <1>5 DEF Genuine, SignCapability
<1>6. CASE t \in {SignCapability(MoreQuota(u.capability), f, k) :
                      u \in tokens, f \in ForeignKeys, k \in KeyIds}
  BY <1>1, <1>6, KeystoreAssumption DEF SignCapability
<1> QED BY <1>2, <1>3, <1>4, <1>5, <1>6 DEF Presentable

(* Genuine is kept by every step.                                          *)
LEMMA GenuineStep == TypeOK /\ Genuine /\ [Next]_vars => Genuine'
<1> SUFFICES ASSUME TypeOK, Genuine, [Next]_vars PROVE Genuine'
  OBVIOUS
<1>1. ASSUME NEW c, NEW ancestors,
             Record(SignCapability(c, IssuerKey, IssuerKeyId), ancestors)
      PROVE  Genuine'
  BY <1>1, Recorded DEF Genuine
<1>2. ASSUME Issued' = Issued, tokens' = tokens PROVE Genuine'
  BY <1>2 DEF Genuine, SignCapability
<1>3. ASSUME NEW t \in Presentable, NEW tool \in Tools, NEW audience \in Audiences,
             NEW a \in Arguments, Call(t, tool, audience, a)
      PROVE  Genuine'
  BY <1>2, <1>3 DEF Call, Issued, TypeOK
<1>4. CASE Tick \/ UNCHANGED vars
  BY <1>2, <1>4 DEF Tick, vars, Issued
<1> QED BY <1>1, <1>3, <1>4 DEF Next, Mint, Attenuate

(* OnlyIssuedAllowed for every keystore and every request.                 *)
THEOREM Authenticity == Spec => []OnlyIssuedAllowed
<1>1. Init => Genuine
  BY DEF Init, Genuine
<1>2. Genuine => OnlyIssuedAllowed
  BY AllowedIsIssued DEF OnlyIssuedAllowed
<1> QED BY <1>1, <1>2, GenuineStep, TypeCorrect, PTL DEF Spec

-----------------------------------------------------------------------------
(* QuotaRespected alone is not inductive: the check compares the quota to  *)
(* the counter of the grant id, which several claims may share, so the     *)
(* calls allowed under each claim must also be bounded by that counter.    *)
SpentCounted == \A c \in Issued : spent[c] <= quotaUsed[c.grant_id]

QuotaCounts == SpentCounted /\ QuotaRespected

QuotaInv == TypeOK /\ Genuine /\ QuotaCounts

(* Signing a claim leaves the counters alone.                              *)
LEMMA QuotaRecord ==
    ASSUME QuotaInv, NEW c, NEW ancestors,
           Record(SignCapability(c, IssuerKey, IssuerKeyId), ancestors),
           c.grant_id \in GrantIds, c.quota \in Int
    PROVE  QuotaCounts'
<1>1. /\ Issued' = Issued \cup {c}
      /\ spent' = [d \in Issued \cup {c} |-> IF d \in Issued THEN spent[d] ELSE 0]
      /\ quotaUsed' = quotaUsed
  BY Recorded
<1>2. \A d \in Issued : spent'[d] = spent[d]
  BY <1>1
<1>3. c \notin Issued => spent'[c] = 0
  BY <1>1
<1>4. quotaUsed[c.grant_id] \in Nat
  BY DEF QuotaInv, TypeOK
<1>5. SpentCounted'
  BY <1>1, <1>2, <1>3, <1>4 DEF QuotaInv, QuotaCounts, SpentCounted
<1>6. QuotaRespected'
  BY <1>1, <1>2, <1>3 DEF QuotaInv, QuotaCounts, QuotaRespected
<1> QED BY <1>5, <1>6 DEF QuotaCounts

(* A call counts one use, and only below the quota.                        *)
LEMMA QuotaCall ==
    ASSUME QuotaInv, NEW t \in Presentable, NEW tool, NEW audience, NEW a,
           Call(t, tool, audience, a)
    PROVE  QuotaCounts'
<1> DEFINE v == Verdict(t, tool, audience, a)
           cap == t.capability
<1>1. /\ quotaUsed' = IF v = "allow"
                      THEN [quotaUsed EXCEPT ![cap.grant_id] = @ + 1] ELSE quotaUsed
      /\ spent' = IF v = "allow" THEN [spent EXCEPT ![cap] = @ + 1] ELSE spent
  BY DEF Call, Authorize, Increment
<1>2. CASE v # "allow"
  BY <1>1, <1>2 DEF QuotaInv, QuotaCounts, SpentCounted, QuotaRespected, Issued
<1>3. CASE v = "allow"
  <2>1. cap \in Issued
    BY <1>3, AllowedIsIssued DEF QuotaInv
  <2>2. quotaUsed[cap.grant_id] < cap.quota
    BY <1>3, AllowedMeans DEF GetUsed
  <2>3. /\ cap.grant_id \in GrantIds /\ cap.quota \in Int
        /\ \A d \in Issued : /\ d.grant_id \in GrantIds
                              /\ quotaUsed[d.grant_id] \in Nat /\ spent[d] \in Nat
    BY <2>1 DEF QuotaInv, TypeOK
  <2> HIDE DEF v, cap
  <2>4. /\ Issued' = Issued
        /\ spent'[cap] = spent[cap] + 1
        /\ \A d \in Issued \ {cap} : spent'[d] = spent[d]
    BY <1>1, <1>3, <2>1 DEF Issued
  <2>5. /\ quotaUsed'[cap.grant_id] = quotaUsed[cap.grant_id] + 1
        /\ \A g \in GrantIds \ {cap.grant_id} : quotaUsed'[g] = quotaUsed[g]
    BY <1>1, <1>3, <2>3 DEF QuotaInv, TypeOK
  <2>6. \A d \in Issued : spent[d] <= quotaUsed[d.grant_id]
    BY DEF QuotaInv, QuotaCounts, SpentCounted
  <2>7. SpentCounted'
    BY <2>1, <2>3, <2>4, <2>5, <2>6 DEF SpentCounted
  <2>8. spent'[cap] <= cap.quota
    BY <2>1, <2>2, <2>3, <2>4, <2>6
  <2>9. QuotaRespected'
    BY <2>1, <2>3, <2>4, <2>8 DEF QuotaInv, QuotaCounts, QuotaRespected
  <2> QED BY <2>7, <2>9 DEF QuotaCounts
<1> QED BY <1>2, <1>3

(* QuotaInv is kept by every step.                                         *)
LEMMA QuotaStep == QuotaInv /\ [Next]_vars => QuotaInv'
<1> SUFFICES ASSUME QuotaInv, [Next]_vars PROVE QuotaInv'
  OBVIOUS
<1>1. TypeOK' /\ Genuine'
  BY TypeStep, GenuineStep DEF QuotaInv
<1>2. ASSUME UNCHANGED <<spent, quotaUsed>> PROVE QuotaCounts'
  BY <1>2 DEF QuotaInv, QuotaCounts, SpentCounted, QuotaRespected, Issued
<1>3. ASSUME NEW m \in MintRequests, Mint(m) PROVE QuotaCounts'
  <2>1. PICK g \in GrantIds :
           Record(SignCapability(MintedCapability(m, g), IssuerKey, IssuerKeyId), {})
    BY <1>3 DEF Mint
  <2>2. MintedCapability(m, g).grant_id \in GrantIds /\ MintedCapability(m, g).quota \in Int
    BY RequestAssumption DEF MintedCapability
  <2> QED BY <2>1, <2>2, QuotaRecord
<1>4. ASSUME NEW t \in tokens, NEW n \in Narrowings, Attenuate(t, n)
      PROVE  QuotaCounts'
  <2>1. /\ Attenuated(t.capability, n).grant_id \in GrantIds
        /\ Attenuated(t.capability, n).quota \in Int
    BY RequestAssumption DEF Attenuated
  <2> QED BY <1>4, <2>1, QuotaRecord DEF Attenuate
<1>5. ASSUME NEW t \in Presentable, NEW tool \in Tools, NEW audience \in Audiences,
             NEW a \in Arguments, Call(t, tool, audience, a)
      PROVE  QuotaCounts'
  BY <1>5, QuotaCall
<1>6. ASSUME Tick \/ UNCHANGED vars PROVE QuotaCounts'
  BY <1>2, <1>6 DEF Tick, vars
<1>7. QuotaCounts'
  BY <1>3, <1>4, <1>5, <1>6 DEF Next
<1> QED BY <1>1, <1>7 DEF QuotaInv

(* No claim is used beyond its quota: QuotaRespected for every keystore,   *)
(* request and sharing of grant ids.                                       *)
THEOREM QuotaSafety == Spec => []QuotaRespected
<1>1. Init => QuotaInv
  BY TypeInit DEF Init, BrokerInit, QuotaInv, QuotaCounts, Genuine, SpentCounted, QuotaRespected, Issued
<1>2. QuotaInv => QuotaRespected
  BY DEF QuotaInv, QuotaCounts
<1> QED BY <1>1, <1>2, QuotaStep, PTL DEF Spec

-----------------------------------------------------------------------------
(* Every claim is narrower than each of its ancestors, and ancestry is     *)
(* transitive: what attenuate() leaves of a chain of delegations.          *)
LineageInv == TypeOK /\ \A e \in lineage : Narrower(e[1], e[2])

(* LineageInv is kept by every step.                                       *)
LEMMA LineageStep == LineageInv /\ [Next]_vars => LineageInv'
<1> SUFFICES ASSUME LineageInv, [Next]_vars PROVE LineageInv'
  OBVIOUS
<1>1. TypeOK'
  BY TypeStep DEF LineageInv
<1>2. ASSUME UNCHANGED lineage PROVE LineageInv'
  BY <1>1, <1>2 DEF LineageInv
<1>3. ASSUME NEW m \in MintRequests, Mint(m) PROVE LineageInv'
  <2>1. lineage' = lineage
    BY <1>3 DEF Mint, Record
  <2> QED BY <1>2, <2>1
<1>4. ASSUME NEW t \in tokens, NEW n \in Narrowings, Attenuate(t, n) PROVE LineageInv'
  <2> DEFINE p == t.capability
             c == Attenuated(p, n)
             above == {p} \cup {a \in Issued : <<p, a>> \in lineage}
  <2>1. /\ ~AttenuateRefuses(p, n)
        /\ Record(SignCapability(c, IssuerKey, IssuerKeyId), above)
    BY <1>4 DEF Attenuate
  <2>2. lineage' = lineage \cup {<<c, a>> : a \in above}
    <3>1. SignCapability(c, IssuerKey, IssuerKeyId).capability = c
      BY DEF SignCapability
    <3> HIDE DEF c, above
    <3> QED BY <2>1, <3>1 DEF Record
  <2>3. p \in Issued /\ p.expires_at \in Int /\ p.quota \in Int
    BY DEF LineageInv, TypeOK
  <2>4. n.expires_at \in Int /\ n.quota \in Int
    BY RequestAssumption
  <2>5. Narrower(c, p) /\ c.expires_at = n.expires_at /\ c.quota = n.quota
    BY <2>1, <2>3, <2>4, AttenuationNarrows DEF Attenuated
  <2>6. ASSUME NEW a \in above PROVE Narrower(c, a)
    <3>1. CASE a = p
      BY <2>5, <3>1
    <3>2. CASE a \in Issued /\ <<p, a>> \in lineage
      <4>1. Narrower(p, a) /\ a.expires_at \in Int /\ a.quota \in Int
        BY <3>2 DEF LineageInv, TypeOK
      <4> HIDE DEF c, p
      <4> QED BY <2>3, <2>4, <2>5, <4>1, NarrowerTransitive
    <3> QED BY <2>6, <3>1, <3>2
  <2> HIDE DEF c, above
  <2> QED BY <1>1, <2>2, <2>6 DEF LineageInv
<1>5. ASSUME NEW t \in Presentable, NEW tool \in Tools, NEW audience \in Audiences,
             NEW a \in Arguments, Call(t, tool, audience, a)
      PROVE  LineageInv'
  BY <1>2, <1>5 DEF Call
<1>6. CASE Tick \/ UNCHANGED vars
  BY <1>2, <1>6 DEF Tick, vars
<1> QED BY <1>3, <1>4, <1>5, <1>6 DEF Next

(* A lineage of narrower claims permits what its last claim is allowed.    *)
LEMMA LineageWithin == LineageInv => WithinAncestors
<1> SUFFICES ASSUME LineageInv, NEW t \in tokens, NEW tool \in Tools,
                    NEW audience \in Audiences, NEW a \in Arguments,
                    Verdict(t, tool, audience, a) = "allow",
                    NEW c \in Issued, <<t.capability, c>> \in lineage
             PROVE  Permits([c EXCEPT !.issued_at = t.capability.issued_at],
                            tool, audience, a, now)
  BY DEF WithinAncestors
<1> DEFINE d == t.capability
<1>1. Narrower(d, c)
  BY DEF LineageInv
<1>2. /\ ~(now < d.issued_at) /\ ~(now >= d.expires_at)
      /\ audience = d.audience /\ tool \in d.tools
      /\ MatchArguments(tool, a, d.argument_constraints) = "pass"
  BY AllowedMeans
<1>3. /\ now \in Int /\ d.issued_at \in Int /\ d.expires_at \in Int
      /\ c.expires_at \in Int
  BY DEF LineageInv, TypeOK
<1> HIDE DEF d
<1>4. MatchArguments(tool, a, c.argument_constraints) = "pass"
  BY <1>1, <1>2, NarrowerMatches
<1> QED BY <1>1, <1>2, <1>3, <1>4 DEF Narrower, Permits, d

(* Delegation never widens, for chains of any length: WithinAncestors.     *)
THEOREM DelegationNarrows == Spec => []WithinAncestors
<1>1. Init => LineageInv
  BY TypeInit DEF Init, LineageInv
<1> QED BY <1>1, LineageStep, LineageWithin, PTL DEF Spec
=============================================================================
