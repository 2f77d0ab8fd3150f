---------------------------- MODULE MCDelegation ----------------------------
(***************************************************************************)
(* Instances of Delegation: two tools, one of them with a rule on the      *)
(* field "to", two servers, a trusted and an untrusted key.                *)
(***************************************************************************)
EXTENDS Delegation

CONSTANTS alice, bob, read, send, mail, crm, g1, g2, g3, issuerKey, otherKey, id1, id2

MCScalars == {alice, bob}
MCArguments == {[x \in {"to"} |-> alice], [x \in {"to"} |-> bob], << >>}
MCTrustedKeys == [k \in {id1} |-> issuerKey]

ToAlice == [field |-> <<"to">>, operator |-> "in", value |-> {alice}]
NotToBob == [field |-> <<"to">>, operator |-> "not_in", value |-> {bob}]
NoRules == << >>
OnlyAlice == [t \in {send} |-> <<ToAlice>>]
Both == [t \in {send} |-> <<NotToBob, ToAlice>>]

MCMintRequests ==
    [audience : {mail}, tools : {{read, send}}, ttl_seconds : {2},
     quota : {0, 2}, constraints : {OnlyAlice}]

(* attenuate() is asked for more than the parent has as well as for less.  *)
MCNarrowings ==
    [grant_id : {g1, g2}, tools : {{send}, {read, send}}, issued_at : {1},
     expires_at : {2, 3}, quota : {1, 3}, constraints : {Inherit, NoRules, Both}]

(* A single root, and narrowings that may start before their parent does.  *)
ChainMintRequests ==
    [audience : {mail}, tools : {{read, send}}, ttl_seconds : {2},
     quota : {1}, constraints : {OnlyAlice}]

ChainNarrowings ==
    [grant_id : {g1, g2, g3}, tools : {{send}}, issued_at : {0, 1},
     expires_at : {1, 2}, quota : {1}, constraints : {Inherit, NoRules, Both}]

GrantIdSymmetry == Permutations(GrantIds)
=============================================================================
