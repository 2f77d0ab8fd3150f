------------------------------ MODULE MCProxy -------------------------------
(***************************************************************************)
(* Instances of Proxy: a target with a reading and a sending tool, and     *)
(* command lines with and without a policy and --auto; the policy files    *)
(* are well-formed, name no tool, name tools that are not offered, list a  *)
(* tool twice, misspell an operator, give one a value it cannot use, or    *)
(* lack a field.                                                           *)
(***************************************************************************)
EXTENDS Proxy

CONSTANTS
    alice, bob, read, send, wipe, mail, g1, g2, r1, r2, issuerKey, keyId,
    auto, ttl, timeout, policy, python, one, two,   \* words of command lines
    good, empty, notOffered, listedTwice, misspelt, garbled, partial, agent

MCScalars == {alice, bob}
MCTrustedKeys == [k \in {keyId} |-> issuerKey]

To(x) == [f \in {"to"} |-> x]
ToAlice == [field |-> <<"to">>, operator |-> "in", value |-> {alice}]
NotToAlice == [field |-> <<"to">>, operator |-> "not_in", value |-> {alice}]
Misspelt == [field |-> <<"to">>, operator |-> "eq", value |-> {alice}]
Garbled == [field |-> <<"to">>, operator |-> "regex", value |-> Malformed]

File(grants) ==
    [subject |-> agent, audience |-> mail, ttl_seconds |-> one, quota |-> one,
     grants |-> grants]

Plain(tool) == [tool |-> tool]
Ruled(tool, rule) == [tool |-> tool, arguments |-> <<rule>>]

MCNumber == [w \in {one, two} |-> IF w = one THEN 1 ELSE 2]
MCPolicyFile ==
    [p \in {good, empty, notOffered, listedTwice, misspelt, garbled, partial} |->
        CASE p = good        -> File(<<Ruled(send, ToAlice)>>)
          [] p = empty       -> File(<<>>)
          [] p = notOffered  -> File(<<Plain(wipe)>>)
          [] p = listedTwice -> File(<<Ruled(send, ToAlice), Ruled(send, NotToAlice)>>)
          [] p = misspelt    -> File(<<Plain(read), Ruled(send, Misspelt)>>)
          [] p = garbled     -> File(<<Ruled(send, Garbled)>>)
          [] p = partial     -> [grants |-> << >>]]

Command(options) == [options |-> options, target |-> <<python>>]

MCCommands ==
    {Command(options) : options \in
        {<<>>, <<auto, ttl, two>>, <<policy, good>>, <<policy, empty, auto>>,
         <<policy, misspelt, auto>>, <<policy, garbled, auto>>,
         <<policy, notOffered>>, <<policy, partial>>}}
MCMisspeltCommands == {Command(<<>>), Command(<<policy, misspelt>>)}
MCTwiceCommands == {Command(<<>>), Command(<<policy, listedTwice>>)}

MCOfferedTools == {<<read, send>>}

MCToolCalls == {[tool |-> read, arguments |-> << >>],
                [tool |-> send, arguments |-> To(alice)],
                [tool |-> send, arguments |-> To(bob)]}

ProxySymmetry == Permutations(Requests) \cup Permutations(GrantIds)
=============================================================================
