------------------------------- MODULE MCDemo -------------------------------
(***************************************************************************)
(* Instances of Demo: the two scripts as they are, and anybody's client    *)
(* with command lines that give every option, give one twice, give it no   *)
(* value, a bad one or another option for one, name no target, or have an  *)
(* option name among the words of the target.                              *)
(***************************************************************************)
EXTENDS Demo

CONSTANTS
    read, draftTool, send, mail, agent, g1, issuerKey, keyId,
    followUp, draftText, otherText, approvedBody,
    auto, ttl, timeout, policy, python, one, example, missing

MCScalars == {followUp, draftText, otherText, approvedBody}
MCTrustedKeys == [k \in {keyId} |-> issuerKey]

MCNumber == [w \in {one} |-> 1]

ExactBody == [field |-> <<"body">>, operator |-> "equals", value |-> approvedBody]
MCPolicyFile ==
    [p \in {example} |->
        [subject |-> agent, audience |-> mail, ttl_seconds |-> one, quota |-> one,
         grants |-> <<[tool |-> read], [tool |-> draftTool],
                      [tool |-> send, arguments |-> <<ExactBody>>]>>]]

Line(options, target) == [options |-> options, target |-> target]

MCAnyCommands ==
    {Line(<<>>, <<python>>),
     Line(<<policy, example, timeout, one, ttl, one>>, <<python>>),
     Line(<<timeout, one, auto>>, <<python, one>>),
     Line(<<ttl, one, ttl, one>>, <<python>>),
     Line(<<>>, <<python, auto>>),
     Line(<<>>, <<python, ttl, one>>),
     Line(<<auto>>, <<>>), Line(<<ttl>>, <<python>>), Line(<<>>, <<timeout>>),
     Line(<<policy, missing>>, <<python>>), Line(<<ttl, auto>>, <<one, python>>)}

MCCommands == MCAnyCommands \cup {ScriptedCommand, PolicyCommand}

MCOfferedTools == {<<read, draftTool, send>>}

MCToolCalls == {[tool |-> read, arguments |-> << >>],
                [tool |-> send, arguments |-> Body(otherText)]}
=============================================================================
