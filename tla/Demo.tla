-------------------------------- MODULE Demo --------------------------------
(***************************************************************************)
(* The demo (src/demo): the synthetic mail server as the proxy's target,   *)
(* and in front of it the scripted client, the policy client, or anybody's *)
(* client. A scripted client launches the proxy with --auto and makes its  *)
(* calls one after the other; anybody's client is free to call, and to     *)
(* give up, as it likes.                                                   *)
(***************************************************************************)
EXTENDS Proxy

CONSTANTS
    ScriptedClient, PolicyClient, AnyClient,
    ReadThread, DraftReply, SendReply,          \* the tools of the mail server
    FollowUp, DraftText, OtherText, ApprovedBody,   \* reply bodies
    Python, TtlWord, ExamplePolicy,             \* words of the command lines
    AnyCommands, AnyRequests                    \* what anybody's client may use

ASSUME DemoAssumption ==
    /\ Requests = 1..4 /\ AnyRequests \subseteq Requests
    /\ ScriptedClient \notin {PolicyClient, AnyClient} /\ PolicyClient # AnyClient

(* The target is the mail server, of whose tools the first is pre-approved *)
(* and the last is not (consent.py:62).                                    *)
ASSUME MailAssumption ==
    /\ ReadThread \notin Withheld /\ SendReply \in Withheld
    /\ \A available \in OfferedTools : ReadThread \in Range(available)

(* What the scripts write on their command lines, and what the example     *)
(* policy says of the tool that sends.                                     *)
ASSUME WordsAssumption ==
    /\ {Python, TtlWord, ExamplePolicy} \cap OptionNames = {}
    /\ TtlWord \in DOMAIN Number /\ Number[TtlWord] \in Nat

ASSUME ExampleAssumption ==
    LET constraints == PolicyConstraints(LoadTaskPolicy(ExamplePolicy))
    IN  /\ SendReply \in DOMAIN constraints
        /\ \E i \in DOMAIN constraints[SendReply] :
              constraints[SendReply][i] =
                  [field |-> <<"body">>, operator |-> "equals", value |-> ApprovedBody]

VARIABLES
    client,     \* who drives the proxy
    beat,       \* how many calls of its script it has made
    rested,     \* whether it has slept past the capability's end
    draft, sent \* _state of the mail server

clientVars == <<client, beat, rested>>
mailVars == <<draft, sent>>
demoVars == <<vars, clientVars, mailVars>>

-----------------------------------------------------------------------------
(* The scripts: the calls, and whether the client sleeps before each.      *)
Beat(tool, arguments) ==
    [sleeps |-> FALSE, call |-> [tool |-> tool, arguments |-> arguments]]
AfterSleep(b) == [b EXCEPT !.sleeps = TRUE]

NoArguments == << >>
Body(text) == [f \in {"body"} |-> text]

ScriptedBeats ==
    <<Beat(ReadThread, NoArguments), Beat(DraftReply, Body(FollowUp)),
      Beat(SendReply, Body(FollowUp)), AfterSleep(Beat(SendReply, Body(FollowUp)))>>

PolicyBeats ==
    <<Beat(ReadThread, NoArguments), Beat(DraftReply, Body(DraftText)),
      Beat(SendReply, Body(OtherText)), Beat(SendReply, Body(ApprovedBody))>>

Script == IF client = ScriptedClient THEN ScriptedBeats
          ELSE IF client = PolicyClient THEN PolicyBeats ELSE << >>

ScriptedCommand == [options |-> <<AutoOption, TtlOption, TtlWord>>, target |-> <<Python>>]
PolicyCommand == [options |-> <<AutoOption, PolicyOption, ExamplePolicy>>, target |-> <<Python>>]

DemoInit ==
    /\ Init
    /\ \/ client = ScriptedClient /\ command = ScriptedCommand
       \/ client = PolicyClient /\ command = PolicyCommand
       \/ client = AnyClient /\ command \in AnyCommands
    /\ beat = 0
    /\ rested = FALSE
    /\ draft = Nobody
    /\ sent = << >>

-----------------------------------------------------------------------------
(* The next call of a script is made when the one before has come back;    *)
(* an error or the end of the proxy ends the script.                       *)
Ready ==
    /\ phase = "serving"
    /\ beat < Len(Script)
    /\ beat > 0 => status[beat] \in {"answered", "refused"}

NextBeat ==
    /\ Ready
    /\ Script[beat + 1].sleeps => rested
    /\ Send(beat + 1, Script[beat + 1].call)
    /\ beat' = beat + 1
    /\ UNCHANGED <<client, rested, mailVars>>

(* asyncio.sleep(ttl_seconds + 1), in one step.                            *)
Sleep ==
    /\ Ready
    /\ Script[beat + 1].sleeps /\ ~rested
    /\ rested' = TRUE
    /\ now' = now + Number[TtlWord] + 1
    /\ UNCHANGED <<quotaUsed, proxyVars, client, beat, mailVars>>

AnyCall ==
    /\ client = AnyClient
    /\ \E r \in AnyRequests : Cancel(r) \/ \E call \in ToolCalls : Send(r, call)
    /\ UNCHANGED <<clientVars, mailVars>>

-----------------------------------------------------------------------------
(* The mail server starts with no draft and nothing sent.                  *)
DemoStart ==
    /\ Start
    /\ draft' = Nobody
    /\ sent' = << >>
    /\ UNCHANGED clientVars

Serve(r) ==
    /\ Execute(r)
    /\ draft' = IF calls[r].tool = DraftReply THEN calls[r].arguments["body"] ELSE draft
    /\ sent' = IF calls[r].tool = SendReply
               THEN Append(sent, calls[r].arguments["body"]) ELSE sent
    /\ UNCHANGED clientVars

Unmoved == UNCHANGED <<clientVars, mailVars>>

Consents == (\E available \in OfferedTools : RequestConsent(available)) /\ Unmoved

DemoNext ==
    \/ DemoStart
    \/ Consents
    \/ EstablishGrant /\ Unmoved
    \/ NextBeat
    \/ Sleep
    \/ AnyCall
    \/ \E r \in Requests : \/ OnCallTool(r) /\ Unmoved
                           \/ Serve(r)
                           \/ Answer(r) /\ Unmoved
    \/ TargetDies /\ Unmoved
    \/ Stop /\ Unmoved
    \/ Tick /\ Unmoved

DemoSpec == DemoInit /\ [][DemoNext]_demoVars

(* Beside the fairness of the proxy's handlers and of the target: a script *)
(* goes on when it can, the proxy starts up, and no human is needed for a  *)
(* provider that asks none. Nobody has to answer the terminal or the page. *)
Unattended == provider \in {"scripted", "requested"}

DemoFairness ==
    /\ WF_demoVars((\E r \in Requests : OnCallTool(r)) /\ Unmoved)
    /\ WF_demoVars(\E r \in Requests : Serve(r))
    /\ WF_demoVars((\E r \in Requests : Answer(r)) /\ Unmoved)
    /\ WF_demoVars(Consents)
    /\ WF_demoVars(Unattended /\ EstablishGrant /\ Unmoved)
    /\ WF_demoVars(NextBeat \/ Sleep)

FairDemoSpec == DemoSpec /\ DemoFairness

-----------------------------------------------------------------------------
(* Whatever clock, writes, target and proxy do meanwhile: if the replay    *)
(* gets a decision it is refused, and because the capability is dead, not  *)
(* because of its scope (scripted_client.py:10-11).                        *)
ReplayDiesByExpiry ==
    client = ScriptedClient =>
        \A i \in DecisionEntries :
            log[i].request = 4 => log[i].decision = "deny" /\ log[i].reason = "expired"

(* What the mail server holds as sent, the script's human had agreed to:   *)
(* nothing by default, the approved body and no other under the example    *)
(* policy (scripted_client.py:8-9, policy_client.py:9-12).                 *)
NothingUnapprovedSent ==
    /\ client = ScriptedClient => sent = << >>
    /\ client = PolicyClient => Range(sent) \subseteq {ApprovedBody}

(* A command line that gives no option twice, every value where it belongs *)
(* and nothing else, and whose target words are none of the option names,  *)
(* is understood as it is written: the target gets all its words, and      *)
(* nobody is asked exactly when --auto is given (proxy.py:190-213).        *)
Unambiguous(words) ==
    /\ \A i \in {j \in DOMAIN words : words[j] \in OptionNames} :
          /\ \A j \in DOMAIN words : words[i] = words[j] => i = j
          /\ words[i] # AutoOption => i < Len(words) /\ words[i + 1] \notin OptionNames
    /\ \A i \in {j \in DOMAIN words : words[j] \notin OptionNames} :
          i > 1 /\ words[i - 1] \in OptionNames \ {AutoOption}

LaunchedAsWritten ==
    /\ provider # Nobody
    /\ Unambiguous(command.options)
    /\ Range(command.target) \cap OptionNames = {}
    =>
        /\ launched.target = command.target
        /\ Unattended <=> Contains(command.options, AutoOption)
        /\ TaskPolicy # NoPolicy <=> Contains(command.options, PolicyOption)

(* A script comes to its end, or to the end of the proxy it started, or to *)
(* an error, though nobody is there to answer a question (proxy.py:192-    *)
(* 194: "for unattended demo/CI runs").                                    *)
ScriptOver ==
    \/ client = AnyClient
    \/ phase \in {"failed", "down"}
    \/ \E r \in DOMAIN Script : status[r] \in {"error", "lost"}
    \/ status[Len(Script)] \in Settled

ScriptConcludes == <>[]ScriptOver
=============================================================================
