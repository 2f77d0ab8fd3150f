------------------------------ MODULE Consent -------------------------------
(***************************************************************************)
(* The consent surfaces (src/covenant/consent.py) as functions: what each  *)
(* provider decides, given the request put to the human and what the human *)
(* types, ticks or leaves alone. How the web page's threads interleave is  *)
(* the subject of module WebConsent.                                       *)
(*                                                                         *)
(* A request has the tools asked for, in the order they are shown (a       *)
(* policy may list one twice), a ttl, a quota and rules. A decision has,   *)
(* beside its four fields, the withheld tools a human said yes to by name: *)
(* `affirmed` is history, no code reads it.                                *)
(***************************************************************************)
EXTENDS Integers, Sequences, SequencesExt

CONSTANTS
    Withheld,       \* the tools _DEFAULT_APPROVE does not pre-approve
    Untyped,        \* an empty line or field
    Unreadable,     \* text that int() refuses
    TtlAnswers, QuotaAnswers,   \* what a human may type for them
    Raised          \* no decision: the provider raised an exception

ASSUME AnswersAssumption == (TtlAnswers \cup QuotaAnswers) \ {Untyped, Unreadable} \subseteq Int

PreapprovedAll(tool) == TRUE        \* wrong on purpose: no tool is withheld

Preapproved(tool) == tool \notin Withheld

Decision(tools, ttl, quota, affirmed) ==
    [approved      |-> tools # {},
     granted_tools |-> tools,
     ttl_seconds   |-> ttl,
     quota         |-> quota,
     affirmed      |-> affirmed \cap Withheld]

Denied(req) == Decision({}, req.ttl_seconds, req.quota, {})

(* default_demo_decision, and the decision of run() for --auto --policy:   *)
(* whoever wrote the policy named its tools, and a policy without any is   *)
(* approved like the others.                                               *)
DefaultDemoDecision(req) ==
    Decision({t \in Range(req.tools) : Preapproved(t)}, req.ttl_seconds, req.quota, {})

AsRequested(req) ==
    [Decision(Range(req.tools), req.ttl_seconds, req.quota, Range(req.tools))
        EXCEPT !.approved = TRUE]

(* TerminalConsentProvider: one question per requested tool, in turn, with *)
(* Enter for the default (an end of file reads the same); then, if         *)
(* anything was granted, the ttl and the quota.                            *)
Answers == {"enter", "yes", "no"}

Agreed(tool, answer) == IF answer = "enter" THEN Preapproved(tool) ELSE answer = "yes"

Typed(text, default) == IF text = Untyped THEN default ELSE text

TerminalDecision(req, answers, ttl, quota) ==
    LET granted == {req.tools[i] : i \in {j \in DOMAIN answers : Agreed(req.tools[j], answers[j])}}
        yes     == {req.tools[i] : i \in {j \in DOMAIN answers : answers[j] = "yes"}}
    IN  IF granted = {} THEN Denied(req)
        ELSE IF Unreadable \in {ttl, quota} THEN Raised
        ELSE Decision(granted, Typed(ttl, req.ttl_seconds), Typed(quota, req.quota), yes)

(* The console was there when the provider was chosen; it may be gone, and *)
(* then _open_console raises.                                              *)
NoConsole == {Raised}

TerminalOutcomes(req) ==
    NoConsole \cup {TerminalDecision(req, answers, ttl, quota) :
                      answers \in [DOMAIN req.tools -> Answers],
                      ttl \in TtlAnswers, quota \in QuotaAnswers}

(* WebConsentProvider: a page with one box per tool, some of them ticked   *)
(* already; what is submitted are the boxes left ticked, the two fields    *)
(* and the button. A field that cannot be read falls back to the request.  *)
(* do_POST takes whatever names it is sent: that they are tools of the     *)
(* request is the page's doing, and assumed here of the browser.           *)
Ticked(req) == {t \in Range(req.tools) : Preapproved(t)}

Submittable(req) ==
    [action : {"approve", "deny"}, tools : SUBSET Range(req.tools),
     ttl : TtlAnswers, quota : QuotaAnswers]

FieldOr(text, default) == IF text \in {Untyped, Unreadable} THEN default ELSE text

PostDecision(req, form) ==
    IF form.action = "approve"
    THEN Decision(form.tools, FieldOr(form.ttl, req.ttl_seconds),
                  FieldOr(form.quota, req.quota), form.tools \ Ticked(req))
    ELSE Denied(req)

WebOutcomes(req) ==             \* the last is the timeout
    {PostDecision(req, form) : form \in Submittable(req)} \cup {Denied(req)}

-----------------------------------------------------------------------------
(* What the probe of _console_available() may find, and the surface that   *)
(* select_consent_provider chooses by it.                                  *)
ConsoleAvailable == BOOLEAN

SelectConsentProvider(auto, console) ==
    IF auto THEN "scripted" ELSE IF console THEN "terminal" ELSE "web"

(* request_consent of the provider: every decision it may come to.         *)
Outcomes(provider, req) ==
    CASE provider = "scripted"  -> {DefaultDemoDecision(req)}
      [] provider = "requested" -> {AsRequested(req)}
      [] provider = "terminal"  -> TerminalOutcomes(req)
      [] provider = "web"       -> WebOutcomes(req)
=============================================================================
