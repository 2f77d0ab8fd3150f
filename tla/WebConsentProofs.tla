-------------------------- MODULE WebConsentProofs --------------------------
(***************************************************************************)
(* What WebConsent guarantees for any number of connections, any form and  *)
(* any interleaving of its threads: the decision that comes back is one a  *)
(* browser submitted in time, none from before the one that woke the       *)
(* caller, or a denial.                                                    *)
(***************************************************************************)
EXTENDS WebConsent, SequenceTheorems, TLAPS

(* Where a decision is on its way: in the list of what was submitted, its  *)
(* last one in the holder, there before the event is set (consent.py:303-  *)
(* 311); and what was returned is one of them, or a denial (371-373).      *)
Decided == WebOutcomes(Asked)

HolderIsLast ==
    /\ submitted \in Seq(Decided)
    /\ holder = IF submitted = << >> THEN Nothing ELSE submitted[Len(submitted)]
    /\ loop \in {"confirming", "signalling"} => submitted # << >>

WokenByOne ==
    /\ woken \in 0..Len(submitted)
    /\ done => woken # 0

ResultIsOneOfThem ==
    /\ answered \in BOOLEAN
    /\ answered => done
    /\ result # Nothing =>
          IF answered THEN \E i \in woken..Len(submitted) : result = submitted[i]
                      ELSE result = Denied(Asked)

Inv == TypeOK /\ backlog \in Seq(Connections) /\ HolderIsLast /\ WokenByOne
       /\ ResultIsOneOfThem

-----------------------------------------------------------------------------
(* What the page decides, and a timeout's denial, are decisions; a denial  *)
(* approves nothing (consent.py:265-299, 371-372).                         *)
LEMMA Decisions ==
    /\ \A form \in Forms : PostDecision(Asked, form) \in Decided
    /\ Denied(Asked) \in Decided
    /\ ~Denied(Asked).approved
    /\ Nothing \notin Decided /\ Nothing \notin Connections
<1>1. \A form \in Forms : PostDecision(Asked, form) \in Decided
  BY WebConsentAssumption DEF Decided, WebOutcomes
<1>2. Denied(Asked) \in Decided
  BY DEF Decided, WebOutcomes
<1>3. ~Denied(Asked).approved
  BY DEF Denied, Decision
<1>4. Nothing \notin Decided /\ Nothing \notin Connections
  BY WebConsentAssumption DEF Decided
<1> QED BY <1>1, <1>2, <1>3, <1>4

(* Submitting a decision makes it the last one, and leaves the others.     *)
LEMMA Submitted ==
    ASSUME NEW S, NEW s \in Seq(S), NEW d \in S
    PROVE  /\ Append(s, d) \in Seq(S)
           /\ Append(s, d) # << >>
           /\ Append(s, d)[Len(Append(s, d))] = d
           /\ Len(s) \in Nat /\ Len(Append(s, d)) = Len(s) + 1
           /\ \A i \in 1..Len(s) : i \in 1..Len(Append(s, d)) /\ Append(s, d)[i] = s[i]
  OBVIOUS

(* A holder that is not empty holds a decision that was submitted.         *)
LEMMA Held ==
    ASSUME HolderIsLast, Nothing \notin Decided
    PROVE  /\ (holder # Nothing) <=> (submitted # << >>)
           /\ holder # Nothing => /\ holder \in Decided
                                  /\ Len(submitted) \in Nat \ {0}
                                  /\ holder = submitted[Len(submitted)]
<1>1. CASE submitted = << >>
  BY <1>1 DEF HolderIsLast
<1>2. CASE submitted # << >>
  <2>1. Len(submitted) \in 1..Len(submitted) /\ submitted[Len(submitted)] \in Decided
    BY <1>2, EmptySeq, LenProperties, ElementOfSeq DEF HolderIsLast
  <2> QED BY <1>2, <2>1 DEF HolderIsLast
<1> QED BY <1>1, <1>2

-----------------------------------------------------------------------------
(* Every thread's steps, and the browser's, keep the invariant.            *)
LEMMA InitInv == Init => Inv
<1> SUFFICES ASSUME Init PROVE Inv
  OBVIOUS
<1>1. TypeOK
  BY DEF Init, TypeOK
<1>2. backlog \in Seq(Connections) /\ HolderIsLast /\ WokenByOne
  BY EmptySeq DEF Init, HolderIsLast, WokenByOne
<1>3. ResultIsOneOfThem
  BY DEF Init, ResultIsOneOfThem
<1> QED BY <1>1, <1>2, <1>3 DEF Inv

(* The server's threads keep the invariant: a decision comes from a form   *)
(* somebody submitted.                                                     *)
LEMMA ServerInv == Inv /\ Server => Inv'
<1> SUFFICES ASSUME Inv, Server PROVE Inv'
  OBVIOUS
<1> USE DEF Inv
<1>1. CASE Accept
  <2>1. Head(backlog) \in Connections /\ Tail(backlog) \in Seq(Connections)
    BY <1>1 DEF Accept
  <2> QED BY <1>1, <2>1, Decisions
          DEF Accept, TypeOK, HolderIsLast, WokenByOne, ResultIsOneOfThem, decisionVars, callerVars
<1>2. CASE LoopEnds
  BY <1>2 DEF LoopEnds, TypeOK, HolderIsLast, WokenByOne, ResultIsOneOfThem, decisionVars, callerVars,
              browserVars
<1>3. CASE ReadNothing \/ DoGet \/ ConfirmFails
  BY <1>3 DEF ReadNothing, DoGet, ConfirmFails, Back, TypeOK, HolderIsLast,
              WokenByOne, ResultIsOneOfThem, decisionVars, callerVars, browserVars
<1>4. CASE DoPost
  <2> DEFINE d == PostDecision(Asked, request[serving])
  <2>1. d \in Decided /\ d # Nothing
    BY <1>4, Decisions DEF DoPost
  <2>2. holder' = d /\ submitted' = Append(submitted, d)
    BY <1>4 DEF DoPost
  <2> HIDE DEF d
  <2>3. HolderIsLast'
    BY <2>1, <2>2, Submitted DEF HolderIsLast
  <2>4. TypeOK'
    BY <1>4, <2>1, <2>2 DEF DoPost, TypeOK, Decided, callerVars
  <2>5. WokenByOne'
    BY <1>4, <2>1, <2>2, Submitted DEF DoPost, WokenByOne, HolderIsLast
  <2>6. ResultIsOneOfThem'
    <3>1. \A i \in woken..Len(submitted) :
             i \in woken..Len(submitted') /\ (i # 0 => submitted'[i] = submitted[i])
      BY <2>1, <2>2, Submitted DEF WokenByOne, HolderIsLast
    <3>2. UNCHANGED <<callerVars, done, woken>>
      BY <1>4 DEF DoPost
    <3> QED BY <3>1, <3>2 DEF ResultIsOneOfThem, WokenByOne, callerVars
  <2> QED BY <1>4, <2>3, <2>4, <2>5, <2>6 DEF DoPost, browserVars
<1>5. CASE Confirm
  BY <1>5 DEF Confirm, TypeOK, HolderIsLast, WokenByOne, ResultIsOneOfThem, decisionVars, callerVars,
              browserVars
<1>6. CASE Signal
  <2>1. submitted # << >> /\ holder # Nothing /\ Len(submitted) \in Nat \ {0}
    BY <1>6, Held, Decisions DEF Signal, HolderIsLast
  <2>2. TypeOK' /\ HolderIsLast' /\ (backlog \in Seq(Connections))'
    BY <1>6, <2>1 DEF Signal, Back, TypeOK, HolderIsLast, callerVars, browserVars
  <2>3. WokenByOne' /\ (done => woken' = woken)
    BY <1>6, <2>1 DEF Signal, WokenByOne
  <2>4. ResultIsOneOfThem'
    BY <1>6, <2>3 DEF Signal, ResultIsOneOfThem, callerVars
  <2> QED BY <2>2, <2>3, <2>4
<1> QED BY <1>1, <1>2, <1>3, <1>4, <1>5, <1>6 DEF Server

(* The waiting caller keeps it: it takes the decision, or gives up.        *)
LEMMA CallerInv == Inv /\ Caller => Inv'
<1> SUFFICES ASSUME Inv, Caller PROVE Inv'
  OBVIOUS
<1> USE DEF Inv
<1>1. CASE Woken \/ TimesOut \/ ShutDown
  <2>1. UNCHANGED <<result, decisionVars, loop, serving, helpers, browserVars>>
    BY <1>1 DEF Woken, TimesOut, ShutDown, serverVars
  <2>2. caller # "returned" /\ caller' \in {"shuttingDown", "joining"}
    BY <1>1 DEF Woken, TimesOut, ShutDown
  <2>3. answered' \in BOOLEAN /\ (answered' => done)
    <3>1. CASE Woken
      BY <3>1 DEF Woken
    <3>2. CASE TimesOut \/ ShutDown
      BY <3>2 DEF TimesOut, ShutDown, ResultIsOneOfThem
    <3> QED BY <1>1, <3>1, <3>2
  <2>4. TypeOK'
    BY <2>1, <2>2 DEF TypeOK, decisionVars
  <2> QED BY <2>1, <2>2, <2>3, <2>4
          DEF TypeOK, HolderIsLast, WokenByOne, ResultIsOneOfThem, decisionVars, browserVars
<1>2. CASE Return
  <2>1. result' = (IF answered THEN holder ELSE Denied(Asked)) /\ caller' = "returned"
    BY <1>2 DEF Return
  <2>2. answered => holder # Nothing
    BY DEF TypeOK, ResultIsOneOfThem
  <2>3. result' \in Decided /\ result' # Nothing
    BY <2>1, <2>2, Held, Decisions
  <2>4. ResultIsOneOfThem'
    <3>1. UNCHANGED <<answered, done, submitted, woken>>
      BY <1>2 DEF Return, decisionVars
    <3>2. CASE answered
      <4>1. Len(submitted) \in woken..Len(submitted) /\ holder = submitted[Len(submitted)]
        BY <3>2, <2>2, Held, Decisions DEF WokenByOne
      <4> QED BY <3>1, <3>2, <2>1, <4>1 DEF ResultIsOneOfThem
    <3>3. CASE ~answered
      BY <3>1, <3>3, <2>1 DEF ResultIsOneOfThem
    <3> QED BY <3>2, <3>3
  <2>5. TypeOK' /\ HolderIsLast' /\ WokenByOne'
    BY <1>2, <2>1, <2>3
       DEF Return, TypeOK, HolderIsLast, WokenByOne, Decided, decisionVars, serverVars
  <2> QED BY <1>2, <2>4, <2>5 DEF Return, browserVars
<1> QED BY <1>1, <1>2 DEF Caller

(* The helper thread that shuts the server down keeps it.                  *)
LEMMA HelperInv == Inv /\ HelperStops => Inv'
  BY DEF Inv, HelperStops, TypeOK, HolderIsLast, WokenByOne, ResultIsOneOfThem, callerVars, decisionVars,
         browserVars

(* So does the human at the browser.                                       *)
LEMMA BrowserInv == Inv /\ Browser => Inv'
<1> SUFFICES ASSUME Inv, Browser PROVE Inv'
  OBVIOUS
<1>1. UNCHANGED <<callerVars, decisionVars, serverVars>>
  BY DEF Browser, Connect, Close, Send
<1>2. backlog' \in Seq(Connections)
  BY DEF Inv, Browser, Connect, Close, Send
<1> QED BY <1>1, <1>2
        DEF Inv, TypeOK, HolderIsLast, WokenByOne, ResultIsOneOfThem, callerVars, decisionVars, serverVars

(* The invariant, in every state the caller, the server, its helpers and   *)
(* the browser can reach.                                                  *)
THEOREM Invariance == Spec => []Inv
<1>1. Inv /\ [Next]_vars => Inv'
  <2>1. Inv /\ UNCHANGED vars => Inv'
    BY DEF Inv, vars, TypeOK, HolderIsLast, WokenByOne, ResultIsOneOfThem, callerVars, decisionVars,
           serverVars, browserVars
  <2> QED BY <2>1, ServerInv, CallerInv, HelperInv, BrowserInv DEF Next
<1> QED BY InitInv, <1>1, PTL DEF Spec

-----------------------------------------------------------------------------
(* The threads keep to their protocol, and what the page decides is one of *)
(* the decisions Consent gives it (consent.py:303-373).                    *)
THEOREM TypeCorrect == Spec => []TypeOK
<1>1. Inv => TypeOK
  BY DEF Inv
<1> QED BY Invariance, <1>1, PTL

(* An approval that is returned was submitted by a browser, and in time    *)
(* (consent.py:326-327), however many browsers open, submit or close.      *)
THEOREM ApprovalsAreHuman == Spec => []ApprovalIsHuman
<1>1. Inv => ApprovalIsHuman
  <2> SUFFICES ASSUME Inv, result # Nothing, result.approved
               PROVE  answered /\ Contains(submitted, result)
    BY DEF ApprovalIsHuman
  <2>1. answered
    BY Decisions DEF Inv, ResultIsOneOfThem
  <2>2. PICK i \in woken..Len(submitted) : result = submitted[i]
    BY <2>1 DEF Inv, ResultIsOneOfThem
  <2>3. i \in 1..Len(submitted)
    BY <2>1 DEF Inv, ResultIsOneOfThem, WokenByOne
  <2> QED BY <2>1, <2>2, <2>3 DEF Contains
<1> QED BY Invariance, <1>1, PTL

(* What comes back in time is the answer that woke the caller or a later   *)
(* one, never an answer from before whose confirmation failed              *)
(* (consent.py:303-311, 365-373), however many were submitted.             *)
THEOREM AnswersStand == Spec => []AnswerStands
<1>1. Inv => AnswerStands
  BY DEF Inv, ResultIsOneOfThem, AnswerStands
<1> QED BY Invariance, <1>1, PTL
=============================================================================
