---------------------------- MODULE MCWebConsent ----------------------------
(***************************************************************************)
(* Instances of WebConsent: a few connections, and submissions that agree  *)
(* to all tools with a ttl that cannot be read, to some of them, or deny.  *)
(***************************************************************************)
EXTENDS WebConsent

CONSTANTS c1, c2, c3, read, send

MCAsked == [tools |-> <<read, send>>, ttl_seconds |-> 5, quota |-> 3, rules |-> << >>]

Form(action, tools, ttl, quota) ==
    [action |-> action, tools |-> tools, ttl |-> ttl, quota |-> quota]

MCForms ==
    {Form("approve", {read, send}, Unreadable, 0), Form("approve", {read}, Untyped, Untyped),
     Form("deny", {read}, Untyped, Untyped)}
=============================================================================
