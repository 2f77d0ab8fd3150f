----------------------------- MODULE Mediation ------------------------------
(***************************************************************************)
(* What the proxy promises, with nothing of how it keeps it: a call        *)
(* reaches the target server only when it was admitted, and it is admitted *)
(* only within a scope a human approved, while that scope is in force.     *)
(***************************************************************************)
EXTENDS Integers, FiniteSets

CONSTANTS
    Requests,      \* identities of tools/call requests
    GrantIds,
    Nobody,        \* no scope is in force
    Meets(_, _, _) \* whether a tool's arguments meet a scope's rules

VARIABLES
    now,
    approved,      \* grant id -> the scope a human approved under it
    active,        \* the grant id in force, or Nobody
    calls,         \* request -> the tool and arguments it asks for
    admitted,      \* request -> the grant id it was admitted under
    executed       \* the requests the target server has carried out

mediationVars == <<now, approved, active, calls, admitted, executed>>

MediationInit ==
    /\ now = 0
    /\ approved = << >>
    /\ active = Nobody
    /\ calls = << >>
    /\ admitted = << >>
    /\ executed = {}

(* A human approves a scope, whatever it is, and it comes into force, or   *)
(* is lost before it does.                                                 *)
Approve ==
    \E g \in GrantIds \ DOMAIN approved :
        /\ active = Nobody
        /\ active' \in {g, Nobody}
        /\ DOMAIN approved' = DOMAIN approved \cup {g}
        /\ \A h \in DOMAIN approved : approved'[h] = approved[h]
        /\ approved'[g].from = now
        /\ UNCHANGED <<now, calls, admitted, executed>>

Revoke ==
    /\ active' = Nobody
    /\ UNCHANGED <<now, approved, calls, admitted, executed>>

Ask ==
    \E r \in Requests \ DOMAIN calls :
        /\ DOMAIN calls' = DOMAIN calls \cup {r}
        /\ \A q \in DOMAIN calls : calls'[q] = calls[q]
        /\ UNCHANGED <<now, approved, active, admitted, executed>>

Within(call, scope) ==
    /\ scope.from <= now
    /\ now < scope.until
    /\ call.tool \in scope.tools
    /\ Meets(call.tool, call.arguments, scope.rules)

Uses(g) == {q \in DOMAIN admitted : admitted[q] = g}

Admit ==
    \E r \in DOMAIN calls \ DOMAIN admitted :
        /\ active # Nobody
        /\ Within(calls[r], approved[active])
        /\ Cardinality(Uses(active)) < approved[active].quota
        /\ admitted' = [q \in DOMAIN admitted \cup {r} |->
                           IF q = r THEN active ELSE admitted[q]]
        /\ UNCHANGED <<now, approved, active, calls, executed>>

Execute ==
    \E r \in DOMAIN admitted \ executed :
        /\ executed' = executed \cup {r}
        /\ UNCHANGED <<now, approved, active, calls, admitted>>

Pass ==
    /\ now' > now
    /\ UNCHANGED <<approved, active, calls, admitted, executed>>

MediationNext == Approve \/ Revoke \/ Ask \/ Admit \/ Execute \/ Pass

MediationSpec == MediationInit /\ [][MediationNext]_mediationVars
=============================================================================
