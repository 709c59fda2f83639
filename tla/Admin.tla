--------------------------------- MODULE Admin ---------------------------------
(***************************************************************************)
(* What an administrator changes (web/routes/admin.py, the command line    *)
(* and adapters/sqlite_admin.py), and the audit of it: a request is        *)
(* admitted, makes its change, and records it in a transaction of its own  *)
(* that may fail or never begin.                                           *)
(*                                                                         *)
(* The reset of a customer's workspace is Workspace; here it is its        *)
(* generation.  Lists, monitoring and evaluations are only read.           *)
(***************************************************************************)
EXTENDS Access

VARIABLES
  role,        \* name -> "customer" or "admin"
  generation,  \* name -> resets of its workspace that succeeded
  acting,      \* admitted requests: [by, action, on, step], step "admitted" or "done"
  trail        \* admin_action_audit: [by, action, on, result]

adminvars == <<role, generation, acting, trail>>

Commands ==
  [by : Names, action : {"invitation.create", "invitation.revoke"}, on : Codes]
    \cup [by : Names, action : {"demo_workspace.reset"}, on : Names]

Recorded(r, result) ==
  [by |-> r.by, action |-> r.action, on |-> r.on, result |-> result]

\* set_role, from the command line; sessions of the account go on.
SetRole(n, is) ==
  /\ n \in Registered
  /\ role' = [role EXCEPT ![n] = is]
  /\ UNCHANGED <<accessvars, generation, acting, trail>>

\* require_admin_access looks at the role once, before anything else.
Admit(tab, r) ==
  /\ session[tab] = r.by /\ role[r.by] = "admin"
  /\ acting' = acting \cup {[request |-> r, step |-> "admitted", result |-> "none"]}
  /\ UNCHANGED <<accessvars, role, generation, trail>>

Done(a, result) ==
  acting' = (acting \ {a}) \cup {[a EXCEPT !.step = "done", !.result = result]}

\* create_invitation
Create(a, limit) ==
  /\ a.request.action = "invitation.create" /\ CreateInvitation(a.request.on, limit)
  /\ Done(a, "succeeded")
  /\ UNCHANGED generation

\* revoke_invitation; one that was revoked or has expired stays closed.
Revoke(a) ==
  /\ a.request.action = "invitation.revoke" /\ invitation[a.request.on] # {}
  /\ invitation' = [invitation EXCEPT ![a.request.on] = {[i EXCEPT !.open = FALSE] : i \in @}]
  /\ Done(a, "succeeded")
  /\ UNCHANGED <<account, session, generation>>

\* reset_customer_demo_workspace: a reset that is refused or fails is recorded too, one
\* that was completed before answers with the generation it had.
ResetWorkspace(a) ==
  /\ a.request.action = "demo_workspace.reset" /\ account[a.request.on] # NoOne
  /\ \/ /\ generation' = [generation EXCEPT ![a.request.on] = @ + 1]
        /\ Done(a, "succeeded")
     \/ /\ generation[a.request.on] > 0
        /\ Done(a, "succeeded")
        /\ UNCHANGED generation
     \/ Done(a, "failed") /\ UNCHANGED generation
  /\ UNCHANGED accessvars

\* The target is not there: nothing is changed and nothing recorded.
Refuse(a) ==
  /\ acting' = acting \ {a}
  /\ UNCHANGED <<accessvars, generation>>

Act(a) ==
  /\ a.step = "admitted"
  /\ \/ \E limit \in 1..MaxUses : Create(a, limit)
     \/ Revoke(a)
     \/ ResetWorkspace(a)
     \/ Refuse(a)
  /\ UNCHANGED <<role, trail>>

\* _audit: a record that cannot be written is only logged.
Record(a) ==
  /\ a.step = "done"
  /\ acting' = acting \ {a}
  /\ trail' \in {trail, trail \cup {Recorded(a.request, a.result)}}
  /\ UNCHANGED <<accessvars, role, generation>>

\* The customer resets the workspace; no administrator, no record here.
OwnReset(tab) ==
  /\ session[tab] # NoOne
  /\ generation' = [generation EXCEPT ![session[tab]] = @ + 1]
  /\ UNCHANGED <<accessvars, role, acting, trail>>

Restart ==
  /\ acting' = {}
  /\ UNCHANGED <<accessvars, role, generation, trail>>

-----------------------------------------------------------------------------
AdminInit ==
  /\ AccessInit
  /\ role = [n \in Names |-> "customer"]
  /\ generation = [n \in Names |-> 0]
  /\ acting = {} /\ trail = {}

\* Customers, the passing of time, and invitations from the command line.
Elsewhere ==
  /\ \/ \E n \in Names, c \in Codes : Register(n, c)
     \/ \E c \in Codes, limit \in 1..MaxUses : CreateInvitation(c, limit)
     \/ \E c \in Codes : CloseInvitation(c)
     \/ \E tab \in Tabs : EndSession(tab) \/ \E n \in Names : Login(tab, n)
  /\ UNCHANGED adminvars

AdminNext ==
  \/ Elsewhere
  \/ \E n \in Names, is \in {"customer", "admin"} : SetRole(n, is)
  \/ \E tab \in Tabs, r \in Commands : Admit(tab, r)
  \/ \E a \in acting : Act(a) \/ Record(a)
  \/ \E tab \in Tabs : OwnReset(tab)
  \/ Restart

AdminSpec == AdminInit /\ [][AdminNext]_<<accessvars, adminvars>>

-----------------------------------------------------------------------------
\* A record of a success is about something that happened, however the request was
\* interleaved with others, a change of its role or a restart; what happened may have
\* no record.
HoldsOf(r) ==
  /\ r.action = "invitation.create" => invitation[r.on] # {}
  /\ r.action = "invitation.revoke" => \E i \in invitation[r.on] : ~i.open
  /\ r.action = "demo_workspace.reset" => generation[r.on] > 0
TrailIsTrue == \A r \in trail : r.result = "succeeded" => HoldsOf(r)
=============================================================================
