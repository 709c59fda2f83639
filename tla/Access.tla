-------------------------------- MODULE Access --------------------------------
(***************************************************************************)
(* Invitations, accounts and browser sessions (sqlite_business.py, the     *)
(* routes of web/routes/auth.py, the invitations of web/routes/admin.py).  *)
(*                                                                         *)
(* Hashes, the CSRF token and the rate limiter are left out; the passing   *)
(* of time is the possibility that an invitation or a session ends.        *)
(***************************************************************************)
EXTENDS Integers, FiniteSets

CONSTANTS Names,    \* normalised user names
          Codes,    \* invitation codes
          Tabs,     \* browsers, each with a session cookie or none
          MaxUses,  \* bound: uses of an invitation (the code allows 100)
          NoOne, Earlier

ASSUME AccessAssumption ==
  /\ IsFiniteSet(Names) /\ MaxUses \in Nat \ {0}
  /\ NoOne \notin Names \cup Codes
  /\ Earlier \notin Codes \cup {NoOne}

VARIABLES
  invitation,  \* code -> {} or {[limit, used, open]}: open until revoked or expired
  account,     \* name -> the code it was registered with, Earlier for an
               \* account older than the portfolio data, or NoOne
  session      \* tab -> the name its live session is of, or NoOne

accessvars == <<invitation, account, session>>

Registered == {n \in Names : account[n] # NoOne}

CreateInvitation(c, limit) ==
  /\ invitation[c] = {}
  /\ invitation' = [invitation EXCEPT ![c] = {[limit |-> limit, used |-> 0, open |-> TRUE]}]
  /\ UNCHANGED <<account, session>>

\* revoke_invitation, or its time passes.
CloseInvitation(c) ==
  /\ \E i \in invitation[c] : i.open
  /\ invitation' = [invitation EXCEPT ![c] = {[i EXCEPT !.open = FALSE] : i \in @}]
  /\ UNCHANGED <<account, session>>

\* The one conditional UPDATE of register.
Usable(c) == \E i \in invitation[c] : i.open /\ i.used < i.limit

\* register; a name that is taken rolls the use back.
Register_KeepsUse(n, c) ==     \* mutant: the use is committed before the account
  /\ Usable(c)
  /\ invitation' = [invitation EXCEPT ![c] = {[i EXCEPT !.used = @ + 1] : i \in @}]
  /\ account' = [account EXCEPT ![n] = IF @ = NoOne THEN c ELSE @]
  /\ UNCHANGED session
Register(n, c) ==
  /\ Usable(c) /\ account[n] = NoOne
  /\ invitation' = [invitation EXCEPT ![c] = {[i EXCEPT !.used = @ + 1] : i \in @}]
  /\ account' = [account EXCEPT ![n] = c]
  /\ UNCHANGED session

Login(tab, n) ==
  /\ session[tab] = NoOne /\ n \in Registered
  /\ session' = [session EXCEPT ![tab] = n]
  /\ UNCHANGED <<invitation, account>>

\* logout, or its time passes: resolve_session finds it no more.
EndSession(tab) ==
  /\ session[tab] # NoOne
  /\ session' = [session EXCEPT ![tab] = NoOne]
  /\ UNCHANGED <<invitation, account>>

AccessInit ==
  /\ invitation = [c \in Codes |-> {}]
  /\ account \in [Names -> {NoOne, Earlier}]
  /\ session = [tab \in Tabs |-> NoOne]

-----------------------------------------------------------------------------
\* Every use of an invitation is one account, also when registrations fail or
\* compete, and there are never more than it allows.
UsesAreAccounts ==
  \A c \in Codes : \A i \in invitation[c] :
    i.used <= i.limit /\ i.used = Cardinality({n \in Names : account[n] = c})
=============================================================================
