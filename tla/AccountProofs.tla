---------------------------- MODULE AccountProofs ----------------------------
(***************************************************************************)
(* What belongs to an account, and what an administrator does to it.       *)
(*                                                                         *)
(* Invitations are used as often as accounts were made with them, and the  *)
(* audit of the administrators tells only what happened.  However          *)
(* browsers, graphs, failures and resets meet: an order has one active     *)
(* conversation, its number is kept, the generation of a workspace counts  *)
(* the resets that succeeded, and a reset leaves nothing of the time       *)
(* before.                                                                 *)
(***************************************************************************)
EXTENDS Workspace, Admin, FiniteSetTheorems, TLAPS

-----------------------------------------------------------------------------
(* Invitations and the audit                                               *)

\* Every code an account was made with is that of an invitation, which is one row.
MadeWith(c) == {n \in Names : account[n] = c}

AccessInv ==
  /\ account \in [Names -> Codes \cup {NoOne, Earlier}]
  /\ DOMAIN invitation = Codes
  /\ \A c \in Codes : \A i, j \in invitation[c] : i = j
  /\ \A c \in Codes : \A i \in invitation[c] :
       /\ i \in [limit : Nat, used : Nat, open : BOOLEAN]
       /\ i.used <= i.limit /\ i.used = Cardinality(MadeWith(c))
  /\ \A n \in Names : account[n] \in Codes => invitation[account[n]] # {}

Acting ==
  [request : Commands, step : {"admitted"}, result : {"none"}]
    \cup [request : Commands, step : {"done"}, result : {"succeeded", "failed"}]

AdminType ==
  /\ generation \in [Names -> Nat]
  /\ acting \subseteq Acting
  /\ \A r \in trail : \E q \in Commands, result \in {"succeeded", "failed"} : r = Recorded(q, result)

\* What is about to be recorded happened, too.
ActedIsTrue == \A a \in acting : a.step = "done" /\ a.result = "succeeded" => HoldsOf(a.request)

AdminInv == AccessInv /\ AdminType /\ ActedIsTrue /\ TrailIsTrue

everything == <<accessvars, adminvars>>

Closes(c) ==
  /\ invitation' = [invitation EXCEPT ![c] = {[i EXCEPT !.open = FALSE] : i \in @}]
  /\ UNCHANGED account

Offers(c) == \E limit \in 1..MaxUses : CreateInvitation(c, limit)

(* What any step does to invitations and accounts: nothing; a new          *)
(* invitation; one that is closed, for good; or one more use for one more  *)
(* account.                                                                *)
LEMMA AccessSteps ==
  ASSUME AdminType, [AdminNext]_everything
  PROVE  \/ UNCHANGED <<invitation, account>>
         \/ \E c \in Codes : Offers(c) \/ Closes(c)
         \/ \E n \in Names, c \in Codes : Register(n, c)
<1>1. CASE Elsewhere
  <2>1. CASE \E n \in Names, c \in Codes : Register(n, c)
    BY <2>1
  <2>2. CASE \E c \in Codes, limit \in 1..MaxUses : CreateInvitation(c, limit)
    BY <2>2 DEF Offers
  <2>3. CASE \E c \in Codes : CloseInvitation(c)
    BY <2>3 DEF CloseInvitation, Closes
  <2>4. CASE \E tab \in Tabs : EndSession(tab) \/ \E n \in Names : Login(tab, n)
    BY <2>4 DEF EndSession, Login
  <2> QED BY <1>1, <2>1, <2>2, <2>3, <2>4 DEF Elsewhere
<1>2. ASSUME NEW a \in acting, Act(a)
      PROVE  UNCHANGED <<invitation, account>> \/ \E c \in Codes : Offers(c) \/ Closes(c)
  <2>1. a.request \in Commands
    BY DEF AdminType, Acting
  <2>2. ASSUME NEW limit \in 1..MaxUses, Create(a, limit) PROVE \E c \in Codes : Offers(c)
    BY <2>1, <2>2 DEF Create, Commands, Offers
  <2>3. ASSUME Revoke(a) PROVE \E c \in Codes : Closes(c)
    BY <2>1, <2>3 DEF Revoke, Commands, Closes
  <2>4. ASSUME ResetWorkspace(a) \/ Refuse(a) PROVE UNCHANGED <<invitation, account>>
    BY <2>4 DEF ResetWorkspace, Refuse, accessvars
  <2> QED BY <1>2, <2>2, <2>3, <2>4 DEF Act
<1>3. CASE \/ \E n \in Names, is \in {"customer", "admin"} : SetRole(n, is)
           \/ \E tab \in Tabs, r \in Commands : Admit(tab, r)
           \/ \E a \in acting : Record(a)
           \/ \E tab \in Tabs : OwnReset(tab)
           \/ Restart
           \/ UNCHANGED everything
  BY <1>3 DEF SetRole, Admit, Record, OwnReset, Restart, accessvars, everything
<1> QED BY <1>1, <1>2, <1>3 DEF AdminNext

(* Nothing that was recorded is undone: an invitation stays, closed if it  *)
(* was closed.                                                             *)
LEMMA AccessOnward ==
  ASSUME AccessInv, AdminType, [AdminNext]_everything, NEW c \in Codes
  PROVE  /\ invitation[c] # {} => invitation'[c] # {}
         /\ (\E i \in invitation[c] : ~i.open) => \E i \in invitation'[c] : ~i.open
<1>1. CASE UNCHANGED <<invitation, account>>
  BY <1>1
<1>2. ASSUME NEW d \in Codes, Offers(d) PROVE invitation[c] # {} => invitation'[c] = invitation[c]
  BY <1>2 DEF Offers, CreateInvitation, AccessInv
<1>3. ASSUME NEW d \in Codes, Closes(d)
      PROVE  /\ invitation[c] # {} => invitation'[c] # {}
             /\ (\E i \in invitation[c] : ~i.open) => \E i \in invitation'[c] : ~i.open
  <2>1. CASE c # d
    BY <1>3, <2>1 DEF Closes, AccessInv
  <2>2. CASE c = d
    <3>1. invitation'[c] = {[i EXCEPT !.open = FALSE] : i \in invitation[c]}
      BY <1>3, <2>2 DEF Closes, AccessInv
    <3>2. ASSUME NEW i \in invitation[c] PROVE ~[i EXCEPT !.open = FALSE].open
      BY DEF AccessInv
    <3> QED BY <3>1, <3>2
  <2> QED BY <2>1, <2>2
<1>4. ASSUME NEW n \in Names, NEW d \in Codes, Register(n, d)
      PROVE  /\ invitation[c] # {} => invitation'[c] # {}
             /\ (\E i \in invitation[c] : ~i.open) => \E i \in invitation'[c] : ~i.open
  <2>1. CASE c # d
    BY <1>4, <2>1 DEF Register, AccessInv
  <2>2. CASE c = d
    <3>1. invitation'[c] = {[i EXCEPT !.used = i.used + 1] : i \in invitation[c]}
      BY <1>4, <2>2 DEF Register, AccessInv
    <3>2. ASSUME NEW i \in invitation[c] PROVE [i EXCEPT !.used = i.used + 1].open = i.open
      BY DEF AccessInv
    <3> QED BY <3>1, <3>2
  <2> QED BY <2>1, <2>2
<1> QED BY <1>1, <1>2, <1>3, <1>4, AccessSteps

-----------------------------------------------------------------------------
(* Uses and accounts                                                       *)

LEMMA AccessKeeps ==
  ASSUME AccessInv, AdminType, [AdminNext]_everything
  PROVE  AccessInv'
<1>1. CASE UNCHANGED <<invitation, account>>
  BY <1>1 DEF AccessInv, MadeWith
<1>2. ASSUME NEW c \in Codes, Offers(c) PROVE AccessInv'
  <2>1. PICK limit \in 1..MaxUses : CreateInvitation(c, limit)
    BY <1>2 DEF Offers
  <2>2. MadeWith(c) = {}
    BY <2>1 DEF AccessInv, CreateInvitation, MadeWith
  <2>3. Cardinality({}) = 0
    BY FS_EmptySet
  <2>4. \A d \in Codes : MadeWith(d)' = MadeWith(d)
    BY <2>1 DEF CreateInvitation, MadeWith
  <2> DEFINE made == [limit |-> limit, used |-> 0, open |-> TRUE]
  <2>5. invitation'[c] = {made}
        /\ \A d \in Codes \ {c} : invitation'[d] = invitation[d]
    BY <2>1 DEF CreateInvitation, AccessInv
  <2>6. made \in [limit : Nat, used : Nat, open : BOOLEAN] /\ made.used = 0 /\ made.used <= made.limit
    BY AccessAssumption
  <2>7. account' = account /\ DOMAIN invitation' = Codes
    BY <2>1 DEF CreateInvitation, AccessInv
  <2> HIDE DEF made
  <2>8. \A d \in Codes : \A k, l \in invitation'[d] : k = l
    BY <2>5 DEF AccessInv
  <2>9. ASSUME NEW d \in Codes, NEW k \in invitation'[d]
        PROVE  /\ k \in [limit : Nat, used : Nat, open : BOOLEAN]
               /\ k.used <= k.limit /\ k.used = Cardinality(MadeWith(d)')
    <3>1. CASE d = c
      BY <2>2, <2>3, <2>4, <2>5, <2>6, <3>1
    <3>2. CASE d # c
      BY <2>4, <2>5, <3>2 DEF AccessInv
    <3> QED BY <3>1, <3>2
  <2>10. \A m \in Names : account'[m] \in Codes => invitation'[account'[m]] # {}
    BY <2>5, <2>7 DEF AccessInv
  <2> QED BY <2>7, <2>8, <2>9, <2>10 DEF AccessInv
<1>3. ASSUME NEW c \in Codes, Closes(c) PROVE AccessInv'
  <2>1. invitation'[c] = {[i EXCEPT !.open = FALSE] : i \in invitation[c]}
        /\ \A d \in Codes \ {c} : invitation'[d] = invitation[d]
    BY <1>3 DEF Closes, AccessInv
  <2>2. account' = account /\ DOMAIN invitation' = Codes
    BY <1>3 DEF Closes, AccessInv
  <2>3. \A d \in Codes : MadeWith(d)' = MadeWith(d)
    BY <2>2 DEF MadeWith
  <2>4. ASSUME NEW j \in invitation'[c]
        PROVE  /\ j \in [limit : Nat, used : Nat, open : BOOLEAN]
               /\ j.used <= j.limit /\ j.used = Cardinality(MadeWith(c))
    <3>1. PICK i \in invitation[c] : j = [i EXCEPT !.open = FALSE]
      BY <2>1
    <3>2. i \in [limit : Nat, used : Nat, open : BOOLEAN]
          /\ i.used <= i.limit /\ i.used = Cardinality(MadeWith(c))
      BY DEF AccessInv
    <3>3. j \in [limit : Nat, used : Nat, open : BOOLEAN] /\ j.used = i.used /\ j.limit = i.limit
      BY <3>1, <3>2
    <3> QED BY <3>2, <3>3
  <2>5. ASSUME NEW d \in Codes, NEW k \in invitation'[d], NEW l \in invitation'[d] PROVE k = l
    <3>1. CASE d = c
      <4>1. PICK i \in invitation[c] : k = [i EXCEPT !.open = FALSE]
        BY <2>1, <3>1
      <4>2. PICK j \in invitation[c] : l = [j EXCEPT !.open = FALSE]
        BY <2>1, <3>1
      <4>3. i = j
        BY DEF AccessInv
      <4> QED BY <4>1, <4>2, <4>3
    <3>2. CASE d # c
      BY <2>1, <3>2 DEF AccessInv
    <3> QED BY <3>1, <3>2
  <2>6. ASSUME NEW d \in Codes, NEW k \in invitation'[d]
        PROVE  /\ k \in [limit : Nat, used : Nat, open : BOOLEAN]
               /\ k.used <= k.limit /\ k.used = Cardinality(MadeWith(d)')
    <3>1. CASE d = c
      BY <2>3, <2>4, <3>1
    <3>2. CASE d # c
      BY <2>1, <2>3, <3>2 DEF AccessInv
    <3> QED BY <3>1, <3>2
  <2>7. \A m \in Names : account'[m] \in Codes => invitation'[account'[m]] # {}
    <3>1. invitation[c] # {} => invitation'[c] # {}
      BY <2>1
    <3> QED BY <2>1, <2>2, <3>1 DEF AccessInv
  <2> QED BY <2>2, <2>5, <2>6, <2>7 DEF AccessInv
<1>4. ASSUME NEW n \in Names, NEW c \in Codes, Register(n, c) PROVE AccessInv'
  <2>1. PICK i \in invitation[c] : i.open /\ i.used < i.limit
    BY <1>4 DEF Register, Usable
  <2>2. invitation[c] = {i} /\ i \in [limit : Nat, used : Nat, open : BOOLEAN]
        /\ i.used = Cardinality(MadeWith(c))
    BY <2>1 DEF AccessInv
  <2> DEFINE j == [i EXCEPT !.used = i.used + 1]
  <2>3. invitation'[c] = {j} /\ \A d \in Codes \ {c} : invitation'[d] = invitation[d]
    BY <1>4, <2>2 DEF Register, AccessInv
  <2>4. j \in [limit : Nat, used : Nat, open : BOOLEAN] /\ j.used = i.used + 1 /\ j.used <= j.limit
    BY <2>1, <2>2
  <2>5. /\ account' = [account EXCEPT ![n] = c] /\ account[n] = NoOne
        /\ DOMAIN invitation' = Codes
    BY <1>4 DEF Register, AccessInv
  <2>6. MadeWith(c)' = MadeWith(c) \cup {n} /\ n \notin MadeWith(c)
    BY <2>5, AccessAssumption DEF MadeWith, AccessInv
  <2>7. IsFiniteSet(MadeWith(c))
    BY FS_Subset, AccessAssumption DEF MadeWith
  <2>8. Cardinality(MadeWith(c)') = Cardinality(MadeWith(c)) + 1
    BY <2>6, <2>7, FS_AddElement
  <2>9. \A d \in Codes \ {c} : MadeWith(d)' = MadeWith(d)
    BY <2>5, AccessAssumption DEF MadeWith, AccessInv
  <2> HIDE DEF j
  <2>10. \A d \in Codes : \A k, l \in invitation'[d] : k = l
    BY <2>3 DEF AccessInv
  <2>11. ASSUME NEW d \in Codes, NEW k \in invitation'[d]
         PROVE  /\ k \in [limit : Nat, used : Nat, open : BOOLEAN]
                /\ k.used <= k.limit /\ k.used = Cardinality(MadeWith(d)')
    BY <2>2, <2>3, <2>4, <2>8, <2>9 DEF AccessInv
  <2>12. \A m \in Names : account'[m] \in Codes => invitation'[account'[m]] # {}
    BY <2>3, <2>5 DEF AccessInv
  <2>13. account' \in [Names -> Codes \cup {NoOne, Earlier}]
    BY <2>5 DEF AccessInv
  <2> QED BY <2>5, <2>10, <2>11, <2>12, <2>13 DEF AccessInv
<1> QED BY <1>1, <1>2, <1>3, <1>4, AccessSteps

-----------------------------------------------------------------------------
(* The audit                                                               *)

(* What holds of a request goes on to hold.                                *)
LEMMA HoldsOnward ==
  ASSUME AdminInv, [AdminNext]_everything, NEW r \in Commands, HoldsOf(r)
  PROVE  HoldsOf(r)'
<1>1. \A n \in Names : generation'[n] \in Nat /\ generation'[n] >= generation[n]
  <2>1. CASE UNCHANGED generation
    BY <2>1 DEF AdminInv, AdminType
  <2>2. ASSUME NEW a \in acting, ResetWorkspace(a)
        PROVE  \A n \in Names : generation'[n] \in Nat /\ generation'[n] >= generation[n]
    BY <2>2 DEF ResetWorkspace, AdminInv, AdminType
  <2>3. ASSUME NEW tab \in Tabs, OwnReset(tab)
        PROVE  \A n \in Names : generation'[n] \in Nat /\ generation'[n] >= generation[n]
    BY <2>3 DEF OwnReset, AdminInv, AdminType
  <2> QED BY <2>1, <2>2, <2>3 DEF AdminNext, Elsewhere, SetRole, Admit, Act, Create, Revoke, Refuse,
                            Record, Restart, adminvars, everything
<1>2. CASE r.action = "demo_workspace.reset"
  <2>1. r.on \in Names
    BY <1>2 DEF Commands
  <2>2. generation[r.on] > 0 /\ generation \in [Names -> Nat]
    BY <1>2 DEF HoldsOf, AdminInv, AdminType
  <2>3. generation'[r.on] > 0
    BY <1>1, <2>1, <2>2
  <2> QED BY <1>2, <2>3 DEF HoldsOf
<1>3. CASE r.action \in {"invitation.create", "invitation.revoke"}
  <2>1. r.on \in Codes
    BY <1>3 DEF Commands
  <2> QED BY <1>3, <2>1, AccessOnward DEF AdminInv, HoldsOf
<1> QED BY <1>2, <1>3 DEF Commands

(* What was made, happened.                                                *)
LEMMA ActIsTrue ==
  ASSUME AdminInv, NEW a \in acting, Act(a)
  PROVE  ActedIsTrue'
<1>1. a.request \in Commands /\ a \in Acting
  BY DEF AdminInv, AdminType, Acting
<1>2. [AdminNext]_everything
  BY DEF AdminNext
<1>3. ASSUME NEW b \in acting, b.step = "done", b.result = "succeeded"
      PROVE  HoldsOf(b.request)'
  <2>1. b.request \in Commands /\ HoldsOf(b.request)
    BY <1>3 DEF AdminInv, AdminType, Acting, ActedIsTrue
  <2> QED BY <1>2, <2>1, HoldsOnward
<1>4. ASSUME NEW result, Done(a, result), result = "succeeded" => HoldsOf(a.request)'
      PROVE  ActedIsTrue'
  <2> DEFINE made == [a EXCEPT !.step = "done", !.result = result]
  <2>1. made.request = a.request /\ made.result = result
    BY <1>1 DEF Acting
  <2>2. acting' = (acting \ {a}) \cup {made}
    BY <1>4 DEF Done
  <2>3. ASSUME NEW b \in acting', b.step = "done", b.result = "succeeded" PROVE HoldsOf(b.request)'
    <3>1. CASE b \in acting
      BY <1>3, <2>3, <3>1
    <3>2. CASE b = made
      BY <1>4, <2>1, <2>3, <3>2
    <3> HIDE DEF made
    <3> QED BY <2>2, <3>1, <3>2
  <2> QED BY <2>3 DEF ActedIsTrue
<1>5. ASSUME NEW limit \in 1..MaxUses, Create(a, limit) PROVE ActedIsTrue'
  <2>1. a.request.on \in Codes /\ a.request.action = "invitation.create"
    BY <1>1, <1>5 DEF Create, Commands
  <2>2. invitation'[a.request.on] # {}
    BY <1>5, <2>1 DEF Create, CreateInvitation, AdminInv, AccessInv
  <2>3. HoldsOf(a.request)'
    BY <2>1, <2>2 DEF HoldsOf
  <2> QED BY <1>4, <1>5, <2>3 DEF Create
<1>6. ASSUME Revoke(a) PROVE ActedIsTrue'
  <2>1. a.request.on \in Codes /\ a.request.action = "invitation.revoke"
    BY <1>1, <1>6 DEF Revoke, Commands
  <2>2. PICK i \in invitation[a.request.on] : TRUE
    BY <1>6 DEF Revoke
  <2>3. invitation'[a.request.on] = {[j EXCEPT !.open = FALSE] : j \in invitation[a.request.on]}
    BY <1>6, <2>1 DEF Revoke, AdminInv, AccessInv
  <2>4. ~[i EXCEPT !.open = FALSE].open
    BY <2>1, <2>2 DEF AdminInv, AccessInv
  <2>5. \E j \in invitation'[a.request.on] : ~j.open
    BY <2>2, <2>3, <2>4
  <2>6. HoldsOf(a.request)'
    BY <2>1, <2>5 DEF HoldsOf
  <2> QED BY <1>4, <1>6, <2>6 DEF Revoke
<1>7. ASSUME ResetWorkspace(a) PROVE ActedIsTrue'
  <2>1. a.request.on \in Names /\ a.request.action = "demo_workspace.reset"
    BY <1>1, <1>7 DEF ResetWorkspace, Commands
  <2>2. generation \in [Names -> Nat]
    BY DEF AdminInv, AdminType
  <2>3. Done(a, "failed") \/ (Done(a, "succeeded") /\ generation'[a.request.on] > 0)
    BY <1>7, <2>1, <2>2 DEF ResetWorkspace
  <2> QED BY <1>4, <2>1, <2>3 DEF HoldsOf
<1>8. ASSUME Refuse(a) PROVE ActedIsTrue'
  BY <1>3, <1>8 DEF Refuse, ActedIsTrue
<1> QED BY <1>5, <1>6, <1>7, <1>8 DEF Act

LEMMA TypeKeeps ==
  ASSUME AdminInv, [AdminNext]_everything
  PROVE  AdminType'
<1>1. generation' \in [Names -> Nat]
  BY DEF AdminInv, AdminType, AdminNext, Elsewhere, SetRole, Admit, Act, Create, Revoke,
         ResetWorkspace, Refuse, Record, OwnReset, Restart, adminvars, everything
<1>2. acting' \subseteq Acting
  <2>0. acting \subseteq Acting
    BY DEF AdminInv, AdminType
  <2>1. ASSUME NEW a \in acting, NEW result \in {"succeeded", "failed"}, Done(a, result)
        PROVE  acting' \subseteq Acting
    <3>1. a \in Acting
      BY <2>0
    <3>2. [a EXCEPT !.step = "done", !.result = result] \in Acting
      BY <3>1 DEF Acting
    <3> QED BY <2>0, <2>1, <3>2 DEF Done
  <2>2. ASSUME NEW a \in acting, Act(a) PROVE acting' \subseteq Acting
    BY <2>0, <2>1, <2>2 DEF Act, Create, Revoke, ResetWorkspace, Refuse
  <2>3. ASSUME NEW tab \in Tabs, NEW r \in Commands, Admit(tab, r) PROVE acting' \subseteq Acting
    BY <2>0, <2>3 DEF Admit, Acting
  <2>4. CASE acting' \subseteq acting
    BY <2>0, <2>4
  <2> QED BY <2>2, <2>3, <2>4 DEF AdminNext, Elsewhere, SetRole, Record, OwnReset, Restart, adminvars, everything
<1>3. ASSUME NEW r \in trail'
      PROVE  \E q \in Commands, result \in {"succeeded", "failed"} : r = Recorded(q, result)
  <2>1. CASE r \in trail
    BY <2>1 DEF AdminInv, AdminType
  <2>2. ASSUME NEW a \in acting, Record(a), r \notin trail
        PROVE  /\ r = Recorded(a.request, a.result) /\ a.request \in Commands
               /\ a.result \in {"succeeded", "failed"}
    BY <1>3, <2>2 DEF Record, AdminInv, AdminType, Acting
  <2>3. CASE trail' = trail
    BY <1>3, <2>1, <2>3
  <2>4. CASE \E a \in acting : Record(a)
    BY <2>1, <2>2, <2>4
  <2> QED BY <2>3, <2>4 DEF AdminNext, Elsewhere, SetRole, Admit, Act, OwnReset, Restart, adminvars, everything
<1> QED BY <1>1, <1>2, <1>3 DEF AdminType

(* What is written down, was made.                                         *)
LEMMA TrailKeeps ==
  ASSUME AdminInv, [AdminNext]_everything
  PROVE  TrailIsTrue' /\ ActedIsTrue'
<1>1. ASSUME NEW r \in trail, r.result = "succeeded" PROVE HoldsOf(r)'
  <2>1. PICK q \in Commands, result \in {"succeeded", "failed"} : r = Recorded(q, result)
    BY DEF AdminInv, AdminType
  <2>2. r.action = q.action /\ r.on = q.on
    BY <2>1 DEF Recorded
  <2>3. HoldsOf(q)
    BY <1>1, <2>2 DEF AdminInv, TrailIsTrue, HoldsOf
  <2>4. HoldsOf(q)'
    BY <2>3, HoldsOnward
  <2> QED BY <2>2, <2>4 DEF HoldsOf
<1>2. ASSUME NEW a \in acting, a.step = "done", a.result = "succeeded" PROVE HoldsOf(a.request)'
  <2>1. a.request \in Commands /\ HoldsOf(a.request)
    BY <1>2 DEF AdminInv, AdminType, Acting, ActedIsTrue
  <2> QED BY <2>1, HoldsOnward
<1>3. ASSUME NEW a \in acting, Act(a) PROVE TrailIsTrue' /\ ActedIsTrue'
  BY <1>1, <1>3, ActIsTrue DEF Act, TrailIsTrue
<1>4. ASSUME NEW a \in acting, Record(a) PROVE TrailIsTrue' /\ ActedIsTrue'
  <2>1. acting' \subseteq acting /\ a.step = "done"
    BY <1>4 DEF Record
  <2>2. ASSUME NEW r \in trail', r \notin trail, r.result = "succeeded" PROVE HoldsOf(r)'
    <3>1. r = Recorded(a.request, a.result)
      BY <1>4, <2>2 DEF Record
    <3>2. r.action = a.request.action /\ r.on = a.request.on /\ r.result = a.result
      BY <3>1 DEF Recorded
    <3>3. HoldsOf(a.request)'
      BY <1>2, <2>1, <2>2, <3>2
    <3> QED BY <3>2, <3>3 DEF HoldsOf
  <2> QED BY <1>1, <1>2, <2>1, <2>2 DEF TrailIsTrue, ActedIsTrue
<1>5. ASSUME NEW tab \in Tabs, NEW r \in Commands, Admit(tab, r) PROVE TrailIsTrue' /\ ActedIsTrue'
  BY <1>1, <1>2, <1>5 DEF Admit, TrailIsTrue, ActedIsTrue
<1>6. CASE trail' = trail /\ acting' \subseteq acting
  BY <1>1, <1>2, <1>6 DEF TrailIsTrue, ActedIsTrue
<1> QED BY <1>3, <1>4, <1>5, <1>6 DEF AdminNext, Elsewhere, SetRole, OwnReset, Restart, adminvars, everything

LEMMA AdminInvariant == AdminSpec => []AdminInv
<1>1. ASSUME AdminInit PROVE AdminInv
  <2>1. AccessInv
    BY <1>1, AccessAssumption DEF AdminInit, AccessInit, AccessInv
  <2> QED BY <1>1, <2>1 DEF AdminInit, AdminInv, AdminType, ActedIsTrue, TrailIsTrue
<1>2. AdminInv /\ [AdminNext]_everything => AdminInv'
  BY AccessKeeps, TypeKeeps, TrailKeeps DEF AdminInv
<1> QED BY <1>1, <1>2, PTL DEF AdminSpec, everything

(* Every use of an invitation is one account, and there are never more than *)
(* it allows, also while administrators make and revoke invitations and     *)
(* requests die half way.                                                   *)
THEOREM InvitationsAreAccounts == AdminSpec => []UsesAreAccounts
<1>1. AdminInv => UsesAreAccounts
  BY DEF AdminInv, AccessInv, MadeWith, UsesAreAccounts
<1> QED BY <1>1, AdminInvariant, PTL

(* The audit of the administrators never tells a success of something that  *)
(* did not happen.                                                          *)
THEOREM AuditIsTrue == AdminSpec => []TrailIsTrue
BY AdminInvariant, PTL DEF AdminInv

-----------------------------------------------------------------------------
(* Workspaces                                                              *)

Prefs == Names \X Kinds
Anyone == Names \cup {NoOne}

Rows == [status : {"unset", "ready", "resetting"}, generation : Nat, active : Requests \cup {NoOne}]

\* What holds the lock of a workspace; the numbers it keeps are those that are there.
Plans(n) ==
  [step : {"checkpoints", "memory"}, id : Requests, generation : Nat,
   left : SUBSET (Threads \cup Prefs), kept : {orders[n]}]

AccessType == account \in [Names -> Codes \cup {NoOne, Earlier}] /\ session \in [Tabs -> Anyone]

DataType ==
  /\ ws \in [Names -> Rows]
  /\ audit \in [Names -> SUBSET [id : Requests, generation : Nat]]
  /\ DOMAIN orders = Names /\ orders = [n \in Names |-> orders[n]]
  /\ \A n \in Names : DOMAIN orders[n] \subseteq Scenarios
  /\ reset = [n \in Names |-> reset[n]]
  /\ \A n \in Names : reset[n] = Idle \/ reset[n] \in Plans(n)

RestType ==
  /\ tasks \subseteq [thread : Threads, owner : Names, order : Scenarios,
                      life : {"active", "archived"}]
  /\ owner \in [Threads -> Anyone]
  /\ opening \in [Tabs -> [order : Scenarios, of : Names] \cup {NoOrder}]
  /\ saved \subseteq Threads /\ busy \subseteq Threads
  /\ memory \subseteq Prefs /\ editing \subseteq Prefs
  /\ late \subseteq Threads \cup Prefs

\* A conversation is of the one its thread was drawn for, and no graph runs and no
\* checkpoint is left of a thread that was not drawn.
Owned ==
  /\ \A k \in tasks : owner[k.thread] = k.owner
  /\ \A t \in saved \cup busy : owner[t] # NoOne

\* An account that was never made has nothing to reset.
NewIsFresh ==
  \A n \in Names : account[n] = NoOne =>
    reset[n] = Idle /\ ~Resetting(n) /\ audit[n] = {} /\ orders[n] = <<>>

AccountStep ==
  \/ \E c \in Codes, limit \in 1..MaxUses : CreateInvitation(c, limit)
  \/ \E c \in Codes : CloseInvitation(c)
  \/ \E tab \in Tabs : EndSession(tab) \/ \E n \in Followed : Login(tab, n)

(* Every step is one of these.                                             *)
LEMMA StepCases ==
  ASSUME [WorkspaceNext]_wsvars
  PROVE  \/ UNCHANGED wsvars
         \/ AccountStep /\ UNCHANGED restvars
         \/ \E n \in Names, c \in Codes : Join(n, c)
         \/ \E tab \in Tabs, s \in Scenarios : Look(tab, s)
         \/ \E tab \in Tabs, t \in Threads : Open(tab, t)
         \/ \E tab \in Tabs, k \in tasks : Archive(tab, k)
         \/ \E tab \in Tabs, k \in tasks : StartGraph(tab, k)
         \/ \E tab \in Tabs, p \in Prefs : Edit(tab, p)
         \/ \E t \in Threads : RunGraph(t)
         \/ \E p \in editing : Correct(p)
         \/ Crash
         \/ \E n \in Names, id \in Requests : BeginReset(n, id)
         \/ \E n \in Names : Clear(n)
         \/ \E n \in Names : CompleteReset(n)
         \/ \E n \in Names : FailReset(n)
<1>1. CASE Accounts
  BY <1>1 DEF Accounts, AccountStep
<1>2. CASE Conversing
  BY <1>2 DEF Conversing, Prefs
<1>3. CASE \E n \in Followed : Reset(n)
  BY <1>3, WorkspaceAssumption DEF Reset
<1> QED BY <1>1, <1>2, <1>3 DEF WorkspaceNext

-----------------------------------------------------------------------------
(* Types                                                                   *)

LEMMA AccessTypeStep ==
  ASSUME AccessType, [WorkspaceNext]_wsvars
  PROVE  AccessType'
<1>1. CASE UNCHANGED accessvars
  BY <1>1 DEF AccessType, accessvars, Anyone
<1>2. CASE AccountStep
  BY <1>2, WorkspaceAssumption DEF AccountStep, AccessType, Anyone, Registered,
     CreateInvitation, CloseInvitation, EndSession, Login
<1>3. ASSUME NEW n \in Names, NEW c \in Codes, Join(n, c) PROVE AccessType'
  BY <1>3 DEF Join, Register, AccessType, Anyone
<1> QED BY <1>1, <1>2, <1>3, StepCases
     DEF wsvars, Look, Open, Archive, StartGraph, Edit, RunGraph, Correct, Crash,
         BeginReset, Clear, CompleteReset, FailReset

(* Accounts, workspace rows, audits and plans.                             *)
LEMMA DataTypeStep ==
  ASSUME AccessType, DataType, RestType, NewIsFresh, [WorkspaceNext]_wsvars
  PROVE  DataType' /\ NewIsFresh'
<1> USE DEF DataType, NewIsFresh, Resetting
<1>1. CASE UNCHANGED <<account, ws, audit, orders, reset>>
  BY <1>1 DEF Plans
<1>2. CASE AccountStep /\ UNCHANGED restvars
  BY <1>1, <1>2 DEF AccountStep, restvars, CreateInvitation, CloseInvitation, EndSession, Login
<1>3. ASSUME NEW n \in Names, NEW c \in Codes, Join(n, c) PROVE DataType' /\ NewIsFresh'
  <2>1. /\ account[n] = NoOne /\ account' = [account EXCEPT ![n] = c]
        /\ ws' = [ws EXCEPT ![n] = [@ EXCEPT !.status = "ready"]]
        /\ UNCHANGED <<audit, reset>>
        /\ \E f : DOMAIN f = Scenarios /\ orders' = [orders EXCEPT ![n] = f]
    BY <1>3 DEF Join, Register, Baseline
  <2>2. ws' \in [Names -> Rows]
    <3>1. ws[n] \in Rows
      OBVIOUS
    <3>2. [ws[n] EXCEPT !.status = "ready"] \in Rows
      BY <3>1 DEF Rows
    <3> QED BY <2>1, <3>2
  <2>3. c # NoOne
    BY AccessAssumption
  <2>4. \A m \in Names : m # n => /\ ws'[m] = ws[m] /\ orders'[m] = orders[m]
                                  /\ Plans(m)' = Plans(m) /\ account'[m] = account[m]
    BY <2>1 DEF Plans, AccessType
  <2>5. reset'[n] = Idle /\ account'[n] = c
    BY <2>1 DEF AccessType
  <2>6. DOMAIN orders' = Names /\ orders' = [m \in Names |-> orders'[m]]
    BY <2>1
  <2>7. DataType'
    BY <2>1, <2>2, <2>4, <2>5, <2>6
  <2>8. NewIsFresh'
    BY <2>1, <2>3, <2>4, <2>5
  <2> QED BY <2>7, <2>8
<1>4. ASSUME NEW n \in Names, NEW id \in Requests, BeginReset(n, id)
      PROVE  DataType' /\ NewIsFresh'
  <2>1. /\ n \in Registered
        /\ ws' = [ws EXCEPT ![n] = [status |-> "resetting", generation |-> Generation(n, id),
                                    active |-> id]]
        /\ reset' = [reset EXCEPT ![n] = [step |-> "checkpoints", id |-> id,
                       generation |-> Generation(n, id), left |-> PlannedThreads(n),
                       kept |-> orders[n]]]
        /\ UNCHANGED <<account, audit, orders>>
    BY <1>4 DEF BeginReset, accessvars
  <2>2. n \in Names /\ account[n] # NoOne
    BY <2>1 DEF Registered
  <2>3. Generation(n, id) \in Nat
    BY DEF Generation, Rows
  <2>4. PlannedThreads(n) \subseteq Threads
    BY DEF PlannedThreads, TasksOf, RestType
  <2>5. reset'[n] \in Plans(n)'
    BY <2>1, <2>3, <2>4 DEF Plans
  <2>6. \A m \in Names : m # n => ws'[m] = ws[m] /\ reset'[m] = reset[m] /\ Plans(m)' = Plans(m)
    BY <2>1 DEF Plans
  <2>7. ws' \in [Names -> Rows]
    BY <2>1, <2>3 DEF Rows
  <2>8. DataType'
    BY <2>1, <2>5, <2>6, <2>7
  <2>9. NewIsFresh'
    BY <2>1, <2>2, <2>6
  <2> QED BY <2>8, <2>9
<1>5. ASSUME NEW n \in Names, Clear(n) PROVE DataType' /\ NewIsFresh'
  <2>1. /\ reset[n] # Idle
        /\ \E step \in {"checkpoints", "memory"}, left \in SUBSET (Threads \cup Prefs) :
             reset' = [reset EXCEPT ![n].step = step, ![n].left = left]
        /\ UNCHANGED <<account, ws, audit, orders>>
    <3>1. reset[n] # Idle /\ UNCHANGED <<account, ws, audit, orders>>
      BY <1>5 DEF Clear, Idle, accessvars
    <3>2. reset[n] \in Plans(n)
      BY <3>1
    <3>3. CASE \E x : reset' = [reset EXCEPT ![n].left = @ \ {x}]
      <4>1. PICK x : reset' = [reset EXCEPT ![n].left = @ \ {x}]
        BY <3>3
      <4>2. reset[n].step \in {"checkpoints", "memory"} /\ reset[n].left \ {x} \in SUBSET (Threads \cup Prefs)
        BY <3>2 DEF Plans
      <4>3. [reset[n] EXCEPT !.left = @ \ {x}]
              = [[reset[n] EXCEPT !.step = reset[n].step] EXCEPT !.left = reset[n].left \ {x}]
        BY <3>2 DEF Plans
      <4>4. reset' = [reset EXCEPT ![n].step = reset[n].step, ![n].left = reset[n].left \ {x}]
        BY <4>1, <4>3
      <4> QED BY <3>1, <4>2, <4>4
    <3>4. CASE reset' = [reset EXCEPT ![n].step = "memory", ![n].left = {p \in memory : p[1] = n}]
      <4>1. {p \in memory : p[1] = n} \in SUBSET (Threads \cup Prefs)
        BY DEF RestType
      <4> QED BY <3>1, <3>4, <4>1
    <3> QED BY <1>5, <3>1, <3>3, <3>4 DEF Clear
  <2>2. PICK step \in {"checkpoints", "memory"}, left \in SUBSET (Threads \cup Prefs) :
          reset' = [reset EXCEPT ![n].step = step, ![n].left = left]
    BY <2>1
  <2>3. reset'[n] = [[reset[n] EXCEPT !.step = step] EXCEPT !.left = left]
    BY <2>2
  <2>4. reset[n] \in Plans(n) /\ Plans(n)' = Plans(n)
    BY <2>1 DEF Plans
  <2>5. reset'[n] \in Plans(n)'
    <3> DEFINE moved == [reset[n] EXCEPT !.step = step]
    <3>1. moved \in Plans(n)
      BY <2>4 DEF Plans
    <3> HIDE DEF moved
    <3>2. [moved EXCEPT !.left = left] \in Plans(n)
      BY <3>1 DEF Plans
    <3> QED BY <2>3, <2>4, <3>2 DEF moved
  <2>6. \A m \in Names : m # n => reset'[m] = reset[m] /\ Plans(m)' = Plans(m)
    BY <2>1, <2>2 DEF Plans
  <2>7. reset' = [m \in Names |-> reset'[m]]
    BY <2>2
  <2> QED BY <2>1, <2>5, <2>6, <2>7
<1>6. ASSUME NEW n \in Names, CompleteReset(n) PROVE DataType' /\ NewIsFresh'
  <2>1. /\ reset[n] # Idle /\ reset' = [reset EXCEPT ![n] = Idle]
        /\ ws' = [ws EXCEPT ![n] = [status |-> "ready", generation |-> @.generation,
                                    active |-> NoOne]]
        /\ audit' = [audit EXCEPT ![n] = @ \cup {[id |-> reset[n].id,
                                                  generation |-> reset[n].generation]}]
        /\ \E f : DOMAIN f = Scenarios /\ orders' = [orders EXCEPT ![n] = f]
        /\ UNCHANGED account
    <3>1. reset[n] # Idle
      BY <1>6 DEF CompleteReset, Idle
    <3> QED BY <1>6, <3>1 DEF CompleteReset, accessvars, Baseline
  <2>2. account[n] # NoOne
    BY <2>1
  <2>3. [id |-> reset[n].id, generation |-> reset[n].generation] \in [id : Requests, generation : Nat]
    BY <2>1 DEF Plans
  <2>4. audit' \in [Names -> SUBSET [id : Requests, generation : Nat]]
    BY <2>1, <2>3
  <2>5. ws' \in [Names -> Rows]
    BY <2>1 DEF Rows
  <2>6. \A m \in Names : m # n => /\ ws'[m] = ws[m] /\ orders'[m] = orders[m] /\ audit'[m] = audit[m]
                                  /\ reset'[m] = reset[m] /\ Plans(m)' = Plans(m)
    BY <2>1 DEF Plans
  <2>7. reset'[n] = Idle
    BY <2>1
  <2>8. DOMAIN orders' = Names /\ orders' = [m \in Names |-> orders'[m]]
        /\ reset' = [m \in Names |-> reset'[m]]
        /\ \A m \in Names : DOMAIN orders'[m] \subseteq Scenarios
    BY <2>1
  <2>9. DataType'
    BY <2>4, <2>5, <2>6, <2>7, <2>8
  <2>10. NewIsFresh'
    BY <2>1, <2>2, <2>6
  <2> QED BY <2>9, <2>10
<1>7. ASSUME UNCHANGED <<account, ws, audit, orders>>,
             \A m \in Names : reset'[m] \in {reset[m], Idle}, reset' = [m \in Names |-> reset'[m]]
      PROVE  DataType' /\ NewIsFresh'
  BY <1>7 DEF Plans
<1>8. ASSUME NEW n \in Names, FailReset(n) \/ Crash PROVE DataType' /\ NewIsFresh'
  <2>1. UNCHANGED <<account, ws, audit, orders>>
        /\ (reset' = [reset EXCEPT ![n] = Idle] \/ reset' = [m \in Names |-> Idle])
    BY <1>8 DEF FailReset, Crash, accessvars
  <2> QED BY <1>7, <2>1
<1>9. CASE Crash
  BY <1>9, <1>7 DEF Crash, accessvars
<1>10. CASE \/ UNCHANGED wsvars
            \/ \E tab \in Tabs, s \in Scenarios : Look(tab, s)
            \/ \E tab \in Tabs, t \in Threads : Open(tab, t)
            \/ \E tab \in Tabs, k \in tasks : Archive(tab, k) \/ StartGraph(tab, k)
            \/ \E tab \in Tabs, p \in Prefs : Edit(tab, p)
            \/ \E t \in Threads : RunGraph(t)
            \/ \E p \in editing : Correct(p)
  BY <1>1, <1>10 DEF wsvars, restvars, accessvars, Look, Open, Archive, StartGraph, Edit,
                     RunGraph, Correct
<1> QED BY <1>2, <1>3, <1>4, <1>5, <1>6, <1>8, <1>9, <1>10, StepCases

(* Conversations, checkpoints, preferences.                                *)
LEMMA RestTypeStep ==
  ASSUME AccessType, RestType, Owned, [WorkspaceNext]_wsvars
  PROVE  RestType' /\ Owned'
<1> USE DEF RestType, Owned
<1>1. CASE UNCHANGED <<tasks, owner, opening, saved, busy, memory, editing, late>>
  BY <1>1
<1>2. CASE \/ UNCHANGED wsvars
           \/ AccountStep /\ UNCHANGED restvars
           \/ \E n \in Names, c \in Codes : Join(n, c)
           \/ \E n \in Names : FailReset(n)
  BY <1>1, <1>2 DEF wsvars, restvars, Join, FailReset
<1>3. ASSUME NEW tab \in Tabs, NEW s \in Scenarios, Look(tab, s) PROVE RestType' /\ Owned'
  <2>1. session[tab] \in Names
    BY <1>3 DEF Look, AccessType, Anyone
  <2>2. opening' = [opening EXCEPT ![tab] = [order |-> s, of |-> session[tab]]]
        /\ UNCHANGED <<tasks, owner, saved, busy, memory, editing, late>>
    BY <1>3 DEF Look
  <2> QED BY <2>1, <2>2
<1>4. ASSUME NEW tab \in Tabs, NEW t \in Threads, Open(tab, t) PROVE RestType' /\ Owned'
  <2> DEFINE o == opening[tab]
             k == [thread |-> t, owner |-> o.of, order |-> o.order, life |-> "active"]
  <2>1. o \in [order : Scenarios, of : Names] /\ owner[t] = NoOne
    BY <1>4 DEF Open
  <2>2. /\ owner' = [owner EXCEPT ![t] = o.of] /\ tasks' \in {tasks, tasks \cup {k}}
        /\ opening' = [opening EXCEPT ![tab] = NoOrder]
        /\ UNCHANGED <<saved, busy, memory, editing, late>>
    BY <1>4 DEF Open
  <2>3. k \in [thread : Threads, owner : Names, order : Scenarios, life : {"active", "archived"}]
    BY <2>1
  <2>4. RestType'
    BY <2>1, <2>2, <2>3 DEF Anyone
  <2>5. \A l \in tasks : l.thread # t
    BY <2>1, AccessAssumption
  <2>6. Owned'
    BY <2>1, <2>2, <2>5, AccessAssumption
  <2> QED BY <2>4, <2>6
<1>5. ASSUME NEW tab \in Tabs, NEW k \in tasks, Archive(tab, k) PROVE RestType' /\ Owned'
  <2>1. PICK life \in {"active", "archived"} : tasks' = (tasks \ {k}) \cup {[k EXCEPT !.life = life]}
    <3>1. tasks' = (tasks \ {k}) \cup
                     {[k EXCEPT !.life = IF k.life = "active" THEN "archived" ELSE "active"]}
      BY <1>5 DEF Archive
    <3> QED BY <3>1
  <2>2. UNCHANGED <<owner, opening, saved, busy, memory, editing, late>>
    BY <1>5 DEF Archive
  <2> QED BY <2>1, <2>2
<1>6. ASSUME NEW tab \in Tabs, NEW k \in tasks, StartGraph(tab, k) PROVE RestType' /\ Owned'
  BY <1>6, AccessAssumption DEF StartGraph
<1>7. ASSUME NEW tab \in Tabs, NEW p \in Prefs, Edit(tab, p) PROVE RestType' /\ Owned'
  BY <1>7 DEF Edit
<1>8. ASSUME NEW t \in Threads, RunGraph(t) PROVE RestType' /\ Owned'
  <2>1. owner[t] \in Names /\ UNCHANGED <<tasks, owner, opening, editing>>
    BY <1>8 DEF RunGraph, Anyone
  <2> QED BY <1>8, <2>1 DEF RunGraph, Prefs
<1>9. ASSUME NEW p \in editing, Correct(p) PROVE RestType' /\ Owned'
  BY <1>9 DEF Correct
<1>10. CASE Crash
  BY <1>10 DEF Crash
<1>11. ASSUME NEW n \in Names, NEW id \in Requests, BeginReset(n, id) PROVE RestType' /\ Owned'
  <2>1. late' \subseteq late /\ UNCHANGED <<tasks, owner, opening, saved, busy, memory, editing>>
    BY <1>11 DEF BeginReset
  <2> QED BY <2>1
<1>12. ASSUME NEW n \in Names, Clear(n) PROVE RestType' /\ Owned'
  <2>1. /\ saved' \subseteq saved /\ memory' \subseteq memory
        /\ UNCHANGED <<tasks, owner, opening, busy, editing, late>>
    BY <1>12 DEF Clear
  <2> QED BY <2>1
<1>13. ASSUME NEW n \in Names, CompleteReset(n) PROVE RestType' /\ Owned'
  <2>1. tasks' \subseteq tasks /\ UNCHANGED <<owner, opening, saved, busy, memory, editing, late>>
    BY <1>13 DEF CompleteReset
  <2> QED BY <2>1
<1> QED BY <1>2, <1>3, <1>4, <1>5, <1>6, <1>7, <1>8, <1>9, <1>10, <1>11, <1>12, <1>13, StepCases

WorkspaceType == AccessType /\ DataType /\ RestType /\ NewIsFresh /\ Owned

LEMMA TypeStep ==
  ASSUME WorkspaceType, [WorkspaceNext]_wsvars
  PROVE  WorkspaceType'
BY AccessTypeStep, DataTypeStep, RestTypeStep DEF WorkspaceType

LEMMA TypeInit ==
  ASSUME WorkspaceInit
  PROVE  WorkspaceType
BY DEF WorkspaceInit, AccessInit, WorkspaceType, AccessType, DataType, RestType, NewIsFresh,
       Owned, Resetting, Rows, Anyone

THEOREM TypeInvariant == WorkspaceSpec => []WorkspaceType
<1>1. WorkspaceType /\ [WorkspaceNext]_wsvars => WorkspaceType'
  BY TypeStep
<1> QED BY <1>1, TypeInit, PTL DEF WorkspaceSpec

-----------------------------------------------------------------------------
(* Conversations                                                           *)

(* An order has at most one active conversation, whoever looked before     *)
(* whom: uq_conversations_active_order_task alone is enough for it.        *)
THEOREM OneTask == WorkspaceSpec => []OneTaskPerOrder
<1>1. WorkspaceInit => OneTaskPerOrder
  BY DEF WorkspaceInit, OneTaskPerOrder
<1>2. ASSUME WorkspaceType, OneTaskPerOrder, [WorkspaceNext]_wsvars
      PROVE  OneTaskPerOrder'
  <2> USE DEF OneTaskPerOrder
  <2>1. CASE tasks' \subseteq tasks
    BY <1>2, <2>1
  <2>2. ASSUME NEW tab \in Tabs, NEW t \in Threads, Open(tab, t) PROVE OneTaskPerOrder'
    <3> DEFINE o == opening[tab]
               k == [thread |-> t, owner |-> o.of, order |-> o.order, life |-> "active"]
    <3>1. CASE MayBeActive(o.of, o.order)
      <4>1. tasks' = tasks \cup {k}
        BY <2>2, <3>1 DEF Open
      <4>2. \A l \in tasks : ~(l.owner = o.of /\ l.order = o.order /\ l.life = "active")
        BY <3>1 DEF MayBeActive, ActiveOn, TasksOf
      <4> QED BY <1>2, <4>1, <4>2
    <3>2. CASE ~MayBeActive(o.of, o.order)
      BY <2>1, <2>2, <3>2 DEF Open
    <3> QED BY <3>1, <3>2
  <2>3. ASSUME NEW tab \in Tabs, NEW k \in tasks, Archive(tab, k) PROVE OneTaskPerOrder'
    <3> DEFINE j == [k EXCEPT !.life = IF k.life = "active" THEN "archived" ELSE "active"]
    <3>1. k \in [thread : Threads, owner : Names, order : Scenarios, life : {"active", "archived"}]
      BY <1>2 DEF WorkspaceType, RestType
    <3>2. tasks' = (tasks \ {k}) \cup {j} /\ (k.life = "archived" => MayBeActive(k.owner, k.order))
      BY <2>3 DEF Archive
    <3>3. j.owner = k.owner /\ j.order = k.order /\ (j.life = "active" => k.life = "archived")
      BY <3>1
    <3> HIDE DEF j
    <3>4. j.life = "active" =>
            \A l \in tasks : ~(l.owner = j.owner /\ l.order = j.order /\ l.life = "active")
      BY <3>2, <3>3 DEF MayBeActive, ActiveOn, TasksOf
    <3> QED BY <1>2, <3>2, <3>4
  <2>4. ASSUME NEW n \in Names, CompleteReset(n) PROVE OneTaskPerOrder'
    BY <2>1, <2>4 DEF CompleteReset
  <2> QED BY <1>2, <2>1, <2>2, <2>3, <2>4, StepCases
       DEF wsvars, restvars, Join, Look, StartGraph, Edit, RunGraph, Correct, Crash,
           BeginReset, Clear, FailReset
<1> QED BY <1>1, <1>2, TypeInvariant, PTL DEF WorkspaceSpec

-----------------------------------------------------------------------------
(* Resets                                                                  *)

(* docs/specs/v2.0-interview-ready-agent-product.md:155: no registration   *)
(* and no reset, however often it failed before, takes the public number   *)
(* of an order away.                                                       *)
THEOREM NumbersAreKept == WorkspaceSpec => NumbersSurvive
<1> DEFINE Kept == \A n \in Names : \A s \in DOMAIN orders[n] :
                     s \in DOMAIN orders'[n] /\ orders'[n][s] = orders[n][s]
<1>1. ASSUME WorkspaceType, [WorkspaceNext]_wsvars PROVE Kept
  <2>1. CASE UNCHANGED orders
    BY <2>1
  <2>2. ASSUME NEW n \in Names, NEW f \in Baseline(orders[n]), orders' = [orders EXCEPT ![n] = f]
        PROVE  Kept
    BY <1>1, <2>2 DEF Baseline, WorkspaceType, DataType
  <2>3. ASSUME NEW n \in Names, NEW c \in Codes, Join(n, c) PROVE Kept
    <3>1. orders[n] = <<>>
      BY <1>1, <2>3 DEF Join, Register, WorkspaceType, NewIsFresh
    <3> QED BY <2>2, <2>3, <3>1 DEF Join
  <2>4. ASSUME NEW n \in Names, CompleteReset(n) PROVE Kept
    <3>1. reset[n] # Idle
      BY <2>4 DEF CompleteReset, Idle
    <3>2. reset[n].kept = orders[n]
      BY <1>1, <3>1 DEF WorkspaceType, DataType, Plans
    <3> QED BY <2>2, <2>4, <3>2 DEF CompleteReset
  <2> QED BY <1>1, <2>1, <2>3, <2>4, StepCases
       DEF wsvars, restvars, Look, Open, Archive, StartGraph, Edit, RunGraph, Correct, Crash,
           BeginReset, Clear, FailReset
<1> QED BY <1>1, TypeInvariant, PTL DEF WorkspaceSpec, NumbersSurvive

\* The audit numbers the resets that succeeded from one on, and the one that is under
\* way is not among them.
AuditOf(n) ==
  /\ IsFiniteSet(audit[n])
  /\ ws[n].generation = Cardinality(audit[n]) + (IF Resetting(n) THEN 1 ELSE 0)
  /\ \A a \in audit[n] : a.generation <= Cardinality(audit[n])
  /\ \A a, b \in audit[n] : a.id = b.id \/ a.generation = b.generation => a = b
  /\ reset[n] # Idle => \A a \in audit[n] : a.id # reset[n].id

AuditInv == \A n \in Names : AuditOf(n)

LEMMA AuditStep ==
  ASSUME WorkspaceType, AuditInv, [WorkspaceNext]_wsvars
  PROVE  AuditInv'
<1> USE DEF AuditInv, AuditOf, Resetting
<1>1. CASE UNCHANGED <<ws, audit, reset>>
  BY <1>1
<1>2. ASSUME NEW n \in Names, NEW c \in Codes, Join(n, c) PROVE AuditInv'
  <2>1. /\ ws' = [ws EXCEPT ![n] = [@ EXCEPT !.status = "ready"]] /\ UNCHANGED <<audit, reset>>
        /\ account[n] = NoOne
    BY <1>2 DEF Join, Register
  <2>2. ws[n] \in Rows /\ ~Resetting(n) /\ ws \in [Names -> Rows]
    BY <2>1 DEF WorkspaceType, DataType, NewIsFresh
  <2>3. ws'[n].generation = ws[n].generation /\ ws'[n].status = "ready"
    <3> DEFINE row == [ws[n] EXCEPT !.status = "ready"]
    <3>1. row.generation = ws[n].generation /\ row.status = "ready"
      BY <2>2 DEF Rows
    <3> HIDE DEF row
    <3>2. ws'[n] = row
      BY <2>1, <2>2 DEF row
    <3> QED BY <3>1, <3>2
  <2>4. \A m \in Names : m # n => ws'[m] = ws[m]
    BY <2>1, <2>2
  <2> QED BY <2>1, <2>2, <2>3, <2>4
<1>3. ASSUME NEW n \in Names, NEW id \in Requests, BeginReset(n, id) PROVE AuditInv'
  <2>1. /\ \A a \in audit[n] : a.id # id
        /\ Resetting(n) => Continues(n, id)
        /\ ws' = [ws EXCEPT ![n] = [status |-> "resetting", generation |-> Generation(n, id),
                                    active |-> id]]
        /\ \E step, left, kept :
             reset' = [reset EXCEPT ![n] = [step |-> step, id |-> id,
                         generation |-> Generation(n, id), left |-> left, kept |-> kept]]
        /\ UNCHANGED audit
    BY <1>3 DEF BeginReset
  <2>2. ws \in [Names -> Rows] /\ reset = [m \in Names |-> reset[m]]
    BY DEF WorkspaceType, DataType
  <2>3. Generation(n, id) = Cardinality(audit[n]) + 1
    BY <2>1, <2>2, FS_CardinalityType DEF Generation, Continues, Rows
  <2>4. ws'[n].generation = Cardinality(audit[n]) + 1 /\ ws'[n].status = "resetting"
        /\ reset'[n].id = id
    BY <2>1, <2>2, <2>3
  <2>5. \A m \in Names : m # n => ws'[m] = ws[m] /\ reset'[m] = reset[m]
    BY <2>1, <2>2
  <2> QED BY <2>1, <2>4, <2>5
<1>4. ASSUME NEW n \in Names, Clear(n) PROVE AuditInv'
  <2>1. UNCHANGED <<ws, audit>> /\ reset[n] # Idle /\ reset'[n].id = reset[n].id
        /\ \A m \in Names : m # n => reset'[m] = reset[m]
    <3>1. UNCHANGED <<ws, audit>> /\ reset[n] # Idle
      BY <1>4 DEF Clear, Idle
    <3>2. reset[n] \in Plans(n) /\ reset = [m \in Names |-> reset[m]]
      BY <3>1 DEF WorkspaceType, DataType
    <3>3. CASE \E x : reset' = [reset EXCEPT ![n].left = @ \ {x}]
      BY <3>1, <3>2, <3>3 DEF Plans
    <3>4. CASE \E x : reset' = [reset EXCEPT ![n].step = "memory", ![n].left = x]
      BY <3>1, <3>2, <3>4 DEF Plans
    <3> QED BY <1>4, <3>3, <3>4 DEF Clear
  <2> QED BY <2>1
<1>5. ASSUME NEW n \in Names, CompleteReset(n) PROVE AuditInv'
  <2> DEFINE a == [id |-> reset[n].id, generation |-> reset[n].generation]
  <2>1. /\ Resetting(n) /\ ws[n].generation = reset[n].generation
        /\ ws' = [ws EXCEPT ![n] = [status |-> "ready", generation |-> @.generation,
                                    active |-> NoOne]]
        /\ audit' = [audit EXCEPT ![n] = @ \cup {a}]
        /\ reset' = [reset EXCEPT ![n] = Idle]
    BY <1>5 DEF CompleteReset
  <2>2. reset[n] # Idle
    BY <1>5 DEF CompleteReset, Idle
  <2>3. /\ ws \in [Names -> Rows] /\ reset = [m \in Names |-> reset[m]]
        /\ audit \in [Names -> SUBSET [id : Requests, generation : Nat]]
    BY DEF WorkspaceType, DataType
  <2>4. a.generation = Cardinality(audit[n]) + 1 /\ \A b \in audit[n] : b.id # a.id
    BY <2>1, <2>2
  <2>5. a \notin audit[n]
    BY <2>4
  <2>6. IsFiniteSet(audit[n] \cup {a}) /\ Cardinality(audit[n] \cup {a}) = Cardinality(audit[n]) + 1
    BY <2>5, FS_AddElement
  <2>7. /\ audit'[n] = audit[n] \cup {a} /\ reset'[n] = Idle
        /\ ws'[n].generation = ws[n].generation /\ ws'[n].status = "ready"
    BY <2>1, <2>3
  <2>8. \A m \in Names : m # n => ws'[m] = ws[m] /\ reset'[m] = reset[m] /\ audit'[m] = audit[m]
    BY <2>1, <2>3
  <2>9. Cardinality(audit[n]) \in Nat
    BY FS_CardinalityType
  <2>10. \A b \in audit[n] : b.generation \in Nat
    BY <2>3
  <2>11. \A b \in audit'[n] : b.generation <= Cardinality(audit'[n])
    BY <2>4, <2>6, <2>7, <2>9, <2>10
  <2>12. \A b, c \in audit'[n] : b.id = c.id \/ b.generation = c.generation => b = c
    <3>1. \A b \in audit[n] : b.generation # a.generation /\ b.id # a.id
      BY <2>4, <2>9, <2>10
    <3> HIDE DEF a
    <3> QED BY <2>7, <3>1
  <2>13. IsFiniteSet(audit'[n]) /\ ws'[n].generation = Cardinality(audit'[n])
    BY <2>1, <2>4, <2>6, <2>7, <2>9
  <2> HIDE DEF a
  <2>14. AuditOf(n)'
    <3>1. Cardinality(audit'[n]) \in Nat
      BY <2>13, FS_CardinalityType
    <3>2. ws'[n].generation = Cardinality(audit'[n]) + (IF Resetting(n)' THEN 1 ELSE 0)
      BY <2>7, <2>13, <3>1
    <3>3. ~(reset'[n] # Idle)
      BY <2>7
    <3> QED BY <2>11, <2>12, <2>13, <3>2, <3>3
  <2>15. \A m \in Names : m # n => AuditOf(m)'
    BY <2>8
  <2> QED BY <2>14, <2>15
<1>6. ASSUME UNCHANGED <<ws, audit>>, \A m \in Names : reset'[m] \in {reset[m], Idle}
      PROVE  AuditInv'
  BY <1>6
<1>7. CASE Crash \/ \E n \in Names : FailReset(n)
  <2>1. UNCHANGED <<ws, audit>>
        /\ (\/ reset' = [m \in Names |-> Idle]
            \/ \E n \in Names : reset' = [reset EXCEPT ![n] = Idle])
    BY <1>7 DEF Crash, FailReset
  <2>2. reset = [m \in Names |-> reset[m]]
    BY DEF WorkspaceType, DataType
  <2> QED BY <1>6, <2>1, <2>2
<1> QED BY <1>1, <1>2, <1>3, <1>4, <1>5, <1>7, StepCases
     DEF wsvars, restvars, Look, Open, Archive, StartGraph, Edit, RunGraph, Correct

(* The generation of a workspace is the number of resets that succeeded,   *)
(* and one more while one is under way; a request that was repeated until  *)
(* it succeeded is one reset (prepare_reset, complete_reset).              *)
THEOREM ResetsAreCounted == WorkspaceSpec => []GenerationCountsResets
<1>1. WorkspaceInit => AuditInv
  BY FS_EmptySet DEF WorkspaceInit, AuditInv, AuditOf, Resetting
<1>2. WorkspaceType /\ AuditInv /\ [WorkspaceNext]_wsvars => AuditInv'
  BY AuditStep
<1>3. AuditInv => GenerationCountsResets
  BY DEF AuditInv, AuditOf, GenerationCountsResets
<1> QED BY <1>1, <1>2, <1>3, TypeInvariant, PTL DEF WorkspaceSpec

\* Checkpoints and preferences of a name that are not from others' writes of the time
\* since its reset began: what the reset that holds the lock will still take away.
Old(n) == {t \in saved : owner[t] = n /\ t \notin late}
OldPrefs(n) == {p \in memory : p[1] = n /\ p \notin late}

\* A checkpoint without its conversation is late; what is old goes with the reset; a
\* workspace that is ready again has neither.
LeftOf(n) ==
  /\ \A t \in Old(n) : RowOf(t) # {}
  /\ reset[n] # Idle =>
       /\ reset[n].step = "checkpoints" => Old(n) \subseteq reset[n].left
       /\ reset[n].step = "memory" => Old(n) = {} /\ OldPrefs(n) \subseteq reset[n].left
  /\ ws[n].status = "ready" /\ audit[n] # {} => OldPrefs(n) = {}

LeftInv == \A n \in Names : LeftOf(n)

\* A step that makes nothing of a workspace old and takes no row and no plan away.
Keeps(n) ==
  /\ Old(n)' \subseteq Old(n) /\ OldPrefs(n)' \subseteq OldPrefs(n)
  /\ \A t \in Old(n)' : RowOf(t) # {} => RowOf(t)' # {}
  /\ reset'[n] \in {reset[n], Idle}
  /\ ws'[n].status = "ready" => \/ ws[n].status = "ready" /\ audit'[n] = audit[n]
                                \/ audit'[n] = {}

LEMMA KeepsLeft ==
  ASSUME NEW n \in Names, LeftOf(n), Keeps(n)
  PROVE  LeftOf(n)'
BY DEF LeftOf, Keeps

LEMMA LeftStep ==
  ASSUME WorkspaceType, LeftInv, [WorkspaceNext]_wsvars
  PROVE  LeftInv'
<1>0. /\ RestType /\ Owned /\ ws \in [Names -> Rows] /\ reset = [m \in Names |-> reset[m]]
      /\ audit \in [Names -> SUBSET [id : Requests, generation : Nat]]
  BY DEF WorkspaceType, DataType
<1>1. ASSUME \A m \in Names : Keeps(m) PROVE LeftInv'
  BY <1>1, KeepsLeft DEF LeftInv
<1>2. CASE UNCHANGED <<tasks, owner, saved, memory, late, ws, audit, reset>>
  BY <1>1, <1>2 DEF Keeps, Old, OldPrefs, RowOf
<1>3. ASSUME NEW n \in Names, NEW c \in Codes, Join(n, c) PROVE LeftInv'
  <2>1. /\ ws' = [ws EXCEPT ![n] = [@ EXCEPT !.status = "ready"]] /\ account[n] = NoOne
        /\ UNCHANGED <<tasks, owner, saved, memory, late, audit, reset>>
    BY <1>3 DEF Join, Register
  <2>2. audit'[n] = {}
    BY <2>1 DEF WorkspaceType, NewIsFresh
  <2>3. \A m \in Names : m # n => ws'[m] = ws[m]
    BY <1>0, <2>1
  <2>4. \A m \in Names : Keeps(m)
    BY <2>1, <2>2, <2>3 DEF Keeps, Old, OldPrefs, RowOf
  <2> QED BY <1>1, <2>4
<1>4. ASSUME NEW tab \in Tabs, NEW t \in Threads, Open(tab, t) PROVE LeftInv'
  <2>1. /\ owner[t] = NoOne /\ \E of : owner' = [owner EXCEPT ![t] = of]
        /\ tasks \subseteq tasks' /\ UNCHANGED <<saved, memory, late, ws, audit, reset>>
    BY <1>4 DEF Open
  <2>2. \A u \in saved : owner'[u] = owner[u]
    BY <1>0, <2>1 DEF RestType, Owned
  <2>3. \A u : RowOf(u) \subseteq RowOf(u)'
    BY <2>1 DEF RowOf
  <2>4. \A m \in Names : Keeps(m)
    BY <2>1, <2>2, <2>3 DEF Keeps, Old, OldPrefs
  <2> QED BY <1>1, <2>4
<1>5. ASSUME NEW tab \in Tabs, NEW k \in tasks, Archive(tab, k) PROVE LeftInv'
  <2> DEFINE j == [k EXCEPT !.life = IF k.life = "active" THEN "archived" ELSE "active"]
  <2>1. tasks' = (tasks \ {k}) \cup {j} /\ UNCHANGED <<owner, saved, memory, late, ws, audit, reset>>
    BY <1>5 DEF Archive
  <2>2. j.thread = k.thread
    BY <1>0 DEF RestType
  <2> HIDE DEF j
  <2>3. \A t : RowOf(t) # {} => RowOf(t)' # {}
    BY <2>1, <2>2 DEF RowOf
  <2>4. \A m \in Names : Keeps(m)
    BY <2>1, <2>3 DEF Keeps, Old, OldPrefs
  <2> QED BY <1>1, <2>4
<1>6. ASSUME /\ \A t \in saved' : t \in saved \/ t \in late'
             /\ \A p \in memory' : p \in memory \/ p \in late'
             /\ late \subseteq late' /\ UNCHANGED <<tasks, owner, ws, audit>>
             /\ \A m \in Names : reset'[m] \in {reset[m], Idle}
      PROVE  LeftInv'
  BY <1>1, <1>6 DEF Keeps, Old, OldPrefs, RowOf
<1>7. CASE \/ \E t \in Threads : RunGraph(t)
           \/ \E p \in editing : Correct(p)
           \/ \E tab \in Tabs, p \in Prefs : Edit(tab, p)
  BY <1>6, <1>7 DEF RunGraph, Correct, Edit
<1>8. CASE Crash \/ \E n \in Names : FailReset(n)
  <2>1. UNCHANGED <<tasks, owner, saved, memory, late, ws, audit>>
        /\ (\/ reset' = [m \in Names |-> Idle]
            \/ \E n \in Names : reset' = [reset EXCEPT ![n] = Idle])
    BY <1>8 DEF Crash, FailReset
  <2> QED BY <1>0, <1>6, <2>1
<1>9. ASSUME NEW n \in Names, NEW id \in Requests, BeginReset(n, id) PROVE LeftInv'
  <2>1. /\ ws' = [ws EXCEPT ![n] = [status |-> "resetting", generation |-> Generation(n, id),
                                    active |-> id]]
        /\ reset' = [reset EXCEPT ![n] = [step |-> "checkpoints", id |-> id,
                       generation |-> Generation(n, id), left |-> PlannedThreads(n),
                       kept |-> orders[n]]]
        /\ UNCHANGED <<audit, tasks, owner, saved, memory>>
    BY <1>9 DEF BeginReset
  <2>2. /\ late' \subseteq late
        /\ \A t \in late \cap Threads : t \in late' \/ (owner[t] = n /\ RowOf(t) # {})
        /\ \A p \in late \ Threads : p \in late' \/ p[1] = n
    BY <1>9 DEF BeginReset
  <2>3. \A m \in Names : m # n => Keeps(m)
    <3> SUFFICES ASSUME NEW m \in Names, m # n PROVE Keeps(m)
      OBVIOUS
    <3>1. Old(m)' \subseteq Old(m)
      BY <1>0, <2>1, <2>2 DEF Old, RestType
    <3>2. memory \cap Threads = {}
      BY <1>0, WorkspaceAssumption DEF RestType, Prefs
    <3>3. OldPrefs(m)' \subseteq OldPrefs(m)
      BY <2>1, <2>2, <3>2 DEF OldPrefs
    <3> QED BY <1>0, <2>1, <3>1, <3>3 DEF Keeps, RowOf
  <2>4. LeftOf(n)'
    <3>1. \A t \in Old(n)' : RowOf(t) # {} /\ RowOf(t)' = RowOf(t) /\ owner[t] = n
      BY <1>0, <2>1, <2>2 DEF LeftInv, LeftOf, Old, RowOf, RestType
    <3>2. Old(n)' \subseteq PlannedThreads(n)
      BY <1>0, <3>1 DEF RowOf, PlannedThreads, TasksOf, Owned
    <3>3. ws'[n].status = "resetting" /\ reset'[n].step = "checkpoints"
          /\ reset'[n].left = PlannedThreads(n)
      BY <1>0, <2>1
    <3> QED BY <3>1, <3>2, <3>3 DEF LeftOf
  <2> QED BY <2>3, <2>4, KeepsLeft DEF LeftInv
<1>10. ASSUME NEW n \in Names, Clear(n) PROVE LeftInv'
  <2>1. reset[n] \in Plans(n) /\ reset[n] # Idle
    BY <1>10 DEF Clear, Idle, WorkspaceType, DataType
  <2>2. saved' \subseteq saved /\ memory' \subseteq memory
        /\ UNCHANGED <<tasks, owner, late, ws, audit>>
        /\ \A m \in Names : m # n => reset'[m] = reset[m]
    BY <1>0, <1>10 DEF Clear
  <2>3. \A m \in Names : m # n => Keeps(m)
    BY <2>2 DEF Keeps, Old, OldPrefs, RowOf
  <2>4. /\ Old(n)' \subseteq Old(n) /\ OldPrefs(n)' \subseteq OldPrefs(n)
        /\ \A t : RowOf(t)' = RowOf(t)
    BY <2>2 DEF Old, OldPrefs, RowOf
  <2> DEFINE Plan == reset[n] # Idle =>
                       /\ reset[n].step = "checkpoints" => Old(n) \subseteq reset[n].left
                       /\ reset[n].step = "memory" => Old(n) = {} /\ OldPrefs(n) \subseteq reset[n].left
  <2>9. LeftOf(n)
    BY DEF LeftInv
  <2>10. Plan
    BY <2>9 DEF LeftOf
  <2>11. Plan' => LeftOf(n)'
    BY <2>2, <2>4, <2>9 DEF LeftOf
  <2>5. ASSUME \E t \in reset[n].left : /\ reset[n].step = "checkpoints"
                                       /\ saved' = saved \ {t}
                                       /\ reset' = [reset EXCEPT ![n].left = @ \ {t}]
        PROVE  Plan'
    <3>1. PICK t \in reset[n].left : /\ reset[n].step = "checkpoints" /\ saved' = saved \ {t}
                                     /\ reset' = [reset EXCEPT ![n].left = @ \ {t}]
      BY <2>5
    <3>2. reset'[n].step = "checkpoints" /\ reset'[n].left = reset[n].left \ {t}
      BY <1>0, <2>1, <3>1 DEF Plans
    <3>3. t \notin Old(n)'
      BY <3>1 DEF Old
    <3> QED BY <2>1, <2>4, <2>10, <3>1, <3>2, <3>3
  <2>6. ASSUME reset[n].step = "checkpoints", reset[n].left = {},
               reset' = [reset EXCEPT ![n].step = "memory",
                                       ![n].left = {p \in memory : p[1] = n}]
        PROVE  Plan'
    <3>1. reset'[n].step = "memory" /\ reset'[n].left = {p \in memory : p[1] = n}
      BY <1>0, <2>1, <2>6 DEF Plans
    <3>2. OldPrefs(n)' \subseteq {p \in memory : p[1] = n}
      BY <2>4 DEF OldPrefs
    <3>3. Old(n) = {}
      BY <2>1, <2>6, <2>10
    <3> QED BY <2>4, <3>1, <3>2, <3>3
  <2>7. ASSUME \E p \in reset[n].left : /\ reset[n].step = "memory"
                                       /\ memory' = memory \ {p}
                                       /\ reset' = [reset EXCEPT ![n].left = @ \ {p}]
        PROVE  Plan'
    <3>1. PICK p \in reset[n].left : /\ reset[n].step = "memory" /\ memory' = memory \ {p}
                                     /\ reset' = [reset EXCEPT ![n].left = @ \ {p}]
      BY <2>7
    <3>2. reset'[n].step = "memory" /\ reset'[n].left = reset[n].left \ {p}
      BY <1>0, <2>1, <3>1 DEF Plans
    <3>3. p \notin OldPrefs(n)'
      BY <3>1 DEF OldPrefs
    <3> QED BY <2>1, <2>4, <2>10, <3>1, <3>2, <3>3
  <2>8. Plan'
    BY <1>10, <2>5, <2>6, <2>7, Zenon DEF Clear
  <2> QED BY <2>3, <2>8, <2>11, KeepsLeft DEF LeftInv
<1>11. ASSUME NEW n \in Names, CompleteReset(n) PROVE LeftInv'
  <2>0. reset[n].step = "memory" /\ reset[n].left = {} /\ reset[n] # Idle
    BY <1>11 DEF CompleteReset, Idle
  <2>1. /\ reset[n].step = "memory" /\ reset[n].left = {} /\ reset[n] # Idle
        /\ tasks' = tasks \ TasksOf(n)
        /\ \E row : ws' = [ws EXCEPT ![n] = row]
        /\ \E all : audit' = [audit EXCEPT ![n] = all]
        /\ reset' = [reset EXCEPT ![n] = Idle]
        /\ UNCHANGED <<owner, saved, memory, late>>
    BY <1>11, <2>0 DEF CompleteReset
  <2>2. Old(n) = {} /\ OldPrefs(n) = {}
    BY <2>1 DEF LeftInv, LeftOf
  <2>3. \A m \in Names : Old(m)' = Old(m) /\ OldPrefs(m)' = OldPrefs(m)
    BY <2>1 DEF Old, OldPrefs
  <2>4. \A m \in Names : m # n => Keeps(m)
    <3> SUFFICES ASSUME NEW m \in Names, m # n PROVE Keeps(m)
      OBVIOUS
    <3>1. \A t \in Old(m) : RowOf(t)' = RowOf(t)
      BY <1>0, <2>1 DEF Old, RowOf, TasksOf, Owned
    <3>2. ws'[m] = ws[m] /\ audit'[m] = audit[m] /\ reset'[m] = reset[m]
      BY <1>0, <2>1
    <3> QED BY <2>3, <3>1, <3>2 DEF Keeps
  <2>5. LeftOf(n)'
    BY <1>0, <2>1, <2>2, <2>3 DEF LeftOf
  <2> QED BY <2>4, <2>5, KeepsLeft DEF LeftInv
<1> QED BY <1>2, <1>3, <1>4, <1>5, <1>7, <1>8, <1>9, <1>10, <1>11, StepCases
     DEF wsvars, restvars, Look, StartGraph

(* docs/specs/v2.0-interview-ready-agent-product.md:173: a reset that      *)
(* succeeded, after however many failures, has left nothing of the time    *)
(* before it, except what a graph or a correction wrote that was running.  *)
THEOREM NothingIsLeft == WorkspaceSpec => []ResetLeavesNothing
<1>1. WorkspaceInit => LeftInv
  BY DEF WorkspaceInit, LeftInv, LeftOf, Old, OldPrefs
<1>2. WorkspaceType /\ LeftInv /\ [WorkspaceNext]_wsvars => LeftInv'
  BY LeftStep
<1>3. LeftInv => ResetLeavesNothing
  BY DEF LeftInv, LeftOf, Old, OldPrefs, ResetLeavesNothing
<1> QED BY <1>1, <1>2, <1>3, TypeInvariant, PTL DEF WorkspaceSpec
=============================================================================
