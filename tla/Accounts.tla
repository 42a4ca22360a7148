------------------------------ MODULE Accounts ------------------------------
(***************************************************************************)
(* Accounts (modules/identity and the suspension of modules/ops): who has  *)
(* an account, whether it is active, and how its identity was verified.    *)
(*                                                                         *)
(* The guard of a request reads the account before its handler opens a     *)
(* transaction, so a handler may run for an account suspended meanwhile.   *)
(* Transactions read what is committed: that a phone has one account and a *)
(* user one verification waiting is kept by unique indexes, and that a     *)
(* verification is decided once by nothing: save has no condition.         *)
(*                                                                         *)
(* A person is the id a session would create.  Not modelled: names, the    *)
(* document of a verification, reasons, and the production session, which  *)
(* does not exist yet (DP-01).                                             *)
(***************************************************************************)
EXTENDS Naturals, Sequences

CONSTANTS
    Persons,          \* ids of users
    Phones,           \* phone numbers, once normalised
    AccountRequests,  \* requests that may be handled at once (a bound)
    MaxVerifications  \* verifications submitted (a bound)

ASSUME AccountsAssumption ==
    /\ MaxVerifications \in Nat
    /\ "none" \notin Phones

VARIABLES
    user,          \* the row of users of each person
    verification,  \* identity_verifications, in the order they were submitted
    asking,        \* the requests under way
    torn           \* verifications that two reviewers were deciding at once

accountsVars == <<user, verification, asking, torn>>
-----------------------------------------------------------------------------
NoUser == [phone |-> "none", status |-> "none", level |-> "NONE"]

NoRequest == [phase |-> "idle"]

AccountsInit ==
    /\ user         = [u \in Persons |-> NoUser]
    /\ verification = <<>>
    /\ asking       = [q \in AccountRequests |-> NoRequest]
    /\ torn         = {}

Taken(phone) == \E u \in Persons : user[u].phone = phone

Waiting(u) ==
    {n \in DOMAIN verification : verification[n].user = u /\ verification[n].status = "PENDING"}

Ask(q, request) ==
    /\ asking[q] = NoRequest
    /\ asking' = [asking EXCEPT ![q] = request]

(* CreateDevSessionUseCase finds no account of this phone ... *)
AskForAccount(q, u, phone) ==
    /\ user[u] = NoUser
    /\ ~ Taken(phone)
    /\ Ask(q, [phase |-> "creating", user |-> u, phone |-> phone])
    /\ UNCHANGED <<user, verification, torn>>

(* Mutant: the insertion does not mind an account of the same phone. *)
CreateAnother(q) ==
    /\ asking[q].phase = "creating"
    /\ LET u == asking[q].user
           phone == asking[q].phone
       IN  user' = IF user[u] # NoUser THEN user
                   ELSE [user EXCEPT ![u] = [phone |-> phone, status |-> "ACTIVE", level |-> "NONE"]]
    /\ asking' = [asking EXCEPT ![q] = NoRequest]
    /\ UNCHANGED <<verification, torn>>

(* ... and creates one, unless somebody else has meanwhile. *)
CreateAccount(q) ==
    /\ asking[q].phase = "creating"
    /\ LET u == asking[q].user
           phone == asking[q].phone
       IN  user' = IF user[u] # NoUser \/ Taken(phone) THEN user
                   ELSE [user EXCEPT ![u] = [phone |-> phone, status |-> "ACTIVE", level |-> "NONE"]]
    /\ asking' = [asking EXCEPT ![q] = NoRequest]
    /\ UNCHANGED <<verification, torn>>

(* SuspendUserUseCase and ReinstateUserUseCase: whatever the status was. *)
SetStatus(u, status) ==
    /\ user[u] # NoUser
    /\ user' = [user EXCEPT ![u].status = status]
    /\ UNCHANGED <<verification, asking, torn>>

(* DevAuthGuard lets an active account through. *)
PassGuard(q, u) ==
    /\ user[u].status = "ACTIVE"
    /\ Ask(q, [phase |-> "passed", user |-> u])
    /\ UNCHANGED <<user, verification, torn>>

(* SubmitIdentityVerificationUseCase: nothing of theirs is waiting, ... *)
LookForPending(q) ==
    /\ asking[q].phase = "passed"
    /\ asking' = [asking EXCEPT ![q] = IF Waiting(asking[q].user) # {} THEN NoRequest
                                       ELSE [phase |-> "submitting", user |-> asking[q].user]]
    /\ UNCHANGED <<user, verification, torn>>

(* ... and the verification waits, unless the index has one by now. *)
SubmitVerification(q) ==
    /\ asking[q].phase = "submitting"
    /\ Len(verification) < MaxVerifications
    /\ LET u == asking[q].user
       IN  verification' = IF Waiting(u) # {} THEN verification
                           ELSE Append(verification, [user |-> u, status |-> "PENDING"])
    /\ asking' = [asking EXCEPT ![q] = NoRequest]
    /\ UNCHANGED <<user, torn>>

(* Mutant: a verification that was decided may be decided again. *)
ReadAnyVerification(q, n, decision) ==
    /\ Ask(q, [phase |-> "deciding", of |-> n, decision |-> decision])
    /\ UNCHANGED <<user, verification, torn>>

(* ReviewIdentityVerificationUseCase reads one that is waiting, ... *)
ReadVerification(q, n, decision) ==
    /\ verification[n].status = "PENDING"
    /\ Ask(q, [phase |-> "deciding", of |-> n, decision |-> decision])
    /\ UNCHANGED <<user, verification, torn>>

DecidingOn(n) ==
    {q \in AccountRequests : asking[q].phase = "deciding" /\ asking[q].of = n}

(* ... raises the level of its user if it is approved, and writes the decision *)
(* over what another reviewer may have decided meanwhile.                      *)
Decide(q) ==
    /\ asking[q].phase = "deciding"
    /\ LET n == asking[q].of
           decision == asking[q].decision
       IN  /\ user' = IF decision = "APPROVED"
                      THEN [user EXCEPT ![verification[n].user].level = "IDENTITY"] ELSE user
           /\ verification' = [verification EXCEPT ![n].status = decision]
           /\ torn' = IF DecidingOn(n) # {q} THEN torn \cup {n} ELSE torn
    /\ asking' = [asking EXCEPT ![q] = NoRequest]

(* The transaction fails, or its process dies. *)
DropRequest(q) ==
    /\ asking[q] # NoRequest
    /\ asking' = [asking EXCEPT ![q] = NoRequest]
    /\ UNCHANGED <<user, verification, torn>>

AccountsNext ==
    \/ \E q \in AccountRequests, u \in Persons, p \in Phones : AskForAccount(q, u, p)
    \/ \E u \in Persons, s \in {"ACTIVE", "SUSPENDED"} : SetStatus(u, s)
    \/ \E q \in AccountRequests, u \in Persons : PassGuard(q, u)
    \/ \E q \in AccountRequests, n \in DOMAIN verification, d \in {"APPROVED", "REJECTED"} :
           ReadVerification(q, n, d)
    \/ \E q \in AccountRequests :
           \/ CreateAccount(q) \/ LookForPending(q) \/ SubmitVerification(q)
           \/ Decide(q) \/ DropRequest(q)

AccountsSpec == AccountsInit /\ [][AccountsNext]_accountsVars
-----------------------------------------------------------------------------
AccountRequestsMade ==
    [phase : {"creating"}, user : Persons, phone : Phones]
        \cup [phase : {"passed", "submitting"}, user : Persons]
        \cup [phase : {"deciding"}, of : DOMAIN verification, decision : {"APPROVED", "REJECTED"}]

AccountsTypeOK ==
    /\ user \in [Persons -> [phone : Phones \cup {"none"}, status : {"none", "ACTIVE", "SUSPENDED"},
                             level : {"NONE", "IDENTITY"}]]
    /\ verification \in Seq([user : Persons, status : {"PENDING", "APPROVED", "REJECTED"}])
    /\ asking \in [AccountRequests -> AccountRequestsMade \cup {NoRequest}]
    /\ torn \subseteq DOMAIN verification

(* However many requests run together, nobody shares a phone and nobody fills  *)
(* the queue of the administration (identity-verification.use-case.ts:55:      *)
(* "Quem o garante a sério é o índice único parcial de 014").                  *)
OneAccountOnePending ==
    /\ \A u, v \in Persons :
           user[u].phone = user[v].phone /\ user[u].phone # "none" => u = v
    /\ \A u \in Persons, m, n \in DOMAIN verification :
           m \in Waiting(u) /\ n \in Waiting(u) => m = n

(* The level that opens withdrawals is the one the decisions on record say,    *)
(* except for a verification that two reviewers were deciding at once: then an *)
(* approval may raise the level and its row end up rejected, or the reverse.   *)
LevelIsDecided ==
    \A u \in Persons :
        LET Approved == {n \in DOMAIN verification :
                             verification[n].user = u /\ verification[n].status = "APPROVED"}
            Torn == {n \in torn : verification[n].user = u}
        IN  /\ Approved # {} => user[u].level = "IDENTITY"
            /\ user[u].level = "IDENTITY" => Approved \cup Torn # {}
=============================================================================
