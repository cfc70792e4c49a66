------------------------------ MODULE Accounts ------------------------------
(***************************************************************************)
(* How people get into an organization and back into their account:        *)
(* invitations (modules/auth/invitation.service.ts), signup and the first  *)
(* Google sign-in (signup.service.ts, tenant-provisioning.ts) and password *)
(* resets (password-reset.service.ts).                                     *)
(*                                                                         *)
(* One inviting organization, "company"; a signup founds an organization   *)
(* of its own, named after the e-mail here.  An invitation's link is the   *)
(* newest one issued for its row: re-inviting replaces the token.  Each    *)
(* service reads first and writes later: the two are steps of their own, a *)
(* transaction commits in one.  scope, chosen once, says which services    *)
(* are called.                                                             *)
(***************************************************************************)
EXTENDS Integers, FiniteSets

CONSTANTS
  Emails,     \* addresses, the unique key of User
  Calls,      \* concurrent calls of the services
  MaxInvites, \* bound: Invitation rows
  MaxTokens,  \* bound: invitation links issued
  MaxLinks,   \* bound: password reset links
  Scopes      \* sets of services called together

ASSUME AccountsAssumption ==
  /\ IsFiniteSet(Emails)
  /\ MaxInvites \in Nat /\ MaxTokens \in Nat /\ MaxLinks \in Nat

VARIABLES
  scope,
  user,     \* Emails -> the User row
  slug,     \* Emails -> the slug of the organization it founded, 0: none
  inv,      \* ids -> the Invitation row
  issued,   \* invitation links issued so far
  link,     \* reset links -> the PasswordResetToken row
  call,     \* Calls -> the call in progress
  accepts,  \* history: ids -> accounts made or updated by the invitation
  resets,   \* history: reset links -> passwords set with it
  raced,    \* history: invitations revoked or issued anew by a call that read them
            \* before they were accepted
  renewed,  \* history: invitations issued anew while they were being accepted
  tangled   \* history: addresses with two overlapping reset requests

acctVars == <<scope, user, slug, inv, issued, link, call, accepts, resets,
              raced, renewed, tangled>>

Invites == 1..MaxInvites
Links == 1..MaxLinks
Roles == {"ADMIN", "MEMBER"}
Services == {"invite", "revoke", "accept", "signup", "forgot", "reset"}

NoUser == [org |-> "none", role |-> "MEMBER"]
NoCall == [step |-> "idle", email |-> {}, role |-> "MEMBER", id |-> 0]

AcctInit ==
  /\ scope \in Scopes
  /\ user = [e \in Emails |-> NoUser]
  /\ slug = [e \in Emails |-> 0]
  /\ inv = [i \in Invites |-> [status |-> "NONE", email |-> {}, role |-> "MEMBER",
                               fresh |-> FALSE]]
  /\ issued = 0
  /\ link = [k \in Links |-> [state |-> "none", email |-> {}, fresh |-> FALSE]]
  /\ call = [c \in Calls |-> NoCall]
  /\ accepts = [i \in Invites |-> 0]
  /\ resets = [k \in Links |-> 0]
  /\ raced = {} /\ renewed = {} /\ tangled = {}

Exists(e) == user[e].org # "none"
Begins(c, step, e, role, id) ==
  /\ call[c].step = "idle"
  /\ call' = [call EXCEPT ![c] = [step |-> step, email |-> {e}, role |-> role, id |-> id]]
Ends(c) == call' = [call EXCEPT ![c] = NoCall]

Rows(email, status) == {i \in Invites : inv[i].email = email /\ inv[i].status = status}

(* Mutant: the unique key is missing. *)
Taken_Never(i, status) == FALSE

(* The unique key (organizationId, email, status) holds another row back.   *)
Taken(i, status) == Rows(inv[i].email, status) \ {i} # {}

-----------------------------------------------------------------------------
(* Invitations. *)

(* create: no account has the address; is an invitation pending? *)
ReadInvite(c, e, role) ==
  /\ "invite" \in scope
  /\ ~Exists(e)
  /\ issued < MaxTokens
  /\ \/ \E i \in Rows({e}, "PENDING") : Begins(c, "invite", e, role, i)
     \/ Rows({e}, "PENDING") = {} /\ Begins(c, "invite", e, role, 0)
  /\ UNCHANGED <<scope, user, slug, inv, issued, link, accepts, resets, raced, renewed,
                 tangled>>

(* The pending row gets a new token, by its id and whatever its status is   *)
(* by now; otherwise a row is created, unless the key is taken.             *)
WriteInvite(c) ==
  LET old == call[c].id
      Issue(i) == [inv EXCEPT ![i].role = call[c].role, ![i].fresh = TRUE]
  IN /\ call[c].step = "invite"
     /\ Ends(c)
     /\ \/ /\ old # 0
           /\ inv' = Issue(old)
           /\ issued' = issued + 1
           /\ raced' = IF inv[old].status = "ACCEPTED" THEN raced \cup {old} ELSE raced
           /\ renewed' = IF \E d \in Calls : call[d].step = "accept" /\ call[d].id = old
                         THEN renewed \cup {old} ELSE renewed
        \/ /\ old = 0 /\ Rows(call[c].email, "PENDING") = {}
           /\ \E i \in Invites :
                /\ inv[i].status = "NONE"
                /\ \A j \in 1..(i - 1) : inv[j].status # "NONE"
                /\ inv' = [Issue(i) EXCEPT ![i].status = "PENDING",
                                           ![i].email = call[c].email]
           /\ issued' = issued + 1
           /\ UNCHANGED <<raced, renewed>>
        \/ /\ old = 0 /\ Rows(call[c].email, "PENDING") # {}
           /\ UNCHANGED <<inv, issued, raced, renewed>>
     /\ UNCHANGED <<scope, user, slug, link, accepts, resets, tangled>>

InvitationExpires(i) ==
  /\ inv[i].fresh
  /\ inv' = [inv EXCEPT ![i].fresh = FALSE]
  /\ UNCHANGED <<scope, user, slug, issued, link, call, accepts, resets, raced, renewed,
                 tangled>>

(* revoke: only a pending invitation. *)
ReadRevoke(c, i) ==
  /\ "revoke" \in scope
  /\ inv[i].status = "PENDING"
  /\ \E e \in inv[i].email : Begins(c, "revoke", e, "MEMBER", i)
  /\ UNCHANGED <<scope, user, slug, inv, issued, link, accepts, resets, raced, renewed,
                 tangled>>

(* By id; a second REVOKED row of the address violates the unique key.      *)
WriteRevoke(c) ==
  LET i == call[c].id
      taken == Taken(i, "REVOKED")
  IN /\ call[c].step = "revoke"
     /\ Ends(c)
     /\ inv' = IF taken THEN inv ELSE [inv EXCEPT ![i].status = "REVOKED"]
     /\ raced' = IF ~taken /\ inv[i].status = "ACCEPTED" THEN raced \cup {i} ELSE raced
     /\ UNCHANGED <<scope, user, slug, issued, link, accepts, resets, renewed, tangled>>

(* accept: resolveToken, and the hash of the new password. *)
ReadAccept(c, i) ==
  /\ "accept" \in scope
  /\ inv[i].status = "PENDING" /\ inv[i].fresh
  /\ \E e \in inv[i].email : Begins(c, "accept", e, inv[i].role, i)
  /\ UNCHANGED <<scope, user, slug, inv, issued, link, accepts, resets, raced, renewed,
                 tangled>>

(* Mutant: the claim does not look at the status. *)
Claimable_ById(i) == TRUE

(* The claim of the transaction: guarded by the status. *)
Claimable(i) == inv[i].status = "PENDING"

(* Mutant: the invitation keeps its status. *)
Consumed_Open(i) == inv
Consumed(i) == [inv EXCEPT ![i].status = "ACCEPTED"]

(* Mutant: the role is not the invitation's. *)
Joined_Admin(e, role) ==
  IF Exists(e) THEN user[e] ELSE [org |-> "company", role |-> "ADMIN"]

(* Mutant: an existing account takes the role and tenant it was invited to. *)
Joined_Moves(e, role) == [org |-> "company", role |-> role]

(* user.upsert: only a new account takes the tenant and the role. *)
Joined(e, role) == IF Exists(e) THEN user[e] ELSE [org |-> "company", role |-> role]

WriteAccept(c) ==
  LET i == call[c].id
      claimed == Claimable(i) /\ ~Taken(i, "ACCEPTED")
  IN /\ call[c].step = "accept"
     /\ Ends(c)
     /\ IF claimed
        THEN /\ inv' = Consumed(i)
             /\ \E e \in call[c].email :
                  user' = [user EXCEPT ![e] = Joined(e, call[c].role)]
             /\ accepts' = [accepts EXCEPT ![i] = @ + 1]
        ELSE UNCHANGED <<inv, user, accepts>>
     /\ UNCHANGED <<scope, slug, issued, link, resets, raced, renewed, tangled>>

-----------------------------------------------------------------------------
(* Signup: register and ensureFederatedTenant end in provision. *)

(* resolveTenantSlug: the first suffix that no organization has.            *)
FreeSlug ==
  CHOOSE n \in 1..(Cardinality(Emails) + 1) :
    /\ \A e \in Emails : slug[e] # n
    /\ \A m \in 1..(n - 1) : \E e \in Emails : slug[e] = m

(* The reads of the transaction. *)
ReadSignup(c, e) ==
  /\ "signup" \in scope
  /\ ~Exists(e)
  /\ Begins(c, "signup", e, "ADMIN", FreeSlug)
  /\ UNCHANGED <<scope, user, slug, inv, issued, link, accepts, resets, raced, renewed,
                 tangled>>

(* Mutant: the organization stays when its user cannot be created. *)
Founded_Kept(e, n) == ~\E f \in Emails : slug[f] = n
Founded(e, n) == ~Exists(e) /\ ~\E f \in Emails : slug[f] = n

(* Its commit: the unique keys on the address and on the slug let one of    *)
(* two concurrent signups through; the other leaves nothing behind.         *)
WriteSignup(c) ==
  /\ call[c].step = "signup"
  /\ Ends(c)
  /\ \E e \in call[c].email :
       IF Founded(e, call[c].id)
       THEN /\ slug' = [slug EXCEPT ![e] = call[c].id]
            /\ user' = IF Exists(e) THEN user
                       ELSE [user EXCEPT ![e] = [org |-> "own", role |-> "ADMIN"]]
       ELSE UNCHANGED <<slug, user>>
  /\ UNCHANGED <<scope, inv, issued, link, accepts, resets, raced, renewed, tangled>>

-----------------------------------------------------------------------------
(* Password resets. *)

Asking(e) == {c \in Calls : call[c].step \in {"forget", "renew"} /\ call[c].email = {e}}

ReadForgot(c, e) ==
  /\ "forgot" \in scope
  /\ Exists(e)
  /\ Begins(c, "forget", e, "MEMBER", 0)
  /\ tangled' = IF Asking(e) = {} THEN tangled ELSE tangled \cup {e}
  /\ UNCHANGED <<scope, user, slug, inv, issued, link, accepts, resets, raced, renewed>>

(* Mutant: nothing is invalidated. *)
Invalidated_None(k, email) == FALSE
Invalidated(k, email) == link[k].email = email

DeleteLinks(c) ==
  /\ call[c].step = "forget"
  /\ call' = [call EXCEPT ![c].step = "renew"]
  /\ link' = [k \in Links |-> IF Invalidated(k, call[c].email)
                              THEN [link[k] EXCEPT !.state = "gone"] ELSE link[k]]
  /\ UNCHANGED <<scope, user, slug, inv, issued, accepts, resets, raced, renewed, tangled>>

CreateLink(c) ==
  /\ call[c].step = "renew"
  /\ Ends(c)
  /\ \E k \in Links :
       /\ link[k].state = "none"
       /\ \A j \in 1..(k - 1) : link[j].state # "none"
       /\ link' = [link EXCEPT ![k] = [state |-> "live", email |-> call[c].email,
                                       fresh |-> TRUE]]
  /\ UNCHANGED <<scope, user, slug, inv, issued, accepts, resets, raced, renewed, tangled>>

LinkExpires(k) ==
  /\ link[k].fresh
  /\ link' = [link EXCEPT ![k].fresh = FALSE]
  /\ UNCHANGED <<scope, user, slug, inv, issued, call, accepts, resets, raced, renewed,
                 tangled>>

(* consume: resolveToken, and the hash of the new password. *)
ReadReset(c, k) ==
  /\ "reset" \in scope
  /\ link[k].state = "live" /\ link[k].fresh
  /\ \E e \in link[k].email : Begins(c, "reset", e, "MEMBER", k)
  /\ UNCHANGED <<scope, user, slug, inv, issued, link, accepts, resets, raced, renewed,
                 tangled>>

Redeemable(k) == link[k].state = "live"

(* The transaction: claim the link, set the password, delete the siblings.  *)
WriteReset(c) ==
  LET k == call[c].id
  IN /\ call[c].step = "reset"
     /\ Ends(c)
     /\ IF Redeemable(k)
        THEN /\ link' = [j \in Links |->
                  IF j = k THEN [link[j] EXCEPT !.state = "used"]
                  ELSE IF link[j].email = link[k].email /\ link[j].state = "live"
                  THEN [link[j] EXCEPT !.state = "gone"] ELSE link[j]]
             /\ resets' = [resets EXCEPT ![k] = @ + 1]
        ELSE UNCHANGED <<link, resets>>
     /\ UNCHANGED <<scope, user, slug, inv, issued, accepts, raced, renewed, tangled>>

(* The request dies, or the database refuses, between two statements.       *)
CallDies(c) ==
  /\ call[c].step # "idle"
  /\ Ends(c)
  /\ UNCHANGED <<scope, user, slug, inv, issued, link, accepts, resets, raced, renewed,
                 tangled>>

AcctNext ==
  \/ \E c \in Calls :
       \/ \E e \in Emails :
            \/ \E role \in Roles : ReadInvite(c, e, role)
            \/ ReadSignup(c, e) \/ ReadForgot(c, e)
       \/ \E i \in Invites : ReadRevoke(c, i) \/ ReadAccept(c, i)
       \/ \E k \in Links : ReadReset(c, k)
       \/ WriteInvite(c) \/ WriteRevoke(c) \/ WriteAccept(c) \/ WriteSignup(c)
       \/ DeleteLinks(c) \/ CreateLink(c) \/ WriteReset(c) \/ CallDies(c)
  \/ \E i \in Invites : InvitationExpires(i)
  \/ \E k \in Links : LinkExpires(k)

AcctSpec == AcctInit /\ [][AcctNext]_acctVars

-----------------------------------------------------------------------------
(* Properties. *)

(* Accounts, invitations, links and calls keep their shape; an address has  *)
(* at most one invitation of each status, and a call in progress knows its  *)
(* address.                                                                 *)
AccountsTypeOK ==
  /\ scope \in Scopes
  /\ user \in [Emails -> [org : {"none", "company", "own"}, role : Roles]]
  /\ slug \in [Emails -> Nat]
  /\ inv \in [Invites -> [status : {"NONE", "PENDING", "ACCEPTED", "REVOKED"},
                          email : SUBSET Emails, role : Roles, fresh : BOOLEAN]]
  /\ \A i \in Invites : inv[i].status # "NONE" => Cardinality(Rows(inv[i].email, inv[i].status)) = 1
  /\ issued \in Nat
  /\ link \in [Links -> [state : {"none", "live", "used", "gone"},
                         email : SUBSET Emails, fresh : BOOLEAN]]
  /\ call \in [Calls -> [step : Services \cup {"idle", "forget", "renew"},
                         email : SUBSET Emails, role : Roles, id : Nat]]
  /\ \A c \in Calls : call[c].step # "idle" => Cardinality(call[c].email) = 1
  /\ accepts \in [Invites -> Nat] /\ resets \in [Links -> Nat]
  /\ raced \subseteq Invites /\ renewed \subseteq Invites
  /\ tangled \subseteq Emails

(* An invitation makes at most one account, and none while it is pending:   *)
(* a link opened twice, rotated or revoked in between is redeemed once.     *)
InvitationOnce ==
  \A i \in Invites :
    /\ accepts[i] <= 1
    /\ inv[i].status = "PENDING" => accepts[i] = 0
    /\ inv[i].status = "ACCEPTED" => \A e \in inv[i].email : Exists(e)

(* Unless a revocation wrote over an acceptance that came in after its      *)
(* read, a revoked invitation was never used.                               *)
RevokedUnused ==
  \A i \in Invites \ raced : inv[i].status = "REVOKED" => accepts[i] = 0

(* Whoever joined the company has the role of the invitation it accepted,   *)
(* unless that invitation was issued anew in the middle of the acceptance,  *)
(* or by a call that had read it before.                                    *)
RoleAsInvited ==
  \A e \in Emails : user[e].org = "company" =>
    \E i \in Invites :
      /\ accepts[i] = 1 /\ inv[i].email = {e}
      /\ inv[i].role = user[e].role \/ i \in raced \cup renewed

(* Every founded organization has its founder as ADMIN and a slug of its    *)
(* own, even when two signups run at the same instant or one races an       *)
(* accepted invitation.                                                     *)
FoundersOwn ==
  /\ \A e \in Emails : slug[e] # 0 <=> user[e].org = "own"
  /\ \A e \in Emails : user[e].org = "own" => user[e].role = "ADMIN"
  /\ \A e, f \in Emails : slug[e] # 0 /\ slug[e] = slug[f] => e = f

(* A reset link sets one password.  Unless two requests of one address      *)
(* overlapped, only its newest link is live.                                *)
NewestLinkOnly ==
  /\ \A k \in Links : resets[k] <= 1
  /\ \A j, k \in Links :
       /\ j < k /\ link[j].state = "live" /\ link[j].email = link[k].email
       => link[k].email \subseteq tangled

(* Whatever invitations, revocations, sign-ups, Google sign-ins and         *)
(* password resets of one address cross each other: rows are well formed,   *)
(* invitations and links are used once and as they were issued, and every   *)
(* organization keeps its founder.                                          *)
AccountsSafe ==
  /\ AccountsTypeOK /\ InvitationOnce /\ RevokedUnused
  /\ RoleAsInvited /\ FoundersOwn /\ NewestLinkOnly
=============================================================================
