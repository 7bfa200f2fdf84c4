------------------------------ MODULE Accounts ------------------------------
(***************************************************************************)
(* Accounts and their sessions (auth/auth.service.ts,                      *)
(* refresh-token.service.ts, password-reset.service.ts,                    *)
(* user-admin.service.ts, jwt-auth.guard.ts, entra-sso.service.ts).        *)
(*                                                                         *)
(* A person signs in with a password or through Entra and is granted a     *)
(* refresh token, which each renewal of the session replaces by another.   *)
(* Wrong passwords are counted and lock the account.  A mailed link sets a *)
(* new password and ends every session.  Admins create accounts, change    *)
(* their role, deactivate them and reset their passwords.  A handler reads *)
(* in one statement and writes in another; between them the others run.    *)
(***************************************************************************)
EXTENDS Naturals, Sequences, FiniteSets

CONSTANTS
    Users,         \* people, by e-mail address
    Local,         \* those with a password here; the others come from Entra
    Handlers,      \* requests that may be in flight at a time
    Threshold,     \* LOCKOUT_THRESHOLD
    MaxTokens,     \* bound: refresh tokens in a behaviour
    MaxLinks,      \* bound: reset links in a behaviour
    MaxJobs        \* bound: handlers that start in a behaviour

ASSUME AccountsAssumption ==
    /\ Local \subseteq Users /\ IsFiniteSet(Users)
    /\ Threshold \in Nat \ {0}
    /\ {MaxTokens, MaxLinks, MaxJobs} \subseteq Nat

VARIABLES
    users,     \* table AppUser
    tokens,    \* table RefreshToken
    links,     \* table PasswordResetToken
    job,       \* what each handler does
    begun,     \* handlers started so far
    era,       \* history: resets by link, per account
    missed,    \* history: wrong passwords since the count of them began
    overtaken  \* history: what changed between another handler's read and write

rowVars == <<users, tokens, links>>
vars    == <<rowVars, job, begun, era, missed, overtaken>>

Roles == {"ADMIN", "REGIONAL"}

\* failedLoginCount, lockedUntil in the future, mustChangePassword.
AppUser == [state : {"absent", "active", "inactive"}, role : Roles,
            failed : 0 .. Threshold - 1, locked : BOOLEAN, mustChange : BOOLEAN]

\* end is revokedAt, with who was first to set it, or the end of its lifetime.
\* History: from is the token it replaced, era the reset its login came after,
\* stray that a reset ran while the token was being issued.
RefreshToken == [user : Users, end : {"live", "rotated", "logout", "reset", "expired"},
                 from : 0 .. MaxTokens, era : Nat, stray : BOOLEAN]

\* recent is within the cooldown; spent is history, passwords set through it.
ResetLink == [user : Users, used : BOOLEAN, age : {"recent", "valid", "expired"},
              spent : Nat]

Points == {"idle", "verify", "issue", "revoke", "cooldown", "mint", "consume",
           "target", "count", "write", "force", "insert", "change"}

Job == [at : Points, user : Users, failed : 0 .. Threshold - 1,
        token : 0 .. MaxTokens, era : Nat, stray : BOOLEAN,
        link : 0 .. MaxLinks, role : Roles, active : BOOLEAN, asks : BOOLEAN]

Idle == [at |-> "idle", user |-> CHOOSE u \in Users : TRUE, failed |-> 0,
         token |-> 0, era |-> 0, stray |-> FALSE, link |-> 0,
         role |-> "REGIONAL", active |-> FALSE, asks |-> FALSE]

TypeOK ==
    /\ users \in [Users -> AppUser]
    /\ tokens \in Seq(RefreshToken) /\ Len(tokens) <= MaxTokens
    /\ links \in Seq(ResetLink) /\ Len(links) <= MaxLinks
    /\ job \in [Handlers -> Job]
    /\ begun \in 0 .. MaxJobs
    /\ era \in [Users -> Nat] /\ missed \in [Users -> Nat]
    /\ overtaken \in [tokens : SUBSET (1 .. MaxTokens), links : SUBSET (1 .. MaxLinks),
                      counts : SUBSET Users, admins : BOOLEAN]

IsActive(u) == users[u].state = "active"
IsAdmin(u)  == IsActive(u) /\ users[u].role = "ADMIN"
Admins      == {u \in Users : IsAdmin(u)}

\* An installation in use: an admin was seeded, others were added.
Init ==
    /\ users \in [Users -> {r \in AppUser : ~r.locked /\ r.failed = 0 /\ ~r.mustChange
                                            /\ (r.state = "absent" => r.role = "REGIONAL")}]
    /\ Admins # {}
    /\ tokens = <<>> /\ links = <<>>
    /\ job = [h \in Handlers |-> Idle]
    /\ begun = 0
    /\ era = [u \in Users |-> 0] /\ missed = [u \in Users |-> 0]
    /\ overtaken = [tokens |-> {}, links |-> {}, counts |-> {}, admins |-> FALSE]

At(h, where) == job[h].at = where
Go(h, where) == job' = [job EXCEPT ![h].at = where] /\ UNCHANGED begun
Done(h)      == job' = [job EXCEPT ![h] = Idle] /\ UNCHANGED begun

Begin(h, work) ==
    /\ At(h, "idle") /\ begun < MaxJobs
    /\ job' = [job EXCEPT ![h] = work]
    /\ begun' = begun + 1

-----------------------------------------------------------------------------
(* Signing in. *)

\* login reads the account; whom it refuses changes nothing.
Login(h, u) ==
    /\ u \in Local /\ IsActive(u) /\ ~users[u].locked
    /\ Begin(h, [Idle EXCEPT !.at = "verify", !.user = u,
                             !.failed = users[u].failed, !.era = era[u]])
    /\ UNCHANGED <<rowVars, era, missed>>

\* Mutant: the count is not reset by the lock.
MissWithoutReset(h) ==
    LET u == job[h].user
        next == job[h].failed + 1
    IN  /\ At(h, "verify")
        /\ users' = [users EXCEPT ![u].failed = next,
                                  ![u].locked = @ \/ next >= Threshold]
        /\ missed' = [missed EXCEPT ![u] = IF next >= Threshold THEN 0 ELSE @ + 1]
        /\ Done(h)
        /\ UNCHANGED <<tokens, links, era>>

\* Mutant: the lock comes one failure too late.
MissLate(h) ==
    LET u == job[h].user
        next == job[h].failed + 1
    IN  /\ At(h, "verify")
        /\ IF next > Threshold
           THEN /\ users' = [users EXCEPT ![u].failed = 0, ![u].locked = TRUE]
                /\ missed' = [missed EXCEPT ![u] = 0]
           ELSE /\ users' = [users EXCEPT ![u].failed = next]
                /\ missed' = [missed EXCEPT ![u] = @ + 1]
        /\ Done(h)
        /\ UNCHANGED <<tokens, links, era>>

\* registerFailedLogin counts from what login had read, and locks.
Miss(h) ==
    LET u == job[h].user
        next == job[h].failed + 1
    IN  /\ At(h, "verify")
        /\ IF next >= Threshold
           THEN /\ users' = [users EXCEPT ![u].failed = 0, ![u].locked = TRUE]
                /\ missed' = [missed EXCEPT ![u] = 0]
           ELSE /\ users' = [users EXCEPT ![u].failed = next]
                /\ missed' = [missed EXCEPT ![u] = @ + 1]
        /\ Done(h)
        /\ UNCHANGED <<tokens, links, era>>

\* The password is right: the count and the lock are cleared.
Pass(h) ==
    LET u == job[h].user IN
    /\ At(h, "verify")
    /\ users' = [users EXCEPT ![u].failed = 0, ![u].locked = FALSE]
    /\ missed' = [missed EXCEPT ![u] = 0]
    /\ Go(h, "issue")
    /\ UNCHANGED <<tokens, links, era>>

\* upsertEntraUser: a person seen for the first time is REGIONAL; nobody asks
\* here whether the account is active (every later request of the session does).
SsoLogin(h, u) ==
    /\ u \notin Local
    /\ users' = [users EXCEPT ![u].state = IF @ = "absent" THEN "active" ELSE @]
    /\ Begin(h, [Idle EXCEPT !.at = "issue", !.user = u, !.era = era[u]])
    /\ UNCHANGED <<tokens, links, era, missed>>

-----------------------------------------------------------------------------
(* The session. *)

\* RefreshTokenService.issue, for a login or for a renewal.
Issue(h) ==
    /\ At(h, "issue")
    /\ IF Len(tokens) < MaxTokens
       THEN tokens' = Append(tokens,
                [user |-> job[h].user, end |-> "live", from |-> job[h].token,
                 era |-> job[h].era, stray |-> job[h].stray])
       ELSE UNCHANGED tokens
    /\ Done(h)
    /\ UNCHANGED <<users, links, era, missed>>

\* Mutant: the presented token is looked up, but not whether it was revoked.
RefreshRevoked(h, t) ==
    /\ tokens[t].end # "expired"
    /\ Begin(h, [Idle EXCEPT !.at = "revoke", !.user = tokens[t].user, !.token = t,
                             !.era = tokens[t].era, !.stray = tokens[t].stray])
    /\ UNCHANGED <<rowVars, era, missed>>

\* rotate: the presented token has to be live.
Refresh(h, t) ==
    /\ tokens[t].end = "live"
    /\ Begin(h, [Idle EXCEPT !.at = "revoke", !.user = tokens[t].user, !.token = t,
                             !.era = tokens[t].era, !.stray = tokens[t].stray])
    /\ UNCHANGED <<rowVars, era, missed>>

\* ... it is revoked by id, whatever became of it, and another one is issued
\* before anybody asks whether the account is still active.
Revoke(h) ==
    /\ At(h, "revoke")
    /\ tokens' = [tokens EXCEPT ![job[h].token].end = IF @ = "live" THEN "rotated" ELSE @]
    /\ Go(h, "issue")
    /\ UNCHANGED <<users, links, era, missed>>

\* revoke, in one conditional statement.
Logout(t) ==
    /\ tokens[t].end = "live"
    /\ tokens' = [tokens EXCEPT ![t].end = "logout"]
    /\ UNCHANGED <<users, links, job, begun, era, missed>>

-----------------------------------------------------------------------------
(* Resetting a password by mail. *)

\* PasswordResetService.issue: only an active account with a password.
RequestLink(h, u) ==
    /\ u \in Local /\ IsActive(u)
    /\ Begin(h, [Idle EXCEPT !.at = "cooldown", !.user = u])
    /\ UNCHANGED <<rowVars, era, missed>>

CheckCooldown(h) ==
    /\ At(h, "cooldown")
    /\ IF \E l \in DOMAIN links : links[l].user = job[h].user /\ links[l].age = "recent"
       THEN Done(h) ELSE Go(h, "mint")
    /\ UNCHANGED <<rowVars, era, missed>>

MintLink(h) ==
    /\ At(h, "mint")
    /\ IF Len(links) < MaxLinks
       THEN links' = Append(links, [user |-> job[h].user, used |-> FALSE,
                                    age |-> "recent", spent |-> 0])
       ELSE UNCHANGED links
    /\ Done(h)
    /\ UNCHANGED <<users, tokens, era, missed>>

\* consume reads the link and its account, and hashes the new password ...
UseLink(h, l) ==
    /\ ~links[l].used /\ links[l].age # "expired" /\ IsActive(links[l].user)
    /\ Begin(h, [Idle EXCEPT !.at = "consume", !.user = links[l].user, !.link = l])
    /\ UNCHANGED <<rowVars, era, missed>>

\* The password is set through link l; ends are the tokens it revokes.
SetByLink(h, ends) ==
    LET u == job[h].user IN
    /\ At(h, "consume")
    /\ users' = [users EXCEPT ![u].failed = 0, ![u].locked = FALSE, ![u].mustChange = FALSE]
    /\ links' = [links EXCEPT ![job[h].link].used = TRUE, ![job[h].link].spent = @ + 1]
    /\ tokens' = [t \in DOMAIN tokens |->
                    IF t \in ends /\ tokens[t].end = "live"
                    THEN [tokens[t] EXCEPT !.end = "reset"] ELSE tokens[t]]
    /\ era' = [era EXCEPT ![u] = @ + 1]
    /\ missed' = [missed EXCEPT ![u] = 0]
    /\ job' = [g \in Handlers |->
                 IF g = h THEN Idle
                 ELSE IF job[g].user = u /\ job[g].at \in {"verify", "revoke", "issue"}
                 THEN [job[g] EXCEPT !.stray = TRUE] ELSE job[g]]
    /\ UNCHANGED begun

\* Mutant: only the session that presented the link is ended, which has none.
ConsumeOnly(h) == SetByLink(h, {})

\* ... and sets it, spends the link by id and ends every session, in one
\* transaction.
Consume(h) == SetByLink(h, {t \in DOMAIN tokens : tokens[t].user = job[h].user})

-----------------------------------------------------------------------------
(* Administration. *)

\* JwtAuthGuard, ensurePasswordChanged and RolesGuard, before the handler runs.  Who
\* shows a token of Entra's (upsertEntraUser) is not asked whether the account is
\* active; who has a session of the platform's is.
MayAdminister(a) ==
    /\ users[a].role = "ADMIN" /\ users[a].state # "absent"
    /\ a \in Local => IsActive(a) /\ ~users[a].mustChange

\* update: role and active are what the form asks for account u; a field that it
\* leaves out is one that happens to ask for what is read.
Update(h, a, u) ==
    /\ MayAdminister(a)
    /\ \E role \in Roles, active \in BOOLEAN :
         /\ u = a => active
         /\ Begin(h, [Idle EXCEPT !.at = "target", !.user = u, !.asks = TRUE,
                                  !.role = role, !.active = active])
    /\ UNCHANGED <<rowVars, era, missed>>

\* It reads the account: only who takes an active admin away is counted.
ReadTarget(h) ==
    LET losing == IsAdmin(job[h].user) /\ ~(job[h].role = "ADMIN" /\ job[h].active) IN
    /\ At(h, "target") /\ job[h].asks
    /\ IF users[job[h].user].state = "absent" THEN Done(h)
       ELSE Go(h, IF losing THEN "count" ELSE "write")
    /\ UNCHANGED <<rowVars, era, missed>>

\* Mutant: the admin who is about to go is counted with the others.
CountAll(h) ==
    /\ At(h, "count")
    /\ IF Admins = {} THEN Done(h) ELSE Go(h, "write")
    /\ UNCHANGED <<rowVars, era, missed>>

CountAdmins(h) ==
    /\ At(h, "count")
    /\ IF Admins \ {job[h].user} = {} THEN Done(h) ELSE Go(h, "write")
    /\ UNCHANGED <<rowVars, era, missed>>

\* Role and active are written together, by id.
WriteUser(h) ==
    LET u == job[h].user IN
    /\ At(h, "write")
    /\ users' = [users EXCEPT ![u].role = job[h].role,
                   ![u].state = IF job[h].active THEN "active" ELSE "inactive"]
    /\ Done(h)
    /\ UNCHANGED <<tokens, links, era, missed>>

\* resetPassword by an admin: whatever the account's state; its sessions live on.
AdminReset(h, a, u) ==
    /\ MayAdminister(a) /\ u \in Local
    /\ Begin(h, [Idle EXCEPT !.at = "target", !.user = u])
    /\ UNCHANGED <<rowVars, era, missed>>

FindAccount(h) ==
    /\ At(h, "target") /\ ~job[h].asks
    /\ IF users[job[h].user].state = "absent" THEN Done(h) ELSE Go(h, "force")
    /\ UNCHANGED <<rowVars, era, missed>>

ForceChange(h) ==
    /\ At(h, "force")
    /\ users' = [users EXCEPT ![job[h].user].mustChange = TRUE]
    /\ Done(h)
    /\ UNCHANGED <<tokens, links, era, missed>>

\* create looks for the address; two that meet are told apart by its uniqueness.
CreateUser(h, a, u) ==
    /\ MayAdminister(a) /\ u \in Local /\ users[u].state = "absent"
    /\ \E role \in Roles : Begin(h, [Idle EXCEPT !.at = "insert", !.user = u, !.role = role])
    /\ UNCHANGED <<rowVars, era, missed>>

InsertUser(h) ==
    LET u == job[h].user IN
    /\ At(h, "insert")
    /\ IF users[u].state = "absent"
       THEN users' = [users EXCEPT ![u] = [@ EXCEPT !.state = "active", !.mustChange = TRUE,
                                                    !.role = job[h].role]]
       ELSE UNCHANGED users
    /\ Done(h)
    /\ UNCHANGED <<tokens, links, era, missed>>

\* changePassword: the guard lets the account in, also when it has to change.
ChangePassword(h, u) ==
    /\ u \in Local /\ IsActive(u)
    /\ Begin(h, [Idle EXCEPT !.at = "change", !.user = u])
    /\ UNCHANGED <<rowVars, era, missed>>

WritePassword(h) ==
    /\ At(h, "change")
    /\ users' = [users EXCEPT ![job[h].user].mustChange = FALSE]
    /\ Done(h)
    /\ UNCHANGED <<tokens, links, era, missed>>

-----------------------------------------------------------------------------
(* Time and restarts. *)

LockEnds(u) ==
    /\ users[u].locked
    /\ users' = [users EXCEPT ![u].locked = FALSE]
    /\ UNCHANGED <<tokens, links, job, begun, era, missed>>

TokenExpires(t) ==
    /\ tokens[t].end = "live"
    /\ tokens' = [tokens EXCEPT ![t].end = "expired"]
    /\ UNCHANGED <<users, links, job, begun, era, missed>>

\* The cooldown is shorter than the lifetime of a link.
LinkAges(l) ==
    /\ links[l].age # "expired"
    /\ links' = [links EXCEPT ![l].age = IF @ = "recent" THEN "valid" ELSE "expired"]
    /\ UNCHANGED <<users, tokens, job, begun, era, missed>>

Restart ==
    /\ \E h \in Handlers : ~At(h, "idle")
    /\ job' = [h \in Handlers |-> Idle]
    /\ UNCHANGED <<rowVars, begun, era, missed>>

-----------------------------------------------------------------------------
HandlerStep(h) ==
    \/ \E u \in Users : \/ Login(h, u) \/ SsoLogin(h, u) \/ RequestLink(h, u)
                        \/ ChangePassword(h, u)
    \/ Miss(h) \/ Pass(h) \/ Issue(h) \/ Revoke(h)
    \/ \E t \in DOMAIN tokens : Refresh(h, t)
    \/ CheckCooldown(h) \/ MintLink(h) \/ Consume(h)
    \/ \E l \in DOMAIN links : UseLink(h, l)
    \/ \E a, u \in Users : Update(h, a, u) \/ AdminReset(h, a, u) \/ CreateUser(h, a, u)
    \/ ReadTarget(h) \/ CountAdmins(h) \/ WriteUser(h)
    \/ FindAccount(h) \/ ForceChange(h) \/ InsertUser(h) \/ WritePassword(h)

Elapse ==
    \/ \E u \in Users : LockEnds(u)
    \/ \E t \in DOMAIN tokens : Logout(t) \/ TokenExpires(t)
    \/ \E l \in DOMAIN links : LinkAges(l)

\* h has read something and is about to write on the strength of it, and this
\* step is not its own.
Waits(h, where) == At(h, where) /\ At(h, where)'

Remember ==
    overtaken' = [overtaken EXCEPT
        !.tokens = @ \cup {job[h].token : h \in {g \in Handlers :
            Waits(g, "revoke") /\ tokens[job[g].token].end # (tokens[job[g].token].end)'}},
        !.links  = @ \cup {job[h].link : h \in {g \in Handlers :
            Waits(g, "consume") /\ links[job[g].link].spent # (links[job[g].link].spent)'}},
        !.counts = @ \cup {job[h].user : h \in {g \in Handlers :
            Waits(g, "verify")
            /\ users[job[g].user].failed # (users[job[g].user].failed)'}},
        !.admins = @ \/ (Admins' # Admins /\ \E h \in Handlers : Waits(h, "write"))]

Next ==
    \/ \E h \in Handlers : HandlerStep(h) /\ Remember
    \/ Elapse /\ Remember
    \/ Restart /\ Remember

Spec == Init /\ [][Next]_vars

-----------------------------------------------------------------------------
(* Properties. *)

\* What may be spent once is spent once: a refresh token has one successor when a
\* renewal ended it and none when anything else did (rotate), and a link sets one
\* password (consume) - unless the token, or the link, changed between the read
\* and the write of the handler that spent it.
SpentOnce ==
    /\ \A t \in DOMAIN tokens :
         LET next == {s \in DOMAIN tokens : tokens[s].from = t} IN
         t \notin overtaken.tokens =>
             Cardinality(next) <= IF tokens[t].end = "rotated" THEN 1 ELSE 0
    /\ \A l \in DOMAIN links : l \notin overtaken.links => links[l].spent <= 1

\* After a reset by mail, no session lives whose login came before it, however
\* often it was renewed (consume) - but for a login or a renewal that was under
\* way when the reset ran.
ResetEndsSessions ==
    \A t \in DOMAIN tokens :
        tokens[t].end = "live" /\ tokens[t].era < era[tokens[t].user] => tokens[t].stray

\* There is an active admin (update: never lock everyone out), unless the admins
\* changed between the count and the write of an update.
AdminRemains == Admins # {} \/ overtaken.admins

\* No account takes as many wrong passwords in a row as the threshold without
\* being locked, unless the count changed while one of them was being verified
\* (registerFailedLogin counts from what login had read).
LockoutCounts == \A u \in Users : missed[u] < Threshold \/ u \in overtaken.counts
=============================================================================
