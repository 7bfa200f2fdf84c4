--------------------------- MODULE AccountsProofs ---------------------------
(***************************************************************************)
(* Proofs about Accounts for any finite set of people, any number of       *)
(* handlers and any bounds.                                                *)
(***************************************************************************)
EXTENDS Accounts, FiniteSetTheorems, SequenceTheorems, TLAPS

-----------------------------------------------------------------------------
(* Types.  overtaken names the tokens and links that handlers carry, so its *)
(* type rests on what a handler at its write carries being there.          *)

\* What is not history of a race.
CoreTypes ==
    /\ users \in [Users -> AppUser]
    /\ tokens \in Seq(RefreshToken) /\ Len(tokens) <= MaxTokens
    /\ links \in Seq(ResetLink) /\ Len(links) <= MaxLinks
    /\ job \in [Handlers -> Job]
    /\ begun \in 0 .. MaxJobs
    /\ era \in [Users -> Nat] /\ missed \in [Users -> Nat]

OvertakenType ==
    overtaken \in [tokens : SUBSET (1 .. MaxTokens), links : SUBSET (1 .. MaxLinks),
                   counts : SUBSET Users, admins : BOOLEAN]

\* A handler, or a token, refers to a token or a link that exists, or to none.
Refs ==
    /\ \A h \in Handlers : /\ job[h].token \in 0 .. Len(tokens)
                           /\ job[h].link \in 0 .. Len(links)
                           /\ At(h, "revoke") => job[h].token # 0
                           /\ At(h, "consume") => job[h].link # 0
    /\ \A t \in DOMAIN tokens : tokens[t].from \in 0 .. Len(tokens)

Typed == CoreTypes /\ OvertakenType /\ Refs

LEMMA TypedIsTypeOK == Typed => TypeOK
BY DEF Typed, CoreTypes, OvertakenType, TypeOK

LEMMA IdleType == Users # {} => Idle \in Job
BY AccountsAssumption DEF Idle, Job, Points, Roles

\* A handler's next job, when its account, its token and its link stay.
LEMMA GoTypes ==
    ASSUME CoreTypes, Refs, NEW h \in Handlers, NEW where \in Points \ {"revoke", "consume"},
           Go(h, where) \/ Done(h)
    PROVE  /\ job' \in [Handlers -> Job] /\ begun' \in 0 .. MaxJobs
           /\ \A g \in Handlers : /\ job'[g].token \in 0 .. Len(tokens)
                                  /\ job'[g].link \in 0 .. Len(links)
                                  /\ job'[g].at = "revoke" => job'[g].token # 0
                                  /\ job'[g].at = "consume" => job'[g].link # 0
<1>1. Idle \in Job /\ Idle.token = 0 /\ Idle.link = 0 /\ Idle.at = "idle"
  BY IdleType DEF CoreTypes, Job, Idle
<1>2. Len(tokens) \in Nat /\ Len(links) \in Nat
  BY DEF CoreTypes
<1>3. CASE Go(h, where)
  BY <1>3, <1>2 DEF CoreTypes, Refs, Go, At, Job
<1>4. CASE Done(h)
  <2> HIDE DEF Idle
  <2> QED BY <1>4, <1>1, <1>2 DEF CoreTypes, Refs, Done, At
<1> QED BY <1>3, <1>4

\* A handler that begins carries what it was given.
LEMMA BeginTypes ==
    ASSUME CoreTypes, Refs, NEW h \in Handlers, NEW work \in Job, Begin(h, work),
           work.token \in 0 .. Len(tokens), work.link \in 0 .. Len(links),
           work.at = "revoke" => work.token # 0, work.at = "consume" => work.link # 0
    PROVE  /\ job' \in [Handlers -> Job] /\ begun' \in 0 .. MaxJobs
           /\ \A g \in Handlers : /\ job'[g].token \in 0 .. Len(tokens)
                                  /\ job'[g].link \in 0 .. Len(links)
                                  /\ job'[g].at = "revoke" => job'[g].token # 0
                                  /\ job'[g].at = "consume" => job'[g].link # 0
BY AccountsAssumption DEF CoreTypes, Refs, Begin, At

\* A step that leaves the tables alone is typed when its job is.
JobTyped ==
    /\ job' \in [Handlers -> Job] /\ begun' \in 0 .. MaxJobs
    /\ \A g \in Handlers : /\ job'[g].token \in 0 .. Len(tokens)
                           /\ job'[g].link \in 0 .. Len(links)
                           /\ job'[g].at = "revoke" => job'[g].token # 0
                           /\ job'[g].at = "consume" => job'[g].link # 0

LEMMA TablesStay ==
    ASSUME CoreTypes, Refs, JobTyped, UNCHANGED <<tokens, links>>,
           users' \in [Users -> AppUser], era' \in [Users -> Nat],
           missed' \in [Users -> Nat]
    PROVE  CoreTypes' /\ Refs'
BY DEF CoreTypes, Refs, JobTyped, At

\* Starting the count of an account again, with or without a lock.
LEMMA Unlocked ==
    ASSUME NEW f \in [Users -> AppUser], NEW u \in Users, NEW b \in BOOLEAN
    PROVE  [f EXCEPT ![u].failed = 0, ![u].locked = b] \in [Users -> AppUser]
<1>1. [f EXCEPT ![u].failed = 0] \in [Users -> AppUser]
  BY AccountsAssumption DEF AppUser
<1> QED BY <1>1 DEF AppUser

\* Signing in.
LEMMA SignInTypes ==
    ASSUME CoreTypes, Refs, NEW h \in Handlers,
           \/ \E u \in Users : Login(h, u) \/ SsoLogin(h, u)
           \/ Miss(h) \/ Pass(h) \/ Issue(h)
    PROVE  CoreTypes' /\ Refs'
<1>0. /\ job[h] \in Job /\ job[h].user \in Users /\ Idle \in Job
      /\ Idle.token = 0 /\ Idle.link = 0 /\ Len(tokens) \in Nat /\ Len(links) \in Nat
  BY IdleType DEF CoreTypes, Job, Idle
<1> HIDE DEF Idle
<1>1. ASSUME NEW u \in Users, Login(h, u) PROVE CoreTypes' /\ Refs'
  <2> DEFINE work == [Idle EXCEPT !.at = "verify", !.user = u,
                             !.failed = users[u].failed, !.era = era[u]]
  <2>1. /\ work \in Job /\ work.token = 0 /\ work.link = 0 /\ work.at = "verify"
    BY <1>0 DEF CoreTypes, Job, AppUser, Points
  <2>2. Begin(h, work) /\ UNCHANGED <<rowVars, era, missed>>
    BY <1>1 DEF Login
  <2> HIDE DEF work
  <2>3. JobTyped
    BY <2>1, <2>2, <1>0, BeginTypes DEF JobTyped
  <2> QED BY <2>2, <2>3, TablesStay DEF CoreTypes, rowVars
<1>2. ASSUME NEW u \in Users, SsoLogin(h, u) PROVE CoreTypes' /\ Refs'
  <2> DEFINE work == [Idle EXCEPT !.at = "issue", !.user = u, !.era = era[u]]
  <2>1. /\ work \in Job /\ work.token = 0 /\ work.link = 0 /\ work.at = "issue"
    BY <1>0 DEF CoreTypes, Job, Points
  <2>2. Begin(h, work) /\ UNCHANGED <<tokens, links, era, missed>>
    BY <1>2 DEF SsoLogin
  <2>3. users' \in [Users -> AppUser]
    BY <1>2 DEF SsoLogin, CoreTypes, AppUser
  <2> HIDE DEF work
  <2>4. JobTyped
    BY <2>1, <2>2, <1>0, BeginTypes DEF JobTyped
  <2> QED BY <2>2, <2>3, <2>4, TablesStay DEF CoreTypes
<1>3. CASE Miss(h)
  <2> DEFINE u == job[h].user
             next == job[h].failed + 1
  <2>1. missed' \in [Users -> Nat]
    <3>1. missed' = [missed EXCEPT ![u] = 0] \/ missed' = [missed EXCEPT ![u] = @ + 1]
      BY <1>3 DEF Miss
    <3> QED BY <3>1 DEF CoreTypes
  <2>2. JobTyped
    BY <1>3, GoTypes DEF Miss, JobTyped, Points
  <2>3. users' \in [Users -> AppUser]
    <3>1. CASE next >= Threshold
      <4>1. users' = [users EXCEPT ![u].failed = 0, ![u].locked = TRUE]
        BY <1>3, <3>1 DEF Miss
      <4> QED BY <4>1, <1>0, Unlocked DEF CoreTypes
    <3>2. CASE ~(next >= Threshold)
      <4>1. users' = [users EXCEPT ![u].failed = next]
        BY <1>3, <3>2 DEF Miss
      <4>2. next \in 0 .. Threshold - 1
        BY <3>2, <1>0, AccountsAssumption DEF Job
      <4> HIDE DEF next
      <4> QED BY <4>1, <4>2, <1>0 DEF CoreTypes, AppUser
    <3> QED BY <3>1, <3>2
  <2> QED BY <1>3, <2>1, <2>2, <2>3, TablesStay DEF Miss, CoreTypes
<1>4. CASE Pass(h)
  <2>1. users' \in [Users -> AppUser]
    BY <1>4, <1>0, Unlocked DEF Pass, CoreTypes
  <2>1a. missed' \in [Users -> Nat]
    BY <1>4 DEF Pass, CoreTypes
  <2>2. JobTyped
    BY <1>4, GoTypes DEF Pass, JobTyped, Points
  <2> QED BY <1>4, <2>1, <2>1a, <2>2, TablesStay DEF Pass, CoreTypes
<1>5. CASE Issue(h)
  <2>1. JobTyped
    BY <1>5, GoTypes DEF Issue, JobTyped, Points
  <2> DEFINE new == [user |-> job[h].user, end |-> "live", from |-> job[h].token,
                     era |-> job[h].era, stray |-> job[h].stray]
  <2>2. CASE Len(tokens) < MaxTokens
    <3>1. new \in RefreshToken /\ new.from \in 0 .. Len(tokens)
      BY <1>0 DEF Job, RefreshToken, Refs
    <3>2. tokens' = Append(tokens, new)
      BY <1>5, <2>2 DEF Issue
    <3> HIDE DEF new
    <3>3. /\ tokens' \in Seq(RefreshToken) /\ Len(tokens') = Len(tokens) + 1
          /\ Len(tokens') <= MaxTokens
      BY <3>1, <3>2, <2>2, AccountsAssumption DEF CoreTypes
    <3>4. \A t \in DOMAIN tokens' : tokens'[t] = IF t \in DOMAIN tokens THEN tokens[t] ELSE new
      BY <3>1, <3>2 DEF CoreTypes
    <3>5. Refs'
      <4>1. links' = links
        BY <1>5 DEF Issue
      <4>2. \A t \in DOMAIN tokens' : tokens'[t].from \in 0 .. Len(tokens')
        BY <3>1, <3>3, <3>4, <1>0 DEF Refs
      <4>3. \A g \in Handlers : job'[g].token \in 0 .. Len(tokens')
        BY <3>3, <2>1, <1>0 DEF JobTyped
      <4> QED BY <4>1, <4>2, <4>3, <2>1 DEF Refs, JobTyped, At
    <3> QED BY <3>3, <3>5, <2>1, <1>5 DEF CoreTypes, Issue, JobTyped
  <2>3. CASE ~(Len(tokens) < MaxTokens)
    BY <2>1, <2>3, <1>5, TablesStay DEF Issue, CoreTypes
  <2> QED BY <2>2, <2>3
<1> QED BY <1>1, <1>2, <1>3, <1>4, <1>5

\* A table whose rows only change keeps what refers to it.
LEMMA RowsChange ==
    ASSUME CoreTypes, Refs, JobTyped,
           tokens' \in Seq(RefreshToken), Len(tokens') = Len(tokens),
           \A t \in DOMAIN tokens : tokens'[t].from = tokens[t].from,
           links' \in Seq(ResetLink), Len(links') = Len(links),
           users' \in [Users -> AppUser], era' \in [Users -> Nat],
           missed' \in [Users -> Nat]
    PROVE  CoreTypes' /\ Refs'
<1>1. DOMAIN tokens' = DOMAIN tokens
  BY DEF CoreTypes
<1> QED BY <1>1 DEF CoreTypes, Refs, JobTyped, At

\* Replacing a row.
LEMMA RowReplaced ==
    ASSUME NEW S, NEW s \in Seq(S), NEW i \in DOMAIN s, NEW e \in S
    PROVE  /\ [s EXCEPT ![i] = e] \in Seq(S) /\ Len([s EXCEPT ![i] = e]) = Len(s)
           /\ DOMAIN [s EXCEPT ![i] = e] = DOMAIN s
           /\ \A j \in DOMAIN s : [s EXCEPT ![i] = e][j] = IF j = i THEN e ELSE s[j]
<1>1. i \in 1 .. Len(s) /\ DOMAIN s = 1 .. Len(s)
  BY LenProperties
<1>2. /\ [s EXCEPT ![i] = e] \in Seq(S) /\ Len([s EXCEPT ![i] = e]) = Len(s)
      /\ \A j \in 1 .. Len(s) : [s EXCEPT ![i] = e][j] = IF j = i THEN e ELSE s[j]
  BY <1>1, ExceptSeq
<1>3. DOMAIN [s EXCEPT ![i] = e] = DOMAIN s
  OBVIOUS
<1> QED BY <1>1, <1>2, <1>3

\* A row of either table has its type, and its number is within the bound.
LEMMA RowTypes ==
    ASSUME CoreTypes
    PROVE  /\ Len(tokens) \in Nat /\ DOMAIN tokens = 1 .. Len(tokens)
           /\ Len(links) \in Nat /\ DOMAIN links = 1 .. Len(links)
           /\ MaxTokens \in Nat /\ MaxLinks \in Nat
           /\ \A t \in DOMAIN tokens : tokens[t] \in RefreshToken /\ t \in 1 .. MaxTokens
           /\ \A l \in DOMAIN links : links[l] \in ResetLink /\ l \in 1 .. MaxLinks
<1>1. MaxTokens \in Nat /\ MaxLinks \in Nat
  BY AccountsAssumption
<1>2. /\ Len(tokens) \in Nat /\ DOMAIN tokens = 1 .. Len(tokens)
      /\ Len(links) \in Nat /\ DOMAIN links = 1 .. Len(links)
      /\ Len(tokens) <= MaxTokens /\ Len(links) <= MaxLinks
  BY LenProperties DEF CoreTypes
<1>3. /\ \A t \in 1 .. Len(tokens) : tokens[t] \in RefreshToken
      /\ \A l \in 1 .. Len(links) : links[l] \in ResetLink
  BY ElementOfSeq DEF CoreTypes
<1> QED BY <1>1, <1>2, <1>3

\* A token that ends keeps everything else.
LEMMA TokenEnds ==
    ASSUME CoreTypes, NEW t \in DOMAIN tokens,
           NEW e \in {"live", "rotated", "logout", "reset", "expired"},
           tokens' = [tokens EXCEPT ![t].end = e]
    PROVE  /\ tokens' \in Seq(RefreshToken) /\ Len(tokens') = Len(tokens)
           /\ DOMAIN tokens' = DOMAIN tokens
           /\ \A s \in DOMAIN tokens :
                 tokens'[s] = IF s = t THEN [tokens[s] EXCEPT !.end = e] ELSE tokens[s]
           /\ \A s \in DOMAIN tokens : tokens'[s].from = tokens[s].from
<1> DEFINE row == [tokens[t] EXCEPT !.end = e]
<1>1. row \in RefreshToken /\ row.from = tokens[t].from
  BY RowTypes DEF RefreshToken
<1>2. tokens' = [tokens EXCEPT ![t] = row]
  OBVIOUS
<1>3. row = [tokens[t] EXCEPT !.end = e]
  OBVIOUS
<1>0. tokens \in Seq(RefreshToken)
  BY DEF CoreTypes
<1> HIDE DEF row
<1>4. /\ tokens' \in Seq(RefreshToken) /\ Len(tokens') = Len(tokens)
      /\ DOMAIN tokens' = DOMAIN tokens
      /\ \A s \in DOMAIN tokens : tokens'[s] = IF s = t THEN row ELSE tokens[s]
  BY <1>0, <1>1, <1>2, RowReplaced
<1> QED BY <1>1, <1>3, <1>4

\* The session, by handlers.
LEMMA SessionTypes ==
    ASSUME CoreTypes, Refs, NEW h \in Handlers,
           Revoke(h) \/ \E t \in DOMAIN tokens : Refresh(h, t)
    PROVE  CoreTypes' /\ Refs'
<1>0. /\ job[h] \in Job /\ Idle \in Job
      /\ Idle.token = 0 /\ Idle.link = 0 /\ Len(tokens) \in Nat /\ Len(links) \in Nat
      /\ Len(tokens) <= MaxTokens
  BY IdleType DEF CoreTypes, Job, Idle
<1> HIDE DEF Idle
<1>1. ASSUME NEW t \in DOMAIN tokens, Refresh(h, t) PROVE CoreTypes' /\ Refs'
  <2> DEFINE work == [Idle EXCEPT !.at = "revoke", !.user = tokens[t].user, !.token = t,
                             !.era = tokens[t].era, !.stray = tokens[t].stray]
  <2>1. /\ t \in 1 .. Len(tokens) /\ t \in 0 .. MaxTokens /\ tokens[t].user \in Users
        /\ tokens[t].era \in Nat /\ tokens[t].stray \in BOOLEAN
    BY RowTypes DEF RefreshToken
  <2>2. /\ work \in Job /\ work.token = t /\ work.link = 0 /\ work.at = "revoke"
    BY <1>0, <2>1 DEF Job, Points
  <2>3. Begin(h, work) /\ UNCHANGED <<rowVars, era, missed>>
    BY <1>1 DEF Refresh
  <2> HIDE DEF work
  <2>4. JobTyped
    BY <2>1, <2>2, <2>3, <1>0, BeginTypes DEF JobTyped
  <2> QED BY <2>3, <2>4, TablesStay DEF CoreTypes, rowVars
<1>2. CASE Revoke(h)
  <2> DEFINE t == job[h].token
             e == IF tokens[t].end = "live" THEN "rotated" ELSE tokens[t].end
  <2>1. t \in DOMAIN tokens
    BY <1>2, <1>0 DEF Revoke, Refs, At, CoreTypes
  <2>2. e \in {"live", "rotated", "logout", "reset", "expired"}
    BY <2>1, RowTypes DEF RefreshToken
  <2>3. tokens' = [tokens EXCEPT ![t].end = e]
    BY <1>2 DEF Revoke
  <2>4. JobTyped
    BY <1>2, GoTypes DEF Revoke, JobTyped, Points
  <2> HIDE DEF t, e
  <2>5. /\ tokens' \in Seq(RefreshToken) /\ Len(tokens') = Len(tokens)
        /\ \A s \in DOMAIN tokens : tokens'[s].from = tokens[s].from
    BY <2>1, <2>2, <2>3, TokenEnds
  <2> QED BY <1>2, <2>4, <2>5, RowsChange DEF Revoke, CoreTypes
<1> QED BY <1>1, <1>2

\* Links.
LEMMA LinkTypes ==
    ASSUME CoreTypes, Refs, NEW h \in Handlers,
           \/ \E u \in Users : RequestLink(h, u)
           \/ CheckCooldown(h) \/ MintLink(h) \/ Consume(h)
           \/ \E l \in DOMAIN links : UseLink(h, l)
    PROVE  CoreTypes' /\ Refs'
<1>0. /\ job[h] \in Job /\ job[h].user \in Users /\ Idle \in Job
      /\ Idle.token = 0 /\ Idle.link = 0 /\ Len(tokens) \in Nat /\ Len(links) \in Nat
      /\ Len(links) <= MaxLinks
  BY IdleType DEF CoreTypes, Job, Idle
<1> HIDE DEF Idle
<1>1. ASSUME NEW u \in Users, RequestLink(h, u) PROVE CoreTypes' /\ Refs'
  <2> DEFINE work == [Idle EXCEPT !.at = "cooldown", !.user = u]
  <2>1. work \in Job /\ work.token = 0 /\ work.link = 0 /\ work.at = "cooldown"
    BY <1>0 DEF Job, Points
  <2>2. Begin(h, work) /\ UNCHANGED <<rowVars, era, missed>>
    BY <1>1 DEF RequestLink
  <2> HIDE DEF work
  <2>3. JobTyped
    BY <2>1, <2>2, <1>0, BeginTypes DEF JobTyped
  <2> QED BY <2>2, <2>3, TablesStay DEF CoreTypes, rowVars
<1>2. CASE CheckCooldown(h)
  <2>1. JobTyped
    BY <1>2, GoTypes DEF CheckCooldown, JobTyped, Points
  <2> QED BY <1>2, <2>1, TablesStay DEF CheckCooldown, CoreTypes, rowVars
<1>3. CASE MintLink(h)
  <2> DEFINE new == [user |-> job[h].user, used |-> FALSE, age |-> "recent", spent |-> 0]
  <2>1. JobTyped
    BY <1>3, GoTypes DEF MintLink, JobTyped, Points
  <2>2. CASE Len(links) < MaxLinks
    <3>1. new \in ResetLink
      BY <1>0 DEF ResetLink
    <3>2. links' = Append(links, new)
      BY <1>3, <2>2 DEF MintLink
    <3> HIDE DEF new
    <3>3. /\ links' \in Seq(ResetLink) /\ Len(links') = Len(links) + 1
          /\ Len(links') <= MaxLinks
      BY <3>1, <3>2, <2>2, AccountsAssumption DEF CoreTypes
    <3>4. \A g \in Handlers : job'[g].link \in 0 .. Len(links')
      BY <3>3, <2>1, <1>0 DEF JobTyped
    <3> QED BY <3>3, <3>4, <2>1, <1>3 DEF CoreTypes, Refs, JobTyped, MintLink, At
  <2>3. CASE ~(Len(links) < MaxLinks)
    BY <2>1, <2>3, <1>3, TablesStay DEF MintLink, CoreTypes
  <2> QED BY <2>2, <2>3
<1>4. ASSUME NEW l \in DOMAIN links, UseLink(h, l) PROVE CoreTypes' /\ Refs'
  <2> DEFINE work == [Idle EXCEPT !.at = "consume", !.user = links[l].user, !.link = l]
  <2>1. l \in 1 .. Len(links) /\ l \in 0 .. MaxLinks /\ links[l].user \in Users
    BY RowTypes DEF ResetLink
  <2>2. work \in Job /\ work.token = 0 /\ work.link = l /\ work.at = "consume"
    BY <1>0, <2>1 DEF Job, Points
  <2>3. Begin(h, work) /\ UNCHANGED <<rowVars, era, missed>>
    BY <1>4 DEF UseLink
  <2> HIDE DEF work
  <2>4. JobTyped
    BY <2>1, <2>2, <2>3, <1>0, BeginTypes DEF JobTyped
  <2> QED BY <2>3, <2>4, TablesStay DEF CoreTypes, rowVars
<1>5. CASE Consume(h)
  <2> DEFINE u == job[h].user
             k == job[h].link
  <2>1. k \in DOMAIN links
    BY <1>5, <1>0 DEF Consume, SetByLink, Refs, At, CoreTypes
  <2>2. links[k] \in ResetLink
    BY <2>1 DEF CoreTypes
  <2> DEFINE spent == [links[k] EXCEPT !.used = TRUE, !.spent = links[k].spent + 1]
  <2>3. links' = [links EXCEPT ![k] = spent]
    BY <1>5 DEF Consume, SetByLink
  <2>4. links' \in Seq(ResetLink) /\ Len(links') = Len(links)
    <3>1. spent \in ResetLink
      <4>1. links[k].spent + 1 \in Nat
        BY <2>2 DEF ResetLink
      <4> QED BY <2>2, <4>1 DEF ResetLink
    <3> HIDE DEF spent
    <3> QED BY <2>1, <2>3, <3>1, RowReplaced DEF CoreTypes
  <2>5. tokens' \in Seq(RefreshToken) /\ Len(tokens') = Len(tokens)
        /\ \A s \in DOMAIN tokens : tokens'[s].from = tokens[s].from
    <3> DEFINE row(t) == IF t \in {s \in DOMAIN tokens : tokens[s].user = u}
                            /\ tokens[t].end = "live"
                         THEN [tokens[t] EXCEPT !.end = "reset"] ELSE tokens[t]
    <3>1. tokens' = [t \in 1 .. Len(tokens) |-> row(t)]
      BY <1>5 DEF Consume, SetByLink, CoreTypes
    <3>2. \A t \in 1 .. Len(tokens) : row(t) \in RefreshToken /\ row(t).from = tokens[t].from
      BY RowTypes DEF RefreshToken
    <3> HIDE DEF row
    <3>3. tokens' \in Seq(RefreshToken) /\ Len(tokens') = Len(tokens)
      BY <3>1, <3>2, <1>0
    <3> QED BY <3>1, <3>2, <3>3 DEF CoreTypes
  <2>6. users' \in [Users -> AppUser]
    <3>1. users' = [[users EXCEPT ![u].failed = 0, ![u].locked = FALSE]
                      EXCEPT ![u].mustChange = FALSE]
      BY <1>5 DEF Consume, SetByLink
    <3>2. [users EXCEPT ![u].failed = 0, ![u].locked = FALSE] \in [Users -> AppUser]
      BY <1>0, Unlocked DEF CoreTypes
    <3> QED BY <3>1, <3>2 DEF AppUser
  <2>7. era' \in [Users -> Nat] /\ missed' \in [Users -> Nat]
    <3>1. era' = [era EXCEPT ![u] = @ + 1] /\ missed' = [missed EXCEPT ![u] = 0]
      BY <1>5 DEF Consume, SetByLink
    <3> QED BY <3>1, <1>0 DEF CoreTypes
  <2>8. JobTyped
    <3> DEFINE next(g) == IF g = h THEN Idle
                 ELSE IF job[g].user = u /\ job[g].at \in {"verify", "revoke", "issue"}
                 THEN [job[g] EXCEPT !.stray = TRUE] ELSE job[g]
    <3>1. job' = [g \in Handlers |-> next(g)] /\ begun' = begun
      BY <1>5 DEF Consume, SetByLink
    <3>2. \A g \in Handlers : /\ next(g) \in Job
                              /\ g # h => /\ next(g).token = job[g].token
                                          /\ next(g).link = job[g].link
                                          /\ next(g).at = job[g].at
      BY <1>0 DEF CoreTypes, Job
    <3>3. next(h).token = 0 /\ next(h).link = 0 /\ next(h).at = "idle"
      BY <1>0 DEF Idle
    <3> HIDE DEF next
    <3> QED BY <3>1, <3>2, <3>3, <1>0 DEF JobTyped, CoreTypes, Refs, At
  <2> QED BY <2>4, <2>5, <2>6, <2>7, <2>8, RowsChange
<1> QED BY <1>1, <1>2, <1>3, <1>4, <1>5

\* Administration, and passwords that are changed.
LEMMA AdminTypes ==
    ASSUME CoreTypes, Refs, NEW h \in Handlers,
           \/ \E a, u \in Users : Update(h, a, u) \/ AdminReset(h, a, u) \/ CreateUser(h, a, u)
           \/ \E u \in Users : ChangePassword(h, u)
           \/ ReadTarget(h) \/ CountAdmins(h) \/ WriteUser(h)
           \/ FindAccount(h) \/ ForceChange(h) \/ InsertUser(h) \/ WritePassword(h)
    PROVE  CoreTypes' /\ Refs'
<1>0. /\ job[h] \in Job /\ job[h].user \in Users /\ job[h].role \in Roles
      /\ Idle \in Job /\ Idle.token = 0 /\ Idle.link = 0
      /\ Len(tokens) \in Nat /\ Len(links) \in Nat
  BY IdleType DEF CoreTypes, Job, Idle
<1> HIDE DEF Idle
<1>1. ASSUME NEW work \in Job, work.token = 0, work.link = 0,
             work.at \in {"target", "insert", "change"},
             Begin(h, work), UNCHANGED <<rowVars, era, missed>>
      PROVE  CoreTypes' /\ Refs'
  <2>1. JobTyped
    BY <1>1, <1>0, BeginTypes DEF JobTyped
  <2> QED BY <1>1, <2>1, TablesStay DEF CoreTypes, rowVars
<1>2. ASSUME NEW where \in Points \ {"revoke", "consume"}, Go(h, where) \/ Done(h),
             UNCHANGED <<tokens, links, era, missed>>, users' \in [Users -> AppUser]
      PROVE  CoreTypes' /\ Refs'
  <2>1. JobTyped
    BY <1>2, GoTypes DEF JobTyped
  <2> QED BY <1>2, <2>1, TablesStay DEF CoreTypes
<1>3. ASSUME NEW a \in Users, NEW u \in Users, Update(h, a, u) PROVE CoreTypes' /\ Refs'
  <2>1. PICK role \in Roles, active \in BOOLEAN :
           Begin(h, [Idle EXCEPT !.at = "target", !.user = u, !.asks = TRUE,
                                 !.role = role, !.active = active])
    BY <1>3 DEF Update
  <2> DEFINE work == [Idle EXCEPT !.at = "target", !.user = u, !.asks = TRUE,
                                  !.role = role, !.active = active]
  <2>2. work \in Job /\ work.token = 0 /\ work.link = 0 /\ work.at = "target"
    BY <1>0 DEF Job, Points
  <2> HIDE DEF work
  <2>3. Begin(h, work)
    BY <2>1 DEF work
  <2> QED BY <1>3, <2>2, <2>3, <1>1 DEF Update
<1>4. ASSUME NEW a \in Users, NEW u \in Users, AdminReset(h, a, u) PROVE CoreTypes' /\ Refs'
  <2> DEFINE work == [Idle EXCEPT !.at = "target", !.user = u]
  <2>1. work \in Job /\ work.token = 0 /\ work.link = 0 /\ work.at = "target"
    BY <1>0 DEF Job, Points
  <2>2. Begin(h, work) /\ UNCHANGED <<rowVars, era, missed>>
    BY <1>4 DEF AdminReset
  <2> HIDE DEF work
  <2> QED BY <2>1, <2>2, <1>1
<1>5. ASSUME NEW a \in Users, NEW u \in Users, CreateUser(h, a, u) PROVE CoreTypes' /\ Refs'
  <2>1. PICK role \in Roles : Begin(h, [Idle EXCEPT !.at = "insert", !.user = u, !.role = role])
    BY <1>5 DEF CreateUser
  <2> DEFINE work == [Idle EXCEPT !.at = "insert", !.user = u, !.role = role]
  <2>2. work \in Job /\ work.token = 0 /\ work.link = 0 /\ work.at = "insert"
    BY <1>0 DEF Job, Points
  <2>3. Begin(h, work) /\ UNCHANGED <<rowVars, era, missed>>
    BY <1>5, <2>1 DEF CreateUser
  <2> HIDE DEF work
  <2> QED BY <2>2, <2>3, <1>1
<1>6. ASSUME NEW u \in Users, ChangePassword(h, u) PROVE CoreTypes' /\ Refs'
  <2> DEFINE work == [Idle EXCEPT !.at = "change", !.user = u]
  <2>1. work \in Job /\ work.token = 0 /\ work.link = 0 /\ work.at = "change"
    BY <1>0 DEF Job, Points
  <2>2. Begin(h, work) /\ UNCHANGED <<rowVars, era, missed>>
    BY <1>6 DEF ChangePassword
  <2> HIDE DEF work
  <2> QED BY <2>1, <2>2, <1>1
<1>7. CASE ReadTarget(h)
  BY <1>7, <1>2 DEF ReadTarget, Points, CoreTypes, rowVars
<1>8. CASE CountAdmins(h)
  BY <1>8, <1>2 DEF CountAdmins, Points, CoreTypes, rowVars
<1>9. CASE FindAccount(h)
  BY <1>9, <1>2 DEF FindAccount, Points, CoreTypes, rowVars
<1>10. CASE WriteUser(h)
  <2>1. users' \in [Users -> AppUser]
    <3> DEFINE u == job[h].user
               row == [users[u] EXCEPT !.role = job[h].role,
                         !.state = IF job[h].active THEN "active" ELSE "inactive"]
    <3>1. users' = [users EXCEPT ![u] = row]
      BY <1>10 DEF WriteUser
    <3>2. row \in AppUser
      <4> DEFINE state == IF job[h].active THEN "active" ELSE "inactive"
      <4>1. users[u] \in AppUser /\ state \in {"absent", "active", "inactive"}
        BY <1>0 DEF CoreTypes
      <4>2. row = [users[u] EXCEPT !.role = job[h].role, !.state = state]
        OBVIOUS
      <4> HIDE DEF row, state
      <4> QED BY <4>1, <4>2, <1>0 DEF AppUser
    <3> HIDE DEF row
    <3> QED BY <3>1, <3>2 DEF CoreTypes
  <2> QED BY <1>10, <2>1, <1>2 DEF WriteUser, Points
<1>11. CASE ForceChange(h)
  <2>1. users' \in [Users -> AppUser]
    BY <1>11, <1>0 DEF ForceChange, CoreTypes, AppUser
  <2>2. Done(h) /\ UNCHANGED <<tokens, links, era, missed>> /\ "idle" \in Points
    BY <1>11 DEF ForceChange, Points
  <2> HIDE DEF Done
  <2> QED BY <2>1, <2>2, <1>2
<1>12. CASE WritePassword(h)
  <2>1. users' \in [Users -> AppUser]
    BY <1>12, <1>0 DEF WritePassword, CoreTypes, AppUser
  <2>2. Done(h) /\ UNCHANGED <<tokens, links, era, missed>> /\ "idle" \in Points
    BY <1>12 DEF WritePassword, Points
  <2> HIDE DEF Done
  <2> QED BY <2>1, <2>2, <1>2
<1>13. CASE InsertUser(h)
  <2>1. users' \in [Users -> AppUser]
    <3> DEFINE u == job[h].user
               row == [users[u] EXCEPT !.state = "active", !.mustChange = TRUE,
                                       !.role = job[h].role]
    <3>1. users' = [users EXCEPT ![u] = row] \/ users' = users
      BY <1>13 DEF InsertUser
    <3>2. row \in AppUser
      <4>1. users[u] \in AppUser
        BY <1>0 DEF CoreTypes
      <4>2. row = [users[u] EXCEPT !.state = "active", !.mustChange = TRUE,
                                   !.role = job[h].role]
        OBVIOUS
      <4> HIDE DEF row
      <4> QED BY <4>1, <4>2, <1>0 DEF AppUser
    <3> HIDE DEF row
    <3> QED BY <3>1, <3>2 DEF CoreTypes
  <2> QED BY <1>13, <2>1, <1>2 DEF InsertUser, Points
<1> QED BY <1>3, <1>4, <1>5, <1>6, <1>7, <1>8, <1>9, <1>10, <1>11, <1>12, <1>13

\* Time, logouts and restarts.
LEMMA WorldTypes ==
    ASSUME CoreTypes, Refs, Elapse \/ Restart
    PROVE  CoreTypes' /\ Refs'
<1>0. JobTyped \/ job' # job \/ begun' # begun
  BY DEF JobTyped, CoreTypes, Refs, At
<1>1. ASSUME NEW u \in Users, LockEnds(u) PROVE CoreTypes' /\ Refs'
  <2>1. users' \in [Users -> AppUser]
    BY <1>1 DEF LockEnds, CoreTypes, AppUser
  <2> QED BY <1>0, <1>1, <2>1, TablesStay DEF LockEnds, CoreTypes
<1>2. ASSUME NEW t \in DOMAIN tokens, NEW e \in {"logout", "expired"},
             tokens' = [tokens EXCEPT ![t].end = e],
             UNCHANGED <<users, links, job, begun, era, missed>>
      PROVE  CoreTypes' /\ Refs'
  <2>1. /\ tokens' \in Seq(RefreshToken) /\ Len(tokens') = Len(tokens)
        /\ \A s \in DOMAIN tokens : tokens'[s].from = tokens[s].from
    BY <1>2, TokenEnds
  <2> QED BY <1>0, <1>2, <2>1, RowsChange DEF CoreTypes
<1>3. ASSUME NEW l \in DOMAIN links, LinkAges(l) PROVE CoreTypes' /\ Refs'
  <2> DEFINE row == [links[l] EXCEPT !.age = IF @ = "recent" THEN "valid" ELSE "expired"]
  <2>1. links' = [links EXCEPT ![l] = row] /\ links \in Seq(ResetLink)
    BY <1>3 DEF LinkAges, CoreTypes
  <2>2. row \in ResetLink
    BY RowTypes DEF ResetLink
  <2> HIDE DEF row
  <2>3. links' \in Seq(ResetLink) /\ Len(links') = Len(links)
    BY <2>1, <2>2, RowReplaced
  <2> QED BY <1>0, <1>3, <2>3, RowsChange DEF LinkAges, CoreTypes
<1>4. CASE Restart
  <2>1. Idle \in Job /\ Idle.token = 0 /\ Idle.link = 0 /\ Idle.at = "idle"
    BY <1>4, IdleType DEF Restart, CoreTypes, Job, Idle
  <2> HIDE DEF Idle
  <2>2. JobTyped
    BY <1>4, <2>1, RowTypes DEF Restart, JobTyped, CoreTypes
  <2> QED BY <1>4, <2>2, TablesStay DEF Restart, CoreTypes, rowVars
<1>5. \A t \in DOMAIN tokens : Logout(t) \/ TokenExpires(t) => CoreTypes' /\ Refs'
  BY <1>2 DEF Logout, TokenExpires
<1> QED BY <1>1, <1>3, <1>4, <1>5 DEF Elapse

\* What is overtaken is the account, the token or the link of some handler.
LEMMA OvertakenTypes ==
    ASSUME CoreTypes, Refs, OvertakenType, Remember
    PROVE  OvertakenType'
<1>1. \A h \in Handlers : /\ job[h].user \in Users
                          /\ At(h, "revoke") => job[h].token \in 1 .. MaxTokens
                          /\ At(h, "consume") => job[h].link \in 1 .. MaxLinks
  BY RowTypes DEF CoreTypes, Refs, Job
<1>2. PICK T \in SUBSET (1 .. MaxTokens), L \in SUBSET (1 .. MaxLinks),
           C \in SUBSET Users, b \in BOOLEAN :
         overtaken' = [overtaken EXCEPT !.tokens = @ \cup T, !.links = @ \cup L,
                                        !.counts = @ \cup C, !.admins = @ \/ b]
  <2> DEFINE T == {job[h].token : h \in {g \in Handlers :
            Waits(g, "revoke") /\ tokens[job[g].token].end # (tokens[job[g].token].end)'}}
             L == {job[h].link : h \in {g \in Handlers :
            Waits(g, "consume") /\ links[job[g].link].spent # (links[job[g].link].spent)'}}
             C == {job[h].user : h \in {g \in Handlers :
            Waits(g, "verify")
            /\ users[job[g].user].failed # (users[job[g].user].failed)'}}
             b == Admins' # Admins /\ \E h \in Handlers : Waits(h, "write")
  <2>1. T \in SUBSET (1 .. MaxTokens) /\ L \in SUBSET (1 .. MaxLinks) /\ C \in SUBSET Users
        /\ b \in BOOLEAN
    BY <1>1 DEF Waits
  <2>2. overtaken' = [overtaken EXCEPT !.tokens = @ \cup T, !.links = @ \cup L,
                                       !.counts = @ \cup C, !.admins = @ \/ b]
    BY DEF Remember
  <2> HIDE DEF T, L, C, b
  <2> QED BY <2>1, <2>2
<1> QED BY <1>2 DEF OvertakenType

LEMMA StepTypes == Typed /\ [Next]_vars => Typed'
<1> SUFFICES ASSUME Typed, [Next]_vars PROVE Typed'
  OBVIOUS
<1>1. CASE UNCHANGED vars
  BY <1>1 DEF Typed, CoreTypes, OvertakenType, Refs, At, vars, rowVars
<1>2. CASE Next
  <2>1. CoreTypes' /\ Refs'
    BY <1>2, SignInTypes, SessionTypes, LinkTypes, AdminTypes, WorldTypes
       DEF Next, HandlerStep, Typed
  <2>2. OvertakenType'
    BY <1>2, OvertakenTypes DEF Next, Typed
  <2> QED BY <2>1, <2>2 DEF Typed
<1> QED BY <1>1, <1>2

LEMMA InitTypes == Init => Typed
<1> SUFFICES ASSUME Init PROVE Typed
  OBVIOUS
<1>1. Users # {}
  BY DEF Init, Admins
<1>2. Idle \in Job /\ Idle.token = 0 /\ Idle.link = 0 /\ Idle.at = "idle"
  BY <1>1, IdleType DEF Idle
<1> HIDE DEF Idle
<1>3. CoreTypes
  <2>1. tokens \in Seq(RefreshToken) /\ links \in Seq(ResetLink)
        /\ Len(tokens) = 0 /\ Len(links) = 0
    BY DEF Init
  <2> QED BY <1>2, <2>1, AccountsAssumption DEF Init, CoreTypes
<1>4. Refs
  BY <1>2 DEF Init, Refs, At
<1>5. OvertakenType
  BY DEF Init, OvertakenType
<1> QED BY <1>3, <1>4, <1>5 DEF Typed

\* Every reachable state is well typed: in particular the count of failures stays
\* below the threshold, and nobody renews or spends what is not there.
THEOREM AccountsTyped == Spec => []TypeOK
<1>1. Spec => []Typed
  BY InitTypes, StepTypes, PTL DEF Spec
<1> QED BY <1>1, TypedIsTypeOK, PTL

-----------------------------------------------------------------------------
(* What a step does. *)

\* What a handler does next.
LEMMA JobNext ==
    ASSUME CoreTypes, NEW h \in Handlers
    PROVE  /\ \A w : Go(h, w) => \A g \in Handlers :
                 job'[g] = IF g = h THEN [job[h] EXCEPT !.at = w] ELSE job[g]
           /\ Done(h) => \A g \in Handlers : job'[g] = IF g = h THEN Idle ELSE job[g]
           /\ \A work : Begin(h, work) =>
                 /\ job[h].at = "idle"
                 /\ \A g \in Handlers : job'[g] = IF g = h THEN work ELSE job[g]
<1>1. job \in [Handlers -> Job]
  BY DEF CoreTypes
<1> HIDE DEF Idle
<1> QED BY <1>1 DEF Go, Done, Begin, At

\* Where a handler carries nothing that the properties below speak of.
Harmless == Points \ {"verify", "issue", "revoke", "consume"}

\* A step that leaves the tokens, the links and the counts alone.
Quiet ==
    /\ UNCHANGED <<tokens, links, era, missed>>
    /\ \A u \in Users : users'[u].failed = users[u].failed
    /\ \A g \in Handlers : job'[g] = job[g] \/ job'[g].at \in Harmless

\* The steps that do not.
Telling(h) ==
    \/ \E u \in Users : Login(h, u) \/ SsoLogin(h, u)
    \/ Miss(h) \/ Pass(h) \/ Issue(h) \/ Revoke(h) \/ MintLink(h) \/ Consume(h)
    \/ \E t \in DOMAIN tokens : Refresh(h, t)
    \/ \E l \in DOMAIN links : UseLink(h, l)

LEMMA QuietSteps ==
    ASSUME CoreTypes, NEW h \in Handlers, HandlerStep(h)
    PROVE  Quiet \/ Telling(h)
<1>0. /\ users \in [Users -> AppUser] /\ Idle.at = "idle" /\ "idle" \in Harmless
      /\ job[h] \in Job /\ job[h].user \in Users
  BY DEF CoreTypes, Idle, Harmless, Points, Job
<1> HIDE DEF Idle
<1>1. ASSUME NEW work, work.at \in Harmless, Begin(h, work),
             UNCHANGED <<rowVars, era, missed>>
      PROVE  Quiet
  BY <1>1, JobNext DEF Quiet, rowVars
<1>2. ASSUME NEW w \in Harmless, Go(h, w) \/ Done(h), UNCHANGED <<tokens, links, era, missed>>,
             \A u \in Users : users'[u].failed = users[u].failed
      PROVE  Quiet
  <2>1. [job[h] EXCEPT !.at = w].at = w
    BY <1>0 DEF Job
  <2>2. CASE Go(h, w)
    <3>1. \A g \in Handlers : job'[g] = IF g = h THEN [job[h] EXCEPT !.at = w] ELSE job[g]
      BY <2>2, JobNext
    <3> QED BY <1>2, <2>1, <3>1 DEF Quiet
  <2>3. CASE Done(h)
    BY <1>0, <1>2, <2>3, JobNext DEF Quiet
  <2> QED BY <1>2, <2>2, <2>3
<1>3. ASSUME NEW a \in Users, NEW u \in Users, Update(h, a, u) PROVE Quiet
  <2>1. PICK role \in Roles, active \in BOOLEAN :
           Begin(h, [Idle EXCEPT !.at = "target", !.user = u, !.asks = TRUE,
                                 !.role = role, !.active = active])
    BY <1>3 DEF Update
  <2>2. [Idle EXCEPT !.at = "target", !.user = u, !.asks = TRUE,
                     !.role = role, !.active = active].at = "target"
    BY DEF Idle
  <2> QED BY <1>1, <1>3, <2>1, <2>2 DEF Update, Harmless, Points
<1>4. ASSUME NEW a \in Users, NEW u \in Users, CreateUser(h, a, u) PROVE Quiet
  <2>1. PICK role \in Roles : Begin(h, [Idle EXCEPT !.at = "insert", !.user = u, !.role = role])
    BY <1>4 DEF CreateUser
  <2>2. [Idle EXCEPT !.at = "insert", !.user = u, !.role = role].at = "insert"
    BY DEF Idle
  <2> QED BY <1>1, <1>4, <2>1, <2>2 DEF CreateUser, Harmless, Points
<1>5. ASSUME NEW u \in Users, NEW w \in {"cooldown", "target", "change"},
             Begin(h, [Idle EXCEPT !.at = w, !.user = u]), UNCHANGED <<rowVars, era, missed>>
      PROVE  Quiet
  <2>1. [Idle EXCEPT !.at = w, !.user = u].at = w
    BY DEF Idle
  <2> QED BY <1>1, <1>5, <2>1 DEF Harmless, Points
<1>6. \A a, u \in Users : RequestLink(h, u) \/ ChangePassword(h, u) \/ AdminReset(h, a, u) => Quiet
  BY <1>5 DEF RequestLink, ChangePassword, AdminReset
<1>7. CheckCooldown(h) \/ ReadTarget(h) \/ CountAdmins(h) \/ FindAccount(h) => Quiet
  <2>1. ASSUME NEW w \in {"mint", "count", "write", "force"}, Go(h, w) \/ Done(h),
               UNCHANGED <<rowVars, era, missed>>
        PROVE  Quiet
    BY <2>1, <1>2 DEF rowVars, Harmless, Points
  <2> QED BY <2>1 DEF CheckCooldown, ReadTarget, CountAdmins, FindAccount
<1>8. ASSUME WriteUser(h) \/ ForceChange(h) \/ InsertUser(h) \/ WritePassword(h) PROVE Quiet
  <2>1. Done(h) /\ UNCHANGED <<tokens, links, era, missed>>
    BY <1>8 DEF WriteUser, ForceChange, InsertUser, WritePassword
  <2>2. \A u \in Users : users'[u].failed = users[u].failed
    <3>1. CASE WriteUser(h)
      BY <1>0, <3>1 DEF WriteUser, AppUser
    <3>2. CASE ForceChange(h) \/ WritePassword(h)
      BY <1>0, <3>2 DEF ForceChange, WritePassword, AppUser
    <3>3. CASE InsertUser(h)
      <4> DEFINE row == [users[job[h].user] EXCEPT !.state = "active", !.mustChange = TRUE,
                                                   !.role = job[h].role]
      <4>1. users' = [users EXCEPT ![job[h].user] = row] \/ users' = users
        BY <3>3 DEF InsertUser
      <4>2. row.failed = users[job[h].user].failed
        BY <1>0 DEF AppUser
      <4> HIDE DEF row
      <4> QED BY <1>0, <4>1, <4>2
    <3> QED BY <1>8, <3>1, <3>2, <3>3
  <2> QED BY <1>0, <1>2, <2>1, <2>2
<1> QED BY <1>3, <1>4, <1>6, <1>7, <1>8 DEF HandlerStep, Telling

\* A step is quiet, or tells, or is one of the world's that touch a table.
LEMMA StepKinds ==
    ASSUME CoreTypes, [Next]_vars
    PROVE  \/ Quiet
           \/ \E h \in Handlers : Telling(h)
           \/ \E t \in DOMAIN tokens : Logout(t) \/ TokenExpires(t)
           \/ \E l \in DOMAIN links : LinkAges(l)
<1>1. UNCHANGED vars => Quiet
  BY DEF vars, rowVars, Quiet
<1>2. ASSUME NEW u \in Users, LockEnds(u) PROVE Quiet
  BY <1>2 DEF LockEnds, Quiet, CoreTypes, AppUser
<1>3. Restart => Quiet
  <2>1. Idle.at = "idle"
    BY DEF Idle
  <2> HIDE DEF Idle
  <2> QED BY <2>1 DEF Restart, Quiet, rowVars, Harmless, Points
<1> QED BY <1>1, <1>2, <1>3, QuietSteps DEF Next, Elapse

\* What was overtaken stays so; and a read that another handler's step makes stale
\* is recorded.
LEMMA OvertakenNext ==
    ASSUME CoreTypes, OvertakenType, [Next]_vars
    PROVE  /\ overtaken.tokens \subseteq overtaken'.tokens
           /\ overtaken.links \subseteq overtaken'.links
           /\ overtaken.counts \subseteq overtaken'.counts
           /\ overtaken.admins => overtaken'.admins
           /\ \A h \in Handlers :
                /\ At(h, "revoke") /\ At(h, "revoke")'
                   /\ tokens[job[h].token].end # tokens'[job'[h].token].end
                      => job[h].token \in overtaken'.tokens
                /\ At(h, "consume") /\ At(h, "consume")'
                   /\ links[job[h].link].spent # links'[job'[h].link].spent
                      => job[h].link \in overtaken'.links
                /\ At(h, "verify") /\ At(h, "verify")'
                   /\ users[job[h].user].failed # users'[job'[h].user].failed
                      => job[h].user \in overtaken'.counts
                /\ At(h, "write") /\ At(h, "write")' /\ Admins' # Admins => overtaken'.admins
<1>1. CASE UNCHANGED vars
  BY <1>1 DEF vars, rowVars, Admins, IsAdmin, IsActive
<1>2. CASE Remember
  <2> DEFINE T == {job[h].token : h \in {g \in Handlers :
            Waits(g, "revoke") /\ tokens[job[g].token].end # (tokens[job[g].token].end)'}}
             L == {job[h].link : h \in {g \in Handlers :
            Waits(g, "consume") /\ links[job[g].link].spent # (links[job[g].link].spent)'}}
             C == {job[h].user : h \in {g \in Handlers :
            Waits(g, "verify")
            /\ users[job[g].user].failed # (users[job[g].user].failed)'}}
             b == Admins' # Admins /\ \E h \in Handlers : Waits(h, "write")
  <2>1. overtaken' = [overtaken EXCEPT !.tokens = @ \cup T, !.links = @ \cup L,
                                       !.counts = @ \cup C, !.admins = @ \/ b]
    BY <1>2 DEF Remember
  <2>2. \A h \in Handlers :
          /\ Waits(h, "revoke") /\ tokens[job[h].token].end # tokens'[job'[h].token].end
                => job[h].token \in T
          /\ Waits(h, "consume") /\ links[job[h].link].spent # links'[job'[h].link].spent
                => job[h].link \in L
          /\ Waits(h, "verify") /\ users[job[h].user].failed # users'[job'[h].user].failed
                => job[h].user \in C
          /\ Waits(h, "write") /\ Admins' # Admins => b
    OBVIOUS
  <2> HIDE DEF T, L, C, b
  <2>3. /\ overtaken'.tokens = overtaken.tokens \cup T
        /\ overtaken'.links = overtaken.links \cup L
        /\ overtaken'.counts = overtaken.counts \cup C
        /\ overtaken'.admins = (overtaken.admins \/ b)
    BY <2>1 DEF OvertakenType
  <2> QED BY <2>2, <2>3 DEF Waits
<1> QED BY <1>1, <1>2 DEF Next

-----------------------------------------------------------------------------
(* Wrong passwords. *)

\* Of an account whose count nobody overtook: the failures in a row are counted,
\* and who verifies a password holds the count as it stands.
CountInv ==
    \A u \in Users \ overtaken.counts :
        /\ missed[u] <= users[u].failed
        /\ \A h \in Handlers : At(h, "verify") /\ job[h].user = u => job[h].failed = users[u].failed

\* What a step does to an account's count: nothing, or it starts again, or a
\* handler that verified a password adds to what it had read.
LEMMA CountSteps ==
    ASSUME CoreTypes, [Next]_vars, NEW u \in Users
    PROVE  \/ users'[u].failed = users[u].failed /\ missed'[u] = missed[u]
           \/ missed'[u] = 0
           \/ \E h \in Handlers : /\ At(h, "verify") /\ job[h].user = u
                                  /\ missed'[u] = missed[u] + 1
                                  /\ users'[u].failed = job[h].failed + 1
<1>0. /\ users \in [Users -> AppUser] /\ missed \in [Users -> Nat]
  BY DEF CoreTypes
<1>1. ASSUME NEW h \in Handlers, Miss(h)
      PROVE  \/ users'[u].failed = users[u].failed /\ missed'[u] = missed[u]
             \/ missed'[u] = 0
             \/ /\ At(h, "verify") /\ job[h].user = u
                /\ missed'[u] = missed[u] + 1
                /\ users'[u].failed = job[h].failed + 1
  <2>1. CASE job[h].failed + 1 >= Threshold
    <3>1. /\ users' = [users EXCEPT ![job[h].user].failed = 0, ![job[h].user].locked = TRUE]
          /\ missed' = [missed EXCEPT ![job[h].user] = 0]
      BY <1>1, <2>1 DEF Miss
    <3> QED BY <1>0, <3>1
  <2>2. CASE ~(job[h].failed + 1 >= Threshold)
    <3>1. /\ users' = [users EXCEPT ![job[h].user].failed = job[h].failed + 1]
          /\ missed' = [missed EXCEPT ![job[h].user] = @ + 1] /\ At(h, "verify")
      BY <1>1, <2>2 DEF Miss
    <3>2. users[u] \in AppUser
      BY <1>0
    <3> QED BY <1>0, <3>1, <3>2 DEF AppUser
  <2> QED BY <2>1, <2>2
<1>2. ASSUME NEW h \in Handlers, Pass(h) \/ Consume(h)
      PROVE  \/ users'[u].failed = users[u].failed /\ missed'[u] = missed[u]
             \/ missed'[u] = 0
  <2>1. missed' = [missed EXCEPT ![job[h].user] = 0]
    BY <1>2 DEF Pass, Consume, SetByLink
  <2>2. u # job[h].user => users'[u] = users[u]
    BY <1>0, <1>2 DEF Pass, Consume, SetByLink
  <2> QED BY <1>0, <2>1, <2>2
<1>3. ASSUME NEW h \in Handlers, NEW v \in Users, SsoLogin(h, v)
      PROVE  users'[u].failed = users[u].failed /\ missed'[u] = missed[u]
  BY <1>0, <1>3 DEF SsoLogin, AppUser
<1>4. ASSUME NEW h \in Handlers,
             \/ \E v \in Users : Login(h, v)
             \/ Issue(h) \/ Revoke(h) \/ MintLink(h)
             \/ \E t \in DOMAIN tokens : Refresh(h, t)
             \/ \E l \in DOMAIN links : UseLink(h, l)
      PROVE  users'[u].failed = users[u].failed /\ missed'[u] = missed[u]
  BY <1>4 DEF Login, Issue, Revoke, MintLink, Refresh, UseLink, rowVars
<1>5. CASE \/ \E t \in DOMAIN tokens : Logout(t) \/ TokenExpires(t)
           \/ \E l \in DOMAIN links : LinkAges(l)
  BY <1>5 DEF Logout, TokenExpires, LinkAges
<1> QED BY <1>1, <1>2, <1>3, <1>4, <1>5, StepKinds DEF Telling, Quiet

\* Who verifies a password did so before, or has just read the count.
LEMMA VerifySteps ==
    ASSUME CoreTypes, [Next]_vars, NEW g \in Handlers, At(g, "verify")'
    PROVE  \/ /\ At(g, "verify") /\ job'[g].user = job[g].user
              /\ job'[g].failed = job[g].failed
           \/ job'[g].failed = users'[job'[g].user].failed
<1>0. /\ job \in [Handlers -> Job] /\ Idle.at = "idle"
  BY DEF CoreTypes, Idle
<1>1. Quiet => job'[g] = job[g]
  BY DEF Quiet, Harmless, At
<1>2. ASSUME NEW h \in Handlers, NEW u \in Users, Login(h, u)
      PROVE  job'[g] = job[g] \/ job'[g].failed = users'[job'[g].user].failed
  <2> DEFINE work == [Idle EXCEPT !.at = "verify", !.user = u,
                                  !.failed = users[u].failed, !.era = era[u]]
  <2>1. work.user = u /\ work.failed = users[u].failed
    BY DEF Idle
  <2>2. Begin(h, work) /\ users' = users
    BY <1>2 DEF Login, rowVars
  <2> HIDE DEF work
  <2> QED BY <2>1, <2>2, JobNext
<1>3. ASSUME NEW h \in Handlers, NEW work, work.at # "verify", Begin(h, work)
      PROVE  job'[g] = job[g]
  BY <1>3, JobNext DEF At
<1>4. ASSUME NEW h \in Handlers, NEW w \in {"issue"}, Go(h, w) \/ Done(h)
      PROVE  job'[g] = job[g]
  <2>1. [job[h] EXCEPT !.at = "issue"].at = "issue"
    BY <1>0 DEF Job
  <2> HIDE DEF Idle
  <2>2. CASE Go(h, "issue")
    <3>1. job'[g] = IF g = h THEN [job[h] EXCEPT !.at = "issue"] ELSE job[g]
      BY <2>2, JobNext
    <3> QED BY <2>1, <3>1 DEF At
  <2>3. CASE Done(h)
    BY <1>0, <2>3, JobNext DEF At
  <2> QED BY <1>4, <2>2, <2>3
<1>5. ASSUME NEW h \in Handlers,
             \/ \E u \in Users : SsoLogin(h, u)
             \/ \E t \in DOMAIN tokens : Refresh(h, t)
             \/ \E l \in DOMAIN links : UseLink(h, l)
      PROVE  job'[g] = job[g]
  <2>1. \A u : [Idle EXCEPT !.at = "issue", !.user = u, !.era = era[u]].at = "issue"
    BY DEF Idle
  <2>2. \A t : [Idle EXCEPT !.at = "revoke", !.user = tokens[t].user, !.token = t,
                            !.era = tokens[t].era, !.stray = tokens[t].stray].at = "revoke"
    BY DEF Idle
  <2>3. \A l : [Idle EXCEPT !.at = "consume", !.user = links[l].user, !.link = l].at = "consume"
    BY DEF Idle
  <2> HIDE DEF Idle
  <2> QED BY <1>3, <1>5, <2>1, <2>2, <2>3 DEF SsoLogin, Refresh, UseLink
<1>6. ASSUME NEW h \in Handlers, Miss(h) \/ Pass(h) \/ Issue(h) \/ Revoke(h) \/ MintLink(h)
      PROVE  job'[g] = job[g]
  BY <1>4, <1>6 DEF Miss, Pass, Issue, Revoke, MintLink
<1>7. ASSUME NEW h \in Handlers, Consume(h)
      PROVE  /\ At(g, "verify") /\ job'[g].user = job[g].user
             /\ job'[g].failed = job[g].failed
  <2>1. job[g] \in Job
    BY <1>0
  <2>2. job'[g] = Idle \/ job'[g] = [job[g] EXCEPT !.stray = TRUE] \/ job'[g] = job[g]
    BY <1>7 DEF Consume, SetByLink
  <2> HIDE DEF Idle
  <2> QED BY <1>0, <2>1, <2>2 DEF At, Job
<1>8. CASE \/ \E t \in DOMAIN tokens : Logout(t) \/ TokenExpires(t)
           \/ \E l \in DOMAIN links : LinkAges(l)
  BY <1>8 DEF Logout, TokenExpires, LinkAges, At
<1>9. job'[g] = job[g] => At(g, "verify")
  BY DEF At
<1> QED BY <1>1, <1>2, <1>5, <1>6, <1>7, <1>8, <1>9, StepKinds DEF Telling

LEMMA StepCounts == Typed /\ CountInv /\ [Next]_vars => CountInv'
<1> SUFFICES ASSUME Typed, CountInv, [Next]_vars,
                    NEW u \in Users \ overtaken'.counts
             PROVE  /\ missed'[u] <= users'[u].failed
                    /\ \A h \in Handlers : At(h, "verify")' /\ job'[h].user = u
                                              => job'[h].failed = users'[u].failed
  BY DEF CountInv, At
<1>0. CoreTypes /\ CoreTypes' /\ OvertakenType
  BY StepTypes DEF Typed
<1>1. /\ missed[u] <= users[u].failed
      /\ \A h \in Handlers : At(h, "verify") /\ job[h].user = u
                                => job[h].failed = users[u].failed
  BY <1>0, OvertakenNext DEF CountInv
<1>2. /\ users[u].failed \in Nat /\ users'[u].failed \in Nat /\ missed[u] \in Nat
  BY <1>0, AccountsAssumption DEF CoreTypes, AppUser
<1>3. missed'[u] <= users'[u].failed
  BY <1>0, <1>1, <1>2, CountSteps
<1>4. ASSUME NEW h \in Handlers, At(h, "verify")', job'[h].user = u
      PROVE  job'[h].failed = users'[u].failed
  BY <1>0, <1>1, <1>4, VerifySteps, OvertakenNext
<1> QED BY <1>3, <1>4

\* Whatever the threshold and however many sign in at once, an account whose
\* count nobody overtook is locked before the threshold is reached.
THEOREM LockoutHolds == Spec => []LockoutCounts
<1>1. Init => CountInv
  BY DEF Init, CountInv, At, Idle, AppUser
<1>2. Typed /\ CountInv => LockoutCounts
  <2> SUFFICES ASSUME Typed, CountInv, NEW u \in Users \ overtaken.counts
               PROVE  missed[u] < Threshold
    BY DEF LockoutCounts
  <2>1. users[u].failed \in 0 .. Threshold - 1 /\ missed[u] \in Nat
    BY DEF Typed, CoreTypes, AppUser
  <2> QED BY <2>1, AccountsAssumption DEF CountInv
<1> QED BY <1>1, <1>2, InitTypes, StepTypes, StepCounts, PTL DEF Spec

-----------------------------------------------------------------------------
(* Resets and sessions. *)

\* A session that lives, or is being made or renewed, is of the account's last
\* reset or astray.
EraInv ==
    /\ \A t \in DOMAIN tokens :
         tokens[t].end = "live" /\ tokens[t].era < era[tokens[t].user] => tokens[t].stray
    /\ \A h \in Handlers :
         job[h].at \in {"verify", "revoke", "issue"} /\ job[h].era < era[job[h].user]
            => job[h].stray

\* What EraInv says of a token, and of a handler, after the step.
FreshToken(t) == tokens[t].end = "live" /\ tokens[t].era < era[tokens[t].user] => tokens[t].stray
FreshJob(g)   == job[g].at \in {"verify", "revoke", "issue"} /\ job[g].era < era[job[g].user]
                    => job[g].stray

LEMMA EraKept ==
    ASSUME EraInv, era' = era,
           \A t \in DOMAIN tokens' : \/ t \in DOMAIN tokens /\ tokens'[t] = tokens[t]
                                     \/ FreshToken(t)',
           \A g \in Handlers : job'[g] = job[g] \/ FreshJob(g)'
    PROVE  EraInv'
BY DEF EraInv, FreshToken, FreshJob

\* Only the last of the handler's own jobs is new.
LEMMA EraJob ==
    ASSUME EraInv, CoreTypes, era' = era, UNCHANGED tokens, NEW h \in Handlers,
           NEW work, Begin(h, work),
           work.at \in {"verify", "revoke", "issue"} /\ work.era < era[work.user] => work.stray
    PROVE  EraInv'
BY JobNext, EraKept DEF FreshJob

LEMMA EraSteps == Typed /\ EraInv /\ [Next]_vars => EraInv'
<1> SUFFICES ASSUME Typed, EraInv, [Next]_vars PROVE EraInv'
  OBVIOUS
<1>0. /\ CoreTypes /\ job \in [Handlers -> Job] /\ era \in [Users -> Nat]
      /\ Idle.at = "idle" /\ Idle.stray = FALSE
  BY DEF Typed, CoreTypes, Idle
<1>a. DOMAIN tokens = 1 .. Len(tokens) /\ \A t \in DOMAIN tokens : tokens[t] \in RefreshToken
  BY <1>0, RowTypes
<1>1. CASE Quiet
  BY <1>1, EraKept DEF Quiet, Harmless, FreshJob
<1>2. ASSUME NEW h \in Handlers, NEW u \in Users, Login(h, u) \/ SsoLogin(h, u) PROVE EraInv'
  <2> DEFINE there == [Idle EXCEPT !.at = "verify", !.user = u,
                                   !.failed = users[u].failed, !.era = era[u]]
             here == [Idle EXCEPT !.at = "issue", !.user = u, !.era = era[u]]
  <2>1. there.era = era[there.user] /\ here.era = era[here.user] /\ era[u] \in Nat
        /\ there.user = u /\ here.user = u
    BY <1>0 DEF Idle
  <2>2. (Begin(h, there) \/ Begin(h, here)) /\ UNCHANGED <<tokens, era>>
    BY <1>2 DEF Login, SsoLogin, rowVars
  <2> HIDE DEF there, here
  <2> QED BY <1>0, <2>1, <2>2, EraJob
<1>3. ASSUME NEW h \in Handlers, NEW t \in DOMAIN tokens, Refresh(h, t) PROVE EraInv'
  <2> DEFINE work == [Idle EXCEPT !.at = "revoke", !.user = tokens[t].user, !.token = t,
                             !.era = tokens[t].era, !.stray = tokens[t].stray]
  <2>1. /\ work.user = tokens[t].user /\ work.era = tokens[t].era
        /\ work.stray = tokens[t].stray
    BY DEF Idle
  <2>2. Begin(h, work) /\ UNCHANGED <<tokens, era>> /\ tokens[t].end = "live"
    BY <1>3 DEF Refresh, rowVars
  <2> HIDE DEF work
  <2>3. work.era < era[work.user] => work.stray
    BY <2>1, <2>2 DEF EraInv
  <2> QED BY <1>0, <2>2, <2>3, EraJob
<1>4. ASSUME NEW h \in Handlers, NEW l \in DOMAIN links, UseLink(h, l) PROVE EraInv'
  <2> DEFINE work == [Idle EXCEPT !.at = "consume", !.user = links[l].user, !.link = l]
  <2>1. work.at = "consume"
    BY DEF Idle
  <2>2. Begin(h, work) /\ UNCHANGED <<tokens, era>>
    BY <1>4 DEF UseLink, rowVars
  <2> HIDE DEF work
  <2> QED BY <1>0, <2>1, <2>2, EraJob
<1>5. ASSUME NEW h \in Handlers, Miss(h) \/ MintLink(h) PROVE EraInv'
  <2>1. Done(h) /\ UNCHANGED <<tokens, era>>
    BY <1>5 DEF Miss, MintLink
  <2>2. \A g \in Handlers : job'[g] = job[g] \/ job'[g].at = "idle"
    <3> HIDE DEF Idle
    <3> QED BY <1>0, <2>1, JobNext
  <2> QED BY <2>1, <2>2, EraKept DEF FreshJob
<1>6. ASSUME NEW h \in Handlers, Go(h, "issue"), At(h, "verify") \/ At(h, "revoke"), era' = era
      PROVE  \A g \in Handlers : job'[g] = job[g] \/ FreshJob(g)'
  <2>1. \A g \in Handlers : job'[g] = IF g = h THEN [job[h] EXCEPT !.at = "issue"] ELSE job[g]
    BY <1>0, <1>6, JobNext
  <2>2. /\ job'[h].era = job[h].era /\ job'[h].user = job[h].user
        /\ job'[h].stray = job[h].stray
    BY <1>0, <2>1 DEF Job
  <2>3. FreshJob(h)'
    BY <1>6, <2>2 DEF EraInv, FreshJob, At
  <2> QED BY <2>1, <2>3
<1>7. ASSUME NEW h \in Handlers, Pass(h) PROVE EraInv'
  BY <1>6, <1>7, EraKept DEF Pass
<1>8. ASSUME NEW t \in DOMAIN tokens, NEW e \in {"live", "rotated", "logout", "reset", "expired"},
             tokens' = [tokens EXCEPT ![t].end = e], e = "live" => tokens[t].end = "live"
      PROVE  \A s \in DOMAIN tokens' : \/ s \in DOMAIN tokens /\ tokens'[s] = tokens[s]
                                       \/ ~(tokens'[s].end = "live")
  <2>1. /\ DOMAIN tokens' = DOMAIN tokens
        /\ \A s \in DOMAIN tokens :
              tokens'[s] = IF s = t THEN [tokens[s] EXCEPT !.end = e] ELSE tokens[s]
    BY <1>0, <1>8, TokenEnds
  <2>2. tokens[t] \in RefreshToken
    BY <1>a
  <2>3. e = "live" => [tokens[t] EXCEPT !.end = e] = tokens[t]
    BY <1>8, <2>2 DEF RefreshToken
  <2>4. [tokens[t] EXCEPT !.end = e].end = e
    BY <2>2 DEF RefreshToken
  <2> QED BY <2>1, <2>3, <2>4
<1>9. ASSUME NEW h \in Handlers, Revoke(h) PROVE EraInv'
  <2> DEFINE t == job[h].token
             e == IF tokens[t].end = "live" THEN "rotated" ELSE tokens[t].end
  <2>1. t \in DOMAIN tokens
    BY <1>0, <1>9, <1>a DEF Revoke, Typed, Refs, At
  <2>2. e \in {"live", "rotated", "logout", "reset", "expired"} /\ e # "live"
    BY <2>1, <1>a DEF RefreshToken
  <2>3. tokens' = [tokens EXCEPT ![t].end = e] /\ Go(h, "issue") /\ At(h, "revoke") /\ era' = era
    BY <1>9 DEF Revoke
  <2> HIDE DEF t, e
  <2>4. \A s \in DOMAIN tokens' : \/ s \in DOMAIN tokens /\ tokens'[s] = tokens[s]
                                  \/ FreshToken(s)'
    BY <1>8, <2>1, <2>2, <2>3 DEF FreshToken
  <2> QED BY <1>6, <2>3, <2>4, EraKept
<1>10. ASSUME NEW t \in DOMAIN tokens, Logout(t) \/ TokenExpires(t) PROVE EraInv'
  <2>1. \A s \in DOMAIN tokens' : \/ s \in DOMAIN tokens /\ tokens'[s] = tokens[s]
                                  \/ FreshToken(s)'
    BY <1>8, <1>10 DEF FreshToken, Logout, TokenExpires
  <2> QED BY <1>10, <2>1, EraKept DEF Logout, TokenExpires
<1>11. ASSUME NEW l \in DOMAIN links, LinkAges(l) PROVE EraInv'
  BY <1>11, EraKept DEF LinkAges
<1>12. ASSUME NEW h \in Handlers, Issue(h) PROVE EraInv'
  <2>1. \A g \in Handlers : job'[g] = job[g] \/ FreshJob(g)'
    <3>1. \A g \in Handlers : job'[g] = job[g] \/ job'[g] = Idle
      BY <1>0, <1>12, JobNext DEF Issue
    <3> HIDE DEF Idle
    <3> QED BY <1>0, <3>1 DEF FreshJob
  <2> DEFINE new == [user |-> job[h].user, end |-> "live", from |-> job[h].token,
                     era |-> job[h].era, stray |-> job[h].stray]
  <2>2. (new.era < era[new.user] => new.stray) /\ new \in RefreshToken
    BY <1>0, <1>12 DEF Issue, EraInv, At, Job, RefreshToken
  <2>3. tokens' = Append(tokens, new) \/ tokens' = tokens
    BY <1>12 DEF Issue
  <2> HIDE DEF new
  <2>4. \A t \in DOMAIN tokens' : (t \in DOMAIN tokens /\ tokens'[t] = tokens[t]) \/ tokens'[t] = new
    <3>1. CASE tokens' = Append(tokens, new)
      BY <1>0, <2>2, <3>1 DEF CoreTypes
    <3> QED BY <2>3, <3>1
  <2>5. era' = era
    BY <1>12 DEF Issue
  <2> QED BY <2>1, <2>2, <2>4, <2>5, EraKept DEF FreshToken
<1>13. ASSUME NEW h \in Handlers, Consume(h) PROVE EraInv'
  <2> DEFINE u == job[h].user
  <2>1. era' = [era EXCEPT ![u] = @ + 1] /\ u \in Users
    BY <1>0, <1>13 DEF Consume, SetByLink, Job
  <2>2. ASSUME NEW t \in DOMAIN tokens' PROVE FreshToken(t)'
    <3>1. /\ t \in DOMAIN tokens
          /\ tokens'[t] = IF t \in {s \in DOMAIN tokens : tokens[s].user = u}
                             /\ tokens[t].end = "live"
                          THEN [tokens[t] EXCEPT !.end = "reset"] ELSE tokens[t]
      BY <1>13 DEF Consume, SetByLink
    <3>2. tokens[t] \in RefreshToken /\ [tokens[t] EXCEPT !.end = "reset"].end = "reset"
      BY <1>a, <3>1 DEF RefreshToken
    <3>3. tokens'[t].end = "live" => tokens'[t] = tokens[t] /\ tokens[t].user # u
      BY <3>1, <3>2
    <3>4. tokens'[t].end = "live" => era'[tokens'[t].user] = era[tokens[t].user]
      BY <1>0, <2>1, <3>2, <3>3 DEF RefreshToken
    <3> QED BY <3>1, <3>3, <3>4 DEF FreshToken, EraInv
  <2>3. ASSUME NEW g \in Handlers PROVE FreshJob(g)'
    <3>1. job'[g] = IF g = h THEN Idle
                    ELSE IF job[g].user = u /\ job[g].at \in {"verify", "revoke", "issue"}
                    THEN [job[g] EXCEPT !.stray = TRUE] ELSE job[g]
      BY <1>13 DEF Consume, SetByLink
    <3>2. job[g] \in Job /\ [job[g] EXCEPT !.stray = TRUE].stray
      BY <1>0 DEF Job
    <3> HIDE DEF Idle
    <3>3. CASE g = h \/ (job[g].user = u /\ job[g].at \in {"verify", "revoke", "issue"})
      BY <1>0, <3>1, <3>2, <3>3 DEF FreshJob
    <3>4. CASE g # h /\ job[g].user # u
      <4>1. job'[g] = job[g] /\ era'[job[g].user] = era[job[g].user]
        BY <1>0, <2>1, <3>1, <3>2, <3>4 DEF Job
      <4> QED BY <4>1 DEF FreshJob, EraInv
    <3>5. CASE g # h /\ job[g].at \notin {"verify", "revoke", "issue"}
      BY <3>1, <3>5 DEF FreshJob
    <3> QED BY <3>3, <3>4, <3>5
  <2> QED BY <2>2, <2>3 DEF EraInv, FreshToken, FreshJob
<1> QED BY <1>0, <1>1, <1>2, <1>3, <1>4, <1>5, <1>7, <1>9, <1>10, <1>11, <1>12, <1>13,
           StepKinds DEF Telling

\* After a reset by mail nothing of the account's earlier sessions lives, in any
\* interleaving with the account's logins and renewals, save what was under way.
THEOREM ResetHolds == Spec => []ResetEndsSessions
<1>1. Init => EraInv
  BY DEF Init, EraInv, Idle
<1>2. EraInv => ResetEndsSessions
  BY DEF EraInv, ResetEndsSessions
<1> QED BY <1>1, <1>2, InitTypes, StepTypes, EraSteps, PTL DEF Spec

-----------------------------------------------------------------------------
(* Admins. *)

\* An admin remains, also when the handler that is about to write takes one away.
AdminInv ==
    \/ overtaken.admins
    \/ /\ Admins # {}
       /\ \A h \in Handlers : At(h, "write") =>
             (job[h].role = "ADMIN" /\ job[h].active) \/ Admins \ {job[h].user} # {}

\* Only an update takes an active admin away.
LEMMA AdminsGrow ==
    ASSUME CoreTypes, [Next]_vars, ~\E h \in Handlers : WriteUser(h)
    PROVE  Admins \subseteq Admins'
<1> SUFFICES ASSUME NEW u \in Users, users[u].state = "active", users[u].role = "ADMIN"
             PROVE  users'[u].state = "active" /\ users'[u].role = "ADMIN"
  BY DEF Admins, IsAdmin, IsActive
<1>0. users \in [Users -> AppUser] /\ users[u] \in AppUser
  BY DEF CoreTypes
<1>1. ASSUME users' = users
      PROVE  users'[u].state = "active" /\ users'[u].role = "ADMIN"
  BY <1>1
<1>2. ASSUME NEW h \in Handlers, Miss(h)
      PROVE  users'[u].state = "active" /\ users'[u].role = "ADMIN"
  <2>1. CASE job[h].failed + 1 >= Threshold
    BY <1>0, <1>2, <2>1 DEF Miss, AppUser
  <2>2. CASE ~(job[h].failed + 1 >= Threshold)
    BY <1>0, <1>2, <2>2 DEF Miss, AppUser
  <2> QED BY <2>1, <2>2
<1>3. ASSUME NEW h \in Handlers, Pass(h)
      PROVE  users'[u].state = "active" /\ users'[u].role = "ADMIN"
  BY <1>0, <1>3 DEF Pass, AppUser
<1>4. ASSUME NEW h \in Handlers, Consume(h)
      PROVE  users'[u].state = "active" /\ users'[u].role = "ADMIN"
  BY <1>0, <1>4 DEF Consume, SetByLink, AppUser
<1>5. ASSUME NEW h \in Handlers, NEW v \in Users, SsoLogin(h, v)
      PROVE  users'[u].state = "active" /\ users'[u].role = "ADMIN"
  BY <1>0, <1>5 DEF SsoLogin, AppUser
<1>6. ASSUME NEW h \in Handlers, ForceChange(h) \/ WritePassword(h)
      PROVE  users'[u].state = "active" /\ users'[u].role = "ADMIN"
  BY <1>0, <1>6 DEF ForceChange, WritePassword, AppUser
<1>7. ASSUME NEW h \in Handlers, InsertUser(h)
      PROVE  users'[u].state = "active" /\ users'[u].role = "ADMIN"
  BY <1>0, <1>7 DEF InsertUser
<1>8. ASSUME NEW v \in Users, LockEnds(v)
      PROVE  users'[u].state = "active" /\ users'[u].role = "ADMIN"
  BY <1>0, <1>8 DEF LockEnds, AppUser
<1>9. ASSUME NEW h \in Handlers,
             \/ \E v \in Users : Login(h, v) \/ RequestLink(h, v) \/ ChangePassword(h, v)
             \/ Issue(h) \/ Revoke(h) \/ CheckCooldown(h) \/ MintLink(h)
             \/ \E t \in DOMAIN tokens : Refresh(h, t)
             \/ \E l \in DOMAIN links : UseLink(h, l)
             \/ \E a, v \in Users : Update(h, a, v) \/ AdminReset(h, a, v) \/ CreateUser(h, a, v)
             \/ ReadTarget(h) \/ CountAdmins(h) \/ FindAccount(h)
      PROVE  users' = users
  BY <1>9 DEF Login, RequestLink, ChangePassword, Issue, Revoke, CheckCooldown, MintLink,
              Refresh, UseLink, Update, AdminReset, CreateUser, ReadTarget, CountAdmins,
              FindAccount, rowVars
<1>10. CASE \/ \E t \in DOMAIN tokens : Logout(t) \/ TokenExpires(t)
            \/ \E l \in DOMAIN links : LinkAges(l)
            \/ Restart \/ UNCHANGED vars
  BY <1>1, <1>10 DEF Logout, TokenExpires, LinkAges, Restart, vars, rowVars
<1> QED BY <1>1, <1>2, <1>3, <1>4, <1>5, <1>6, <1>7, <1>8, <1>9, <1>10
        DEF Next, HandlerStep, Elapse

\* Who is about to write was so before with what was asked, or has just read the
\* account or counted the admins.
LEMMA WriteSteps ==
    ASSUME CoreTypes, [Next]_vars, NEW g \in Handlers, At(g, "write")'
    PROVE  \/ job'[g] = job[g]
           \/ /\ At(g, "write") /\ job'[g].user = job[g].user /\ job'[g].role = job[g].role
              /\ job'[g].active = job[g].active
           \/ (ReadTarget(g) \/ CountAdmins(g)) /\ Go(g, "write")
<1>0. /\ job \in [Handlers -> Job] /\ Idle.at = "idle" /\ job[g] \in Job
  BY DEF CoreTypes, Idle
<1>1. ASSUME NEW h \in Handlers, NEW work, work.at # "write", Begin(h, work)
      PROVE  job'[g] = job[g]
  BY <1>1, JobNext DEF At
<1>2. ASSUME NEW h \in Handlers, NEW w, w # "write", Go(h, w) \/ Done(h)
      PROVE  job'[g] = job[g]
  <2>1. CASE Go(h, w)
    <3>1. job'[g] = IF g = h THEN [job[h] EXCEPT !.at = w] ELSE job[g]
      BY <2>1, JobNext
    <3>2. [job[g] EXCEPT !.at = w].at = w
      BY <1>0 DEF Job
    <3> QED BY <1>2, <3>1, <3>2 DEF At
  <2>2. CASE Done(h)
    <3> HIDE DEF Idle
    <3> QED BY <1>0, <2>2, JobNext DEF At
  <2> QED BY <1>2, <2>1, <2>2
<1>3. ASSUME NEW h \in Handlers,
             \/ \E u \in Users : \/ Login(h, u) \/ SsoLogin(h, u) \/ RequestLink(h, u)
                                 \/ ChangePassword(h, u)
             \/ \E t \in DOMAIN tokens : Refresh(h, t)
             \/ \E l \in DOMAIN links : UseLink(h, l)
             \/ \E a, u \in Users : Update(h, a, u) \/ AdminReset(h, a, u) \/ CreateUser(h, a, u)
      PROVE  job'[g] = job[g]
  <2>1. ASSUME NEW u \in Users, Login(h, u) \/ SsoLogin(h, u) PROVE job'[g] = job[g]
    <3>1. /\ [Idle EXCEPT !.at = "verify", !.user = u,
                          !.failed = users[u].failed, !.era = era[u]].at = "verify"
          /\ [Idle EXCEPT !.at = "issue", !.user = u, !.era = era[u]].at = "issue"
      BY DEF Idle
    <3> QED BY <1>1, <2>1, <3>1 DEF Login, SsoLogin
  <2>2. ASSUME NEW u \in Users, NEW w \in {"cooldown", "change", "target"},
               Begin(h, [Idle EXCEPT !.at = w, !.user = u])
        PROVE  job'[g] = job[g]
    <3>1. [Idle EXCEPT !.at = w, !.user = u].at = w
      BY DEF Idle
    <3> QED BY <1>1, <2>2, <3>1
  <2>3. \A a, u \in Users : RequestLink(h, u) \/ ChangePassword(h, u) \/ AdminReset(h, a, u)
            => job'[g] = job[g]
    BY <2>2 DEF RequestLink, ChangePassword, AdminReset
  <2>4. ASSUME NEW t \in DOMAIN tokens, Refresh(h, t) PROVE job'[g] = job[g]
    <3>1. [Idle EXCEPT !.at = "revoke", !.user = tokens[t].user, !.token = t,
                       !.era = tokens[t].era, !.stray = tokens[t].stray].at = "revoke"
      BY DEF Idle
    <3> QED BY <1>1, <2>4, <3>1 DEF Refresh
  <2>5. ASSUME NEW l \in DOMAIN links, UseLink(h, l) PROVE job'[g] = job[g]
    <3>1. [Idle EXCEPT !.at = "consume", !.user = links[l].user, !.link = l].at = "consume"
      BY DEF Idle
    <3> QED BY <1>1, <2>5, <3>1 DEF UseLink
  <2>6. ASSUME NEW u \in Users, NEW role \in Roles, NEW active \in BOOLEAN,
               \/ Begin(h, [Idle EXCEPT !.at = "target", !.user = u, !.asks = TRUE,
                                        !.role = role, !.active = active])
               \/ Begin(h, [Idle EXCEPT !.at = "insert", !.user = u, !.role = role])
        PROVE  job'[g] = job[g]
    <3>1. /\ [Idle EXCEPT !.at = "target", !.user = u, !.asks = TRUE,
                          !.role = role, !.active = active].at = "target"
          /\ [Idle EXCEPT !.at = "insert", !.user = u, !.role = role].at = "insert"
      BY DEF Idle
    <3> QED BY <1>1, <2>6, <3>1
  <2>7. \A a, u \in Users : Update(h, a, u) => job'[g] = job[g]
    BY <2>6 DEF Update
  <2>8. \A a, u \in Users : CreateUser(h, a, u) => job'[g] = job[g]
    <3>1. TRUE \in BOOLEAN
      OBVIOUS
    <3> QED BY <2>6, <3>1 DEF CreateUser
  <2> QED BY <1>3, <2>1, <2>3, <2>4, <2>5, <2>7, <2>8
<1>4. ASSUME NEW h \in Handlers,
             \/ Miss(h) \/ Pass(h) \/ Issue(h) \/ Revoke(h) \/ CheckCooldown(h) \/ MintLink(h)
             \/ WriteUser(h) \/ FindAccount(h) \/ ForceChange(h) \/ InsertUser(h)
             \/ WritePassword(h)
      PROVE  job'[g] = job[g]
  <2>1. Done(h) \/ Go(h, "issue") \/ Go(h, "mint") \/ Go(h, "force")
    BY <1>4 DEF Miss, Pass, Issue, Revoke, CheckCooldown, MintLink, WriteUser, FindAccount,
                ForceChange, InsertUser, WritePassword
  <2> QED BY <1>2, <2>1
<1>5. ASSUME NEW h \in Handlers, ReadTarget(h) \/ CountAdmins(h)
      PROVE  job'[g] = job[g] \/ (g = h /\ Go(h, "write"))
  <2>1. Done(h) \/ Go(h, "count") \/ Go(h, "write")
    BY <1>5 DEF ReadTarget, CountAdmins
  <2>2. Go(h, "write") => g = h \/ job'[g] = job[g]
    BY JobNext
  <2> QED BY <1>2, <2>1, <2>2
<1>6. ASSUME NEW h \in Handlers, Consume(h)
      PROVE  /\ At(g, "write") /\ job'[g].user = job[g].user /\ job'[g].role = job[g].role
             /\ job'[g].active = job[g].active
  <2>1. job'[g] = Idle \/ job'[g] = [job[g] EXCEPT !.stray = TRUE] \/ job'[g] = job[g]
    BY <1>6 DEF Consume, SetByLink
  <2> HIDE DEF Idle
  <2> QED BY <1>0, <2>1 DEF At, Job
<1>7. Elapse \/ UNCHANGED vars => job'[g] = job[g]
  BY DEF Elapse, LockEnds, Logout, TokenExpires, LinkAges, vars
<1>8. ~Restart
  <2> HIDE DEF Idle
  <2> QED BY <1>0 DEF Restart, At
<1> QED BY <1>3, <1>4, <1>5, <1>6, <1>7, <1>8 DEF Next, HandlerStep

LEMMA AdminSteps == Typed /\ AdminInv /\ [Next]_vars => AdminInv'
<1> SUFFICES ASSUME Typed, AdminInv, [Next]_vars, ~overtaken'.admins
             PROVE  /\ Admins' # {}
                    /\ \A g \in Handlers : At(g, "write")' =>
                         \/ job'[g].role = "ADMIN" /\ job'[g].active
                         \/ Admins' \ {job'[g].user} # {}
  BY DEF AdminInv, At
<1>0. CoreTypes /\ OvertakenType /\ users \in [Users -> AppUser] /\ job \in [Handlers -> Job]
  BY DEF Typed, CoreTypes
<1>1. /\ Admins # {}
      /\ \A h \in Handlers : At(h, "write") =>
            (job[h].role = "ADMIN" /\ job[h].active) \/ Admins \ {job[h].user} # {}
      /\ \A h \in Handlers : At(h, "write") /\ At(h, "write")' => Admins' = Admins
  BY <1>0, OvertakenNext DEF AdminInv
<1>2. ASSUME NEW h \in Handlers, WriteUser(h) PROVE Admins' # {}
  <2> DEFINE u == job[h].user
             row == [users[u] EXCEPT !.role = job[h].role,
                       !.state = IF job[h].active THEN "active" ELSE "inactive"]
  <2>1. users' = [users EXCEPT ![u] = row] /\ At(h, "write")
    BY <1>2 DEF WriteUser
  <2>2. u \in Users /\ users[u] \in AppUser
    BY <1>0 DEF Job
  <2>3. row.role = job[h].role /\ row.state = IF job[h].active THEN "active" ELSE "inactive"
    BY <2>2 DEF AppUser
  <2> HIDE DEF u, row
  <2>4. CASE job[h].role = "ADMIN" /\ job[h].active
    <3>1. users'[u].role = "ADMIN" /\ users'[u].state = "active"
      BY <1>0, <2>1, <2>2, <2>3, <2>4
    <3> QED BY <2>2, <3>1 DEF Admins, IsAdmin, IsActive
  <2>5. CASE Admins \ {u} # {}
    <3>1. PICK v \in Admins : v # u
      BY <2>5
    <3>2. users'[v] = users[v] /\ v \in Users
      BY <1>0, <2>1, <3>1 DEF Admins
    <3> QED BY <3>1, <3>2 DEF Admins, IsAdmin, IsActive
  <2> QED BY <1>1, <2>1, <2>4, <2>5 DEF u
<1>3. Admins' # {}
  BY <1>0, <1>1, <1>2, AdminsGrow
<1>4. ASSUME NEW g \in Handlers, At(g, "write")'
      PROVE  \/ job'[g].role = "ADMIN" /\ job'[g].active
             \/ Admins' \ {job'[g].user} # {}
  <2>1. CASE At(g, "write")
    <3>1. /\ job'[g].user = job[g].user /\ job'[g].role = job[g].role
          /\ job'[g].active = job[g].active
      <4>1. ~(ReadTarget(g) \/ CountAdmins(g))
        BY <2>1 DEF ReadTarget, CountAdmins, At
      <4> QED BY <1>0, <1>4, <4>1, WriteSteps
    <3> QED BY <1>1, <1>4, <2>1, <3>1
  <2>2. CASE ~At(g, "write")
    <3>1. (ReadTarget(g) \/ CountAdmins(g)) /\ Go(g, "write")
      BY <1>0, <1>4, <2>2, WriteSteps DEF At
    <3>2. /\ job'[g].user = job[g].user /\ job'[g].role = job[g].role
          /\ job'[g].active = job[g].active
      <4>1. job'[g] = [job[g] EXCEPT !.at = "write"]
        BY <1>0, <3>1, JobNext
      <4> QED BY <1>0, <4>1 DEF Job
    <3>3. Admins' = Admins
      BY <3>1 DEF ReadTarget, CountAdmins, rowVars, Admins, IsAdmin, IsActive
    <3>4. (job[g].role = "ADMIN" /\ job[g].active) \/ Admins \ {job[g].user} # {}
      <4>0. job[g] \in Job /\ Idle.at = "idle"
        BY <1>0 DEF Idle
      <4>1. CASE ReadTarget(g)
        <5>1. ~(IsAdmin(job[g].user) /\ ~(job[g].role = "ADMIN" /\ job[g].active))
          <6>1. job'[g].at = "write"
            BY <1>4 DEF At
          <6>2. [job[g] EXCEPT !.at = "count"].at = "count"
            BY <4>0 DEF Job
          <6>3. ~Go(g, "count")
            BY <1>0, <6>1, <6>2, JobNext
          <6>4. ~Done(g)
            <7> HIDE DEF Idle
            <7> QED BY <1>0, <4>0, <6>1, JobNext
          <6> QED BY <4>1, <6>3, <6>4 DEF ReadTarget
        <5>2. IsAdmin(job[g].user) \/ job[g].user \notin Admins
          BY DEF Admins
        <5> QED BY <1>1, <5>1, <5>2
      <4>2. CASE CountAdmins(g)
        <5>1. ~Done(g)
          <6> HIDE DEF Idle
          <6> QED BY <1>0, <1>4, <4>0, JobNext DEF At
        <5> QED BY <4>2, <5>1 DEF CountAdmins
      <4> QED BY <3>1, <4>1, <4>2
    <3> QED BY <3>2, <3>3, <3>4
  <2> QED BY <2>1, <2>2
<1> QED BY <1>3, <1>4

\* However many updates run at once, an active admin remains unless the admins
\* changed between the count and the write of one of them.
THEOREM AdminHolds == Spec => []AdminRemains
<1>1. Init => AdminInv
  BY DEF Init, AdminInv, At, Idle
<1>2. AdminInv => AdminRemains
  BY DEF AdminInv, AdminRemains
<1> QED BY <1>1, <1>2, InitTypes, StepTypes, AdminSteps, PTL DEF Spec

-----------------------------------------------------------------------------
(* What is spent once. *)

\* Whoever is about to issue, or has issued, the successor of t.
Issuing(t)   == {h \in Handlers : At(h, "issue") /\ job[h].token = t}
Successors(t) == {s \in DOMAIN tokens : tokens[s].from = t}

\* A token that nobody overtook: who is about to revoke it finds it live; before
\* it is rotated it has no successor, and afterwards one, made or in the making.
TokenInv ==
    /\ \A h \in Handlers : At(h, "verify") => job[h].token = 0
    /\ \A t \in DOMAIN tokens \ overtaken.tokens :
         /\ \A h \in Handlers : At(h, "revoke") /\ job[h].token = t => tokens[t].end = "live"
         /\ tokens[t].end # "rotated" => Issuing(t) = {} /\ Successors(t) = {}
         /\ \A s \in Successors(t) : Issuing(t) = {} /\ \A r \in Successors(t) : r = s
         /\ \A g, h \in Issuing(t) : g = h

\* A link that nobody overtook: it is unspent until it is used, and in the hands
\* of whoever is about to use it.
LinkInv ==
    \A l \in DOMAIN links \ overtaken.links :
        /\ links[l].spent <= 1
        /\ ~links[l].used => links[l].spent = 0
        /\ \A h \in Handlers : At(h, "consume") /\ job[h].link = l => links[l].spent = 0


\* Who is about to verify, revoke, issue or consume was so before, with the same
\* token and link, or has just come there.
LEMMA WaitSteps ==
    ASSUME CoreTypes, [Next]_vars, NEW g \in Handlers,
           NEW w \in {"verify", "revoke", "issue", "consume"}, At(g, w)'
    PROVE  \/ At(g, w) /\ job'[g].token = job[g].token /\ job'[g].link = job[g].link
           \/ w \in {"verify", "issue"} /\ job'[g].token = 0
           \/ w = "issue" /\ (Pass(g) \/ Revoke(g)) /\ job'[g].token = job[g].token
           \/ w = "revoke" /\ \E t \in DOMAIN tokens : Refresh(g, t) /\ job'[g].token = t
           \/ w = "consume" /\ \E l \in DOMAIN links : UseLink(g, l) /\ job'[g].link = l
<1>0. /\ job \in [Handlers -> Job] /\ Idle.at = "idle" /\ Idle.token = 0 /\ job[g] \in Job
  BY DEF CoreTypes, Idle
<1>1. CASE job'[g] = job[g]
  BY <1>1 DEF At
<1>2. CASE Quiet
  BY <1>1, <1>2 DEF Quiet, Harmless, At
<1>3. ASSUME NEW h \in Handlers, NEW u \in Users, Login(h, u) \/ SsoLogin(h, u)
      PROVE  job'[g] = job[g] \/ (w \in {"verify", "issue"} /\ job'[g].token = 0)
  <2> DEFINE there == [Idle EXCEPT !.at = "verify", !.user = u,
                                   !.failed = users[u].failed, !.era = era[u]]
             here == [Idle EXCEPT !.at = "issue", !.user = u, !.era = era[u]]
  <2>1. there.token = 0 /\ here.token = 0 /\ there.at = "verify" /\ here.at = "issue"
    BY DEF Idle
  <2>2. Begin(h, there) \/ Begin(h, here)
    BY <1>3 DEF Login, SsoLogin
  <2> HIDE DEF there, here
  <2> QED BY <2>1, <2>2, JobNext DEF At
<1>4. ASSUME NEW h \in Handlers, NEW t \in DOMAIN tokens, Refresh(h, t)
      PROVE  job'[g] = job[g] \/ (w = "revoke" /\ Refresh(g, t) /\ job'[g].token = t)
  <2> DEFINE work == [Idle EXCEPT !.at = "revoke", !.user = tokens[t].user, !.token = t,
                             !.era = tokens[t].era, !.stray = tokens[t].stray]
  <2>1. work.token = t /\ work.at = "revoke"
    BY DEF Idle
  <2>2. Begin(h, work)
    BY <1>4 DEF Refresh
  <2> HIDE DEF work
  <2> QED BY <1>4, <2>1, <2>2, JobNext DEF At
<1>5. ASSUME NEW h \in Handlers, NEW l \in DOMAIN links, UseLink(h, l)
      PROVE  job'[g] = job[g] \/ (w = "consume" /\ UseLink(g, l) /\ job'[g].link = l)
  <2> DEFINE work == [Idle EXCEPT !.at = "consume", !.user = links[l].user, !.link = l]
  <2>1. work.link = l /\ work.at = "consume"
    BY DEF Idle
  <2>2. Begin(h, work)
    BY <1>5 DEF UseLink
  <2> HIDE DEF work
  <2> QED BY <1>5, <2>1, <2>2, JobNext DEF At
<1>6. ASSUME NEW h \in Handlers, Miss(h) \/ Issue(h) \/ MintLink(h)
      PROVE  job'[g] = job[g]
  <2>1. Done(h)
    BY <1>6 DEF Miss, Issue, MintLink
  <2> HIDE DEF Idle
  <2> QED BY <1>0, <2>1, JobNext DEF At
<1>7. ASSUME NEW h \in Handlers, Pass(h) \/ Revoke(h)
      PROVE  \/ job'[g] = job[g]
             \/ w = "issue" /\ (Pass(g) \/ Revoke(g)) /\ job'[g].token = job[g].token
  <2>1. job'[g] = IF g = h THEN [job[h] EXCEPT !.at = "issue"] ELSE job[g]
    BY <1>7, JobNext DEF Pass, Revoke
  <2>2. [job[g] EXCEPT !.at = "issue"].at = "issue"
        /\ [job[g] EXCEPT !.at = "issue"].token = job[g].token
    BY <1>0 DEF Job
  <2> QED BY <1>7, <2>1, <2>2 DEF At
<1>8. ASSUME NEW h \in Handlers, Consume(h)
      PROVE  At(g, w) /\ job'[g].token = job[g].token /\ job'[g].link = job[g].link
  <2>1. job'[g] = Idle \/ job'[g] = [job[g] EXCEPT !.stray = TRUE] \/ job'[g] = job[g]
    BY <1>8 DEF Consume, SetByLink
  <2> HIDE DEF Idle
  <2> QED BY <1>0, <2>1 DEF At, Job
<1>9. CASE \/ \E t \in DOMAIN tokens : Logout(t) \/ TokenExpires(t)
           \/ \E l \in DOMAIN links : LinkAges(l)
  BY <1>1, <1>9 DEF Logout, TokenExpires, LinkAges
<1> QED BY <1>1, <1>2, <1>3, <1>4, <1>5, <1>6, <1>7, <1>8, <1>9, StepKinds DEF Telling

\* A token keeps its ancestor and ends once; a new one is live, and made by a
\* handler that issues it.
LEMMA TokenSteps ==
    ASSUME CoreTypes, Refs, [Next]_vars
    PROVE  /\ DOMAIN tokens \subseteq DOMAIN tokens'
           /\ \A t \in DOMAIN tokens :
                /\ tokens'[t].from = tokens[t].from
                /\ \/ tokens'[t].end = tokens[t].end
                   \/ tokens[t].end = "live" /\ tokens'[t].end # "live"
           /\ \A t \in DOMAIN tokens' \ DOMAIN tokens :
                /\ t = Len(tokens) + 1 /\ tokens'[t].end = "live"
                /\ \E h \in Handlers : /\ At(h, "issue") /\ job'[h].at = "idle"
                                       /\ tokens'[t].from = job[h].token
<1>0. \A t \in DOMAIN tokens : tokens[t] \in RefreshToken
  BY RowTypes
<1>2. ASSUME NEW t \in DOMAIN tokens, NEW e \in {"rotated", "logout", "expired"},
             tokens[t].end = "live", tokens' = [tokens EXCEPT ![t].end = e]
      PROVE  /\ DOMAIN tokens' = DOMAIN tokens
             /\ \A s \in DOMAIN tokens :
                  /\ tokens'[s].from = tokens[s].from
                  /\ \/ tokens'[s].end = tokens[s].end
                     \/ tokens[s].end = "live" /\ tokens'[s].end # "live"
             /\ tokens'[t].end = e
  <2>1. \A s \in DOMAIN tokens :
              tokens'[s] = IF s = t THEN [tokens[s] EXCEPT !.end = e] ELSE tokens[s]
    BY <1>2, TokenEnds
  <2>2. [tokens[t] EXCEPT !.end = e].end = e
        /\ [tokens[t] EXCEPT !.end = e].from = tokens[t].from
    BY <1>0 DEF RefreshToken
  <2> QED BY <1>2, <2>1, <2>2
<1>3. ASSUME NEW h \in Handlers, Revoke(h)
      PROVE  /\ DOMAIN tokens' = DOMAIN tokens
             /\ \A t \in DOMAIN tokens :
                  /\ tokens'[t].from = tokens[t].from
                  /\ \/ tokens'[t].end = tokens[t].end
                     \/ tokens[t].end = "live" /\ tokens'[t].end # "live"
  <2>1. job[h].token \in DOMAIN tokens
    BY <1>3, RowTypes DEF Revoke, Refs, At
  <2>2. CASE tokens[job[h].token].end = "live"
    BY <1>2, <1>3, <2>1, <2>2 DEF Revoke
  <2>3. CASE tokens[job[h].token].end # "live"
    <3>1. tokens' = [tokens EXCEPT ![job[h].token].end = tokens[job[h].token].end]
      BY <1>3, <2>3 DEF Revoke
    <3> QED BY <1>0, <2>1, <2>3, <3>1 DEF RefreshToken
  <2> QED BY <2>2, <2>3
<1>4. ASSUME NEW h \in Handlers, Consume(h)
      PROVE  /\ DOMAIN tokens' = DOMAIN tokens
             /\ \A t \in DOMAIN tokens :
                  /\ tokens'[t].from = tokens[t].from
                  /\ \/ tokens'[t].end = tokens[t].end
                     \/ tokens[t].end = "live" /\ tokens'[t].end # "live"
  <2>1. tokens' = [t \in DOMAIN tokens |->
                    IF t \in {s \in DOMAIN tokens : tokens[s].user = job[h].user}
                       /\ tokens[t].end = "live"
                    THEN [tokens[t] EXCEPT !.end = "reset"] ELSE tokens[t]]
    BY <1>4 DEF Consume, SetByLink
  <2> QED BY <1>0, <2>1 DEF RefreshToken
<1>5. ASSUME NEW h \in Handlers, Issue(h)
      PROVE  /\ DOMAIN tokens \subseteq DOMAIN tokens'
             /\ \A t \in DOMAIN tokens : tokens'[t] = tokens[t]
             /\ \A t \in DOMAIN tokens' \ DOMAIN tokens :
                  /\ t = Len(tokens) + 1 /\ tokens'[t].end = "live"
                  /\ At(h, "issue") /\ job'[h].at = "idle" /\ tokens'[t].from = job[h].token
  <2> DEFINE new == [user |-> job[h].user, end |-> "live", from |-> job[h].token,
                     era |-> job[h].era, stray |-> job[h].stray]
  <2>1. new.end = "live" /\ new.from = job[h].token /\ new \in RefreshToken
    BY DEF CoreTypes, Job, RefreshToken
  <2>2. At(h, "issue") /\ job'[h].at = "idle"
    <3>1. job'[h] = Idle /\ Idle.at = "idle"
      BY <1>5, JobNext DEF Issue, Idle
    <3> QED BY <1>5, <3>1 DEF Issue
  <2>3. tokens' = tokens \/ tokens' = Append(tokens, new)
    BY <1>5 DEF Issue
  <2> HIDE DEF new
  <2>4. CASE tokens' = Append(tokens, new)
    <3>1. /\ DOMAIN tokens = 1 .. Len(tokens) /\ DOMAIN tokens' = 1 .. Len(tokens) + 1
          /\ Len(tokens) \in Nat
          /\ \A t \in 1 .. Len(tokens) : tokens'[t] = tokens[t]
          /\ tokens'[Len(tokens) + 1] = new
      BY <2>1, <2>4 DEF CoreTypes
    <3> QED BY <2>1, <2>2, <3>1
  <2> QED BY <2>3, <2>4
<1>6. ASSUME NEW t \in DOMAIN tokens, Logout(t) \/ TokenExpires(t)
      PROVE  /\ DOMAIN tokens' = DOMAIN tokens
             /\ \A s \in DOMAIN tokens :
                  /\ tokens'[s].from = tokens[s].from
                  /\ \/ tokens'[s].end = tokens[s].end
                     \/ tokens[s].end = "live" /\ tokens'[s].end # "live"
  BY <1>2, <1>6 DEF Logout, TokenExpires
<1>7. ASSUME NEW h \in Handlers, Telling(h), ~Consume(h), ~Issue(h), ~Revoke(h)
      PROVE  tokens' = tokens
  BY <1>7 DEF Telling, Login, SsoLogin, Miss, Pass, MintLink, Refresh, UseLink, rowVars
<1>8. CASE \E l \in DOMAIN links : LinkAges(l)
  BY <1>8 DEF LinkAges
<1> QED BY <1>3, <1>4, <1>5, <1>6, <1>7, <1>8, StepKinds DEF Quiet

\* A live token that is revoked is rotated.
LEMMA RevokeRotates ==
    ASSUME CoreTypes, Refs, NEW h \in Handlers, Revoke(h), tokens[job[h].token].end = "live"
    PROVE  tokens'[job[h].token].end = "rotated"
<1>1. job[h].token \in DOMAIN tokens
  BY RowTypes DEF Revoke, Refs, At
<1>2. tokens' = [tokens EXCEPT ![job[h].token].end = "rotated"]
  BY DEF Revoke
<1>3. tokens'[job[h].token] = [tokens[job[h].token] EXCEPT !.end = "rotated"]
  BY <1>1, <1>2, TokenEnds
<1> QED BY <1>1, <1>3, RowTypes DEF RefreshToken

\* Two handlers do not revoke in one step.
LEMMA RevokesAlone ==
    ASSUME CoreTypes, NEW g \in Handlers, NEW h \in Handlers, Revoke(g), Revoke(h)
    PROVE  g = h
<1>0. job[g] \in Job /\ job[h] \in Job
  BY DEF CoreTypes
<1>1. job'[g] = [job[g] EXCEPT !.at = "issue"] /\ (g # h => job'[g] = job[g])
  BY JobNext DEF Revoke
<1> QED BY <1>0, <1>1 DEF Revoke, At, Job

LEMMA TokenInvSteps == Typed /\ TokenInv /\ [Next]_vars => TokenInv'
<1> SUFFICES ASSUME Typed, TokenInv, [Next]_vars PROVE TokenInv'
  OBVIOUS
<1>0. CoreTypes /\ Refs /\ OvertakenType
  BY DEF Typed
<1>1. ASSUME NEW g \in Handlers, At(g, "verify")' PROVE job'[g].token = 0
  BY <1>0, <1>1, WaitSteps DEF TokenInv
<1>2. ASSUME NEW g \in Handlers, NEW w \in {"revoke", "issue"}, At(g, w)'
      PROVE  job'[g].token \in 0 .. Len(tokens)
  <2>1. job[g].token \in 0 .. Len(tokens) /\ DOMAIN tokens = 1 .. Len(tokens)
        /\ Len(tokens) \in Nat
    BY <1>0, RowTypes DEF Refs
  <2> QED BY <1>0, <1>2, <2>1, WaitSteps
<1> DEFINE Good(t) ==
         /\ \A h \in Handlers : At(h, "revoke") /\ job[h].token = t => tokens[t].end = "live"
         /\ tokens[t].end # "rotated" => Issuing(t) = {} /\ Successors(t) = {}
         /\ \A s \in Successors(t) : Issuing(t) = {} /\ \A r \in Successors(t) : r = s
         /\ \A g, h \in Issuing(t) : g = h
<1>3. ASSUME NEW t \in DOMAIN tokens' \ DOMAIN tokens PROVE Good(t)'
  <2>1. t = Len(tokens) + 1 /\ Len(tokens) \in Nat /\ DOMAIN tokens = 1 .. Len(tokens)
        /\ tokens'[t].end = "live"
    BY <1>0, <1>3, TokenSteps, RowTypes
  <2>2. ASSUME NEW g \in Handlers PROVE ~((At(g, "revoke") \/ At(g, "issue")) /\ job[g].token = t)'
    BY <1>2, <2>1
  <2>3. ASSUME NEW s \in DOMAIN tokens' PROVE tokens'[s].from # t
    <3>1. CASE s \in DOMAIN tokens
      BY <1>0, <2>1, <3>1, TokenSteps DEF Refs
    <3>2. CASE s \notin DOMAIN tokens
      BY <1>0, <2>1, <3>2, TokenSteps DEF Refs
    <3> QED BY <3>1, <3>2
  <2> QED BY <2>1, <2>2, <2>3 DEF Issuing, Successors
<1>4. ASSUME NEW t \in DOMAIN tokens, t \notin overtaken'.tokens PROVE Good(t)'
  <2>1. Good(t) /\ t # 0
    BY <1>0, <1>4, OvertakenNext, RowTypes DEF TokenInv
  <2>2. \/ tokens'[t].end = tokens[t].end
        \/ tokens[t].end = "live" /\ tokens'[t].end # "live"
    BY <1>0, TokenSteps
  <2>3. ASSUME NEW g \in Handlers, At(g, "revoke")', job'[g].token = t
        PROVE  tokens'[t].end = "live"
    <3>1. CASE At(g, "revoke") /\ job'[g].token = job[g].token
      BY <1>0, <1>4, <2>1, <2>3, <3>1, OvertakenNext
    <3>2. CASE Refresh(g, t)
      BY <3>2 DEF Refresh, rowVars
    <3> QED BY <1>0, <2>3, <3>1, <3>2, WaitSteps
  \* Who comes to issue the successor of t has just revoked it.
  <2>4. ASSUME NEW g \in Handlers, At(g, "issue")', job'[g].token = t
        PROVE  \/ At(g, "issue") /\ job[g].token = t
               \/ Revoke(g) /\ tokens[t].end = "live" /\ tokens'[t].end = "rotated"
    <3>1. CASE Revoke(g) /\ job'[g].token = job[g].token
      BY <1>0, <2>1, <2>4, <3>1, RevokeRotates DEF Revoke
    <3>2. CASE Pass(g) /\ job'[g].token = job[g].token
      BY <2>1, <2>4, <3>2 DEF Pass, TokenInv
    <3> QED BY <1>0, <2>1, <2>4, <3>1, <3>2, WaitSteps
  \* A successor of t that is new is made by who was issuing it.
  <2>5. ASSUME NEW s \in Successors(t)'
        PROVE  \/ s \in Successors(t)
               \/ /\ s = Len(tokens) + 1
                  /\ \E h \in Issuing(t) : job'[h].at = "idle"
    BY <1>0, <2>5, TokenSteps DEF Successors, Issuing
  <2>6. CASE tokens[t].end # "rotated"
    <3>1. Issuing(t) = {} /\ Successors(t) = {}
      BY <2>1, <2>6
    <3>2. Successors(t)' = {}
      BY <2>5, <3>1
    <3>3. tokens'[t].end # "rotated" => Issuing(t)' = {}
      BY <2>4, <3>1 DEF Issuing
    <3>4. \A g, h \in Issuing(t)' : g = h
      BY <1>0, <2>4, <3>1, RevokesAlone DEF Issuing
    <3> QED BY <2>3, <3>2, <3>3, <3>4
  <2>7. CASE tokens[t].end = "rotated"
    <3>1. tokens'[t].end = "rotated"
      BY <2>2, <2>7
    <3>2. \A g \in Issuing(t)' : g \in Issuing(t)
      BY <2>4, <2>7 DEF Issuing
    <3>3. \A g, h \in Issuing(t)' : g = h
      BY <2>1, <3>2
    <3>4. ASSUME NEW s \in Successors(t)'
          PROVE  Issuing(t)' = {} /\ \A r \in Successors(t)' : r = s
      <4>1. CASE Issuing(t) = {}
        BY <2>1, <2>5, <3>2, <3>4, <4>1
      <4>2. CASE Issuing(t) # {}
        <5>1. Successors(t) = {}
          BY <2>1, <4>2
        <5>2. s = Len(tokens) + 1 /\ \A r \in Successors(t)' : r = s
          BY <2>5, <3>4, <5>1
        <5>3. PICK h \in Issuing(t) : job'[h].at = "idle"
          BY <2>5, <3>4, <5>1
        <5>4. \A g \in Issuing(t) : g = h
          BY <2>1, <5>3
        <5>5. h \notin Issuing(t)'
          BY <5>3 DEF Issuing, At
        <5> QED BY <3>2, <5>2, <5>4, <5>5
      <4> QED BY <4>1, <4>2
    <3> QED BY <2>3, <3>1, <3>3, <3>4
  <2> QED BY <2>6, <2>7
<1> HIDE DEF Good
<1>5. \A t \in DOMAIN tokens' \ overtaken'.tokens : Good(t)'
  BY <1>3, <1>4
<1> QED BY <1>1, <1>5 DEF TokenInv, Good, At

\* A link is spent by who consumes it, which uses it; a new one is unspent.
LEMMA LinkSteps ==
    ASSUME CoreTypes, Refs, [Next]_vars
    PROVE  /\ \A l \in DOMAIN links :
                \/ /\ links'[l].spent = links[l].spent
                   /\ links'[l].used = links[l].used
                \/ \E h \in Handlers : /\ At(h, "consume") /\ job[h].link = l
                                       /\ job'[h].at = "idle"
                                       /\ links'[l].spent = links[l].spent + 1
                                       /\ links'[l].used
           /\ \A l \in DOMAIN links' \ DOMAIN links :
                l = Len(links) + 1 /\ links'[l].spent = 0 /\ ~links'[l].used
<1>0. /\ \A l \in DOMAIN links : links[l] \in ResetLink
      /\ DOMAIN links = 1 .. Len(links) /\ Len(links) \in Nat
  BY RowTypes
<1>1. CASE links' = links
  BY <1>1
<1>2. ASSUME NEW h \in Handlers, MintLink(h)
      PROVE  /\ \A l \in DOMAIN links : links'[l] = links[l]
             /\ \A l \in DOMAIN links' \ DOMAIN links :
                  l = Len(links) + 1 /\ links'[l].spent = 0 /\ ~links'[l].used
  <2> DEFINE new == [user |-> job[h].user, used |-> FALSE, age |-> "recent", spent |-> 0]
  <2>1. new \in ResetLink /\ new.spent = 0 /\ ~new.used
    BY DEF CoreTypes, Job, ResetLink
  <2>2. links' = links \/ links' = Append(links, new)
    BY <1>2 DEF MintLink
  <2> HIDE DEF new
  <2>3. CASE links' = Append(links, new)
    <3>1. /\ DOMAIN links' = 1 .. Len(links) + 1
          /\ \A l \in 1 .. Len(links) : links'[l] = links[l]
          /\ links'[Len(links) + 1] = new
      BY <2>1, <2>3 DEF CoreTypes
    <3> QED BY <1>0, <2>1, <3>1
  <2> QED BY <2>2, <2>3
<1>3. ASSUME NEW h \in Handlers, Consume(h)
      PROVE  /\ DOMAIN links' = DOMAIN links
             /\ \A l \in DOMAIN links :
                  \/ links'[l] = links[l]
                  \/ /\ At(h, "consume") /\ job[h].link = l
                     /\ job'[h].at = "idle"
                     /\ links'[l].spent = links[l].spent + 1
                     /\ links'[l].used
  <2> DEFINE k == job[h].link
             row == [links[k] EXCEPT !.used = TRUE, !.spent = links[k].spent + 1]
  <2>1. k \in DOMAIN links /\ At(h, "consume")
    BY <1>0, <1>3 DEF Consume, SetByLink, Refs, At
  <2>2. links' = [links EXCEPT ![k] = row]
    BY <1>3 DEF Consume, SetByLink
  <2>3. row.used /\ row.spent = links[k].spent + 1
    BY <1>0, <2>1 DEF ResetLink
  <2>4. job'[h].at = "idle"
    <3>1. job'[h] = Idle /\ Idle.at = "idle"
      BY <1>3 DEF Consume, SetByLink, Idle
    <3> QED BY <3>1
  <2> HIDE DEF row
  <2> QED BY <2>1, <2>2, <2>3, <2>4
<1>4. ASSUME NEW l \in DOMAIN links, LinkAges(l)
      PROVE  /\ DOMAIN links' = DOMAIN links
             /\ \A k \in DOMAIN links : /\ links'[k].spent = links[k].spent
                                        /\ links'[k].used = links[k].used
  <2> DEFINE row == [links[l] EXCEPT !.age = IF @ = "recent" THEN "valid" ELSE "expired"]
  <2>1. links' = [links EXCEPT ![l] = row]
    BY <1>4 DEF LinkAges
  <2>2. row.spent = links[l].spent /\ row.used = links[l].used
    BY <1>0 DEF ResetLink
  <2> HIDE DEF row
  <2> QED BY <2>1, <2>2
<1>5. ASSUME NEW h \in Handlers, Telling(h), ~Consume(h), ~MintLink(h)
      PROVE  links' = links
  BY <1>5 DEF Telling, Login, SsoLogin, Miss, Pass, Issue, Revoke, Refresh, UseLink, rowVars
<1>6. ASSUME NEW t \in DOMAIN tokens, Logout(t) \/ TokenExpires(t)
      PROVE  links' = links
  BY <1>6 DEF Logout, TokenExpires
<1> QED BY <1>1, <1>2, <1>3, <1>4, <1>5, <1>6, StepKinds DEF Quiet

LEMMA LinkInvSteps == Typed /\ LinkInv /\ [Next]_vars => LinkInv'
<1> SUFFICES ASSUME Typed, LinkInv, [Next]_vars,
                    NEW l \in DOMAIN links' \ overtaken'.links
             PROVE  /\ links'[l].spent <= 1
                    /\ ~links'[l].used => links'[l].spent = 0
                    /\ \A h \in Handlers : At(h, "consume")' /\ job'[h].link = l
                                              => links'[l].spent = 0
  BY DEF LinkInv, At
<1>0. CoreTypes /\ Refs /\ OvertakenType
  BY DEF Typed
<1>1. ASSUME NEW h \in Handlers, At(h, "consume")'
      PROVE  \/ At(h, "consume") /\ job'[h].link = job[h].link
             \/ \E k \in DOMAIN links : UseLink(h, k) /\ job'[h].link = k
  BY <1>0, <1>1, WaitSteps
<1>2. CASE l \notin DOMAIN links
  <2>1. l = Len(links) + 1 /\ links'[l].spent = 0 /\ DOMAIN links = 1 .. Len(links)
        /\ Len(links) \in Nat
    BY <1>0, <1>2, LinkSteps, RowTypes
  <2> QED BY <2>1
<1>3. CASE l \in DOMAIN links
  <2>1. /\ links[l].spent <= 1 /\ links[l].spent \in Nat
        /\ ~links[l].used => links[l].spent = 0
        /\ \A h \in Handlers : At(h, "consume") /\ job[h].link = l => links[l].spent = 0
    BY <1>0, <1>3, OvertakenNext, RowTypes DEF LinkInv, ResetLink
  <2>2. links'[l].spent <= 1 /\ (~links'[l].used => links'[l].spent = 0)
    BY <1>0, <1>3, <2>1, LinkSteps
  <2>3. ASSUME NEW h \in Handlers, At(h, "consume")', job'[h].link = l
        PROVE  links'[l].spent = 0
    <3>1. CASE At(h, "consume") /\ job'[h].link = job[h].link
      <4>1. links[job[h].link].spent = links'[job'[h].link].spent
        BY <1>0, <2>3, <3>1, OvertakenNext
      <4> QED BY <2>1, <2>3, <3>1, <4>1
    <3>2. CASE UseLink(h, l)
      BY <2>1, <3>2 DEF UseLink, rowVars
    <3> QED BY <1>1, <2>3, <3>1, <3>2
  <2> QED BY <2>2, <2>3
<1> QED BY <1>2, <1>3

\* However renewals, logouts and resets interleave, a token that nobody overtook
\* has one successor at most, and a link that nobody overtook sets one password.
THEOREM SpentHolds == Spec => []SpentOnce
<1>1. Init => TokenInv /\ LinkInv
  BY DEF Init, TokenInv, LinkInv, At, Idle
<1>2. TokenInv /\ LinkInv => SpentOnce
  <2> SUFFICES ASSUME TokenInv, NEW t \in DOMAIN tokens \ overtaken.tokens
               PROVE  Cardinality(Successors(t)) <= IF tokens[t].end = "rotated" THEN 1 ELSE 0
    BY DEF SpentOnce, LinkInv, Successors
  <2>1. CASE Successors(t) = {}
    BY <2>1, FS_EmptySet
  <2>2. CASE Successors(t) # {}
    <3>1. PICK s \in Successors(t) : TRUE
      BY <2>2
    <3>2. Successors(t) = {s}
      BY <3>1 DEF TokenInv
    <3>3. Cardinality(Successors(t)) = 1
      BY <3>2, FS_Singleton
    <3> QED BY <2>2, <3>3 DEF TokenInv
  <2> QED BY <2>1, <2>2
<1> QED BY <1>1, <1>2, InitTypes, StepTypes, TokenInvSteps, LinkInvSteps, PTL DEF Spec
=============================================================================
