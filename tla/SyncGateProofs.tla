--------------------------- MODULE SyncGateProofs ---------------------------
(***************************************************************************)
(* What SyncGate keeps for any number of requests, rounds, checks and      *)
(* edits: a request is asked about once per cooldown, and a vendor that    *)
(* failed is left alone for the rest of the round.                         *)
(***************************************************************************)
EXTENDS SyncGate, FiniteSetTheorems, SequenceTheorems, WellFoundedInduction, TLAPS

\* A request that was asked about is cooling: this is why a second check of it,
\* however far the first has come, is throttled.
AskedInv ==
    /\ asked \in [Requests -> Nat]
    /\ \A r \in Requests : asked[r] <= 1 /\ (r \notin cooling => asked[r] = 0)

LEMMA AskedInit == Init => AskedInv
  BY DEF Init, AskedInv

LEMMA AskedStep == AskedInv /\ [Next]_vars => AskedInv'
<1> SUFFICES ASSUME AskedInv, [Next]_vars PROVE AskedInv'
  OBVIOUS
<1> USE DEF AskedInv
<1>1. ASSUME UNCHANGED <<cooling, asked>> PROVE AskedInv'
  BY <1>1
<1>2. ASSUME NEW w \in Sweeps, StartRound(w) \/ SweepStep(w)
      PROVE  UNCHANGED <<cooling, asked>>
  BY <1>2 DEF StartRound, SweepStep, SkipGraph, AskGraph, GraphRefuses, OpenGate,
     SkipServiceNow, AskServiceNow, ServiceNowRefuses, OpenServiceNowGate,
     NoteTickets, checkVars
<1>3. ASSUME NEW c \in Checks, Stamp(c) PROVE AskedInv'
  <2> DEFINE r == check[c].req
  <2>1. /\ r \notin cooling
        /\ cooling' = cooling \union {r}
        /\ asked' = [asked EXCEPT ![r] = @ + 1]
    BY <1>3 DEF Stamp
  <2> HIDE DEF r
  <2>2. asked' \in [Requests -> Nat]
    <3>1. \A q \in Requests : asked'[q] \in {asked[q], asked[q] + 1}
      BY <2>1
    <3>2. asked' = [q \in Requests |-> asked'[q]]
      BY <2>1
    <3> QED
      BY <3>1, <3>2
  <2>3. ASSUME NEW q \in Requests
        PROVE  asked'[q] <= 1 /\ (q \notin cooling' => asked'[q] = 0)
    <3>1. CASE q = r
      BY <2>1, <3>1
    <3>2. CASE q # r
      BY <2>1, <3>2
    <3> QED
      BY <3>1, <3>2
  <2> QED
    BY <2>2, <2>3
<1>4. ASSUME NEW c \in Checks, Throttled(c) \/ CheckGraph(c) \/ CheckOpens(c)
      PROVE  UNCHANGED <<cooling, asked>>
  BY <1>4 DEF Throttled, CheckGraph, CheckOpens
<1>5. ASSUME OperatorStep \/ (\E e \in Edits : WriteEdit(e))
      PROVE  UNCHANGED <<cooling, asked>>
  BY <1>5 DEF OperatorStep, StartCheck, StartEdit, MarkSynced, Settle, WriteEdit,
     checkVars
<1>6. ASSUME NEW r \in Requests, CoolDown(r) PROVE AskedInv'
  BY <1>6 DEF CoolDown
<1>7. ASSUME \/ \E p \in Joiners : JoinGraph(p) \/ JoinServiceNow(p)
             \/ \E s \in Breakable : Toggle(s)
             \/ Boot
      PROVE  UNCHANGED <<cooling, asked>>
  BY <1>7 DEF JoinGraph, JoinServiceNow, Toggle, Boot, checkVars
<1>8. CASE Crash
  BY <1>8 DEF Crash
<1>9. CASE UNCHANGED vars
  BY <1>1, <1>9 DEF vars, checkVars
<1> QED
  BY <1>1, <1>2, <1>3, <1>4, <1>5, <1>6, <1>7, <1>8, <1>9
  DEF Next, CheckStep, WorldStep

\* An operator, or several of them, cost Entra one on-demand lookup of a request per
\* cooldown, also when the lookup fails.  The reason is that check() stamps the
\* cooldown before it calls Graph.
THEOREM AskedOnceAlways == Spec => []AskedOnce
<1>1. AskedInv => AskedOnce
  BY DEF AskedInv, AskedOnce
<1> QED
  BY <1>1, AskedInit, AskedStep, PTL DEF Spec

-----------------------------------------------------------------------------
Fields == {"at", "todo", "graphDown", "snowDown", "graphRefused", "snowRefused"}

\* A vendor that failed this round is marked down, and marks are not taken back.
RoundOK(x) ==
    /\ DOMAIN x = Fields
    /\ x.graphDown \in BOOLEAN /\ x.snowDown \in BOOLEAN
    /\ x.graphRefused \in {0, 1} /\ x.snowRefused \in {0, 1}
    /\ x.graphRefused = 1 => x.graphDown
    /\ x.snowRefused = 1 => x.snowDown

RefusalInv ==
    /\ DOMAIN sweep = Sweeps
    /\ \A w \in Sweeps : RoundOK(sweep[w])

LEMMA NoRoundOK == RoundOK(NoRound)
  BY DEF RoundOK, NoRound, Fields

\* Setting a round to one that is in order keeps all of them in order.
LEMMA SetKeeps ==
  ASSUME RefusalInv, NEW w \in Sweeps, NEW x, RoundOK(x), Set(w, x)
  PROVE  RefusalInv'
  BY DEF RefusalInv, Set

LEMMA AdvanceKeeps ==
  ASSUME RefusalInv, NEW w \in Sweeps, NEW x, RoundOK(x), Advance(w, x)
  PROVE  RefusalInv'
<1> DEFINE next == [x EXCEPT !.at = "azure", !.todo = Tail(@)]
<1>1. RoundOK(next)
  BY DEF RoundOK, Fields
<1>2. Set(w, NoRound) \/ Set(w, next)
  BY DEF Advance
<1> QED
  BY <1>1, <1>2, NoRoundOK, SetKeeps

LEMMA StepKeeps ==
  ASSUME RefusalInv, NEW w \in Sweeps, NEW where, Step(w, where)
  PROVE  RefusalInv'
<1>1. RoundOK([sweep[w] EXCEPT !.at = where])
  BY DEF RefusalInv, RoundOK, Fields
<1> QED
  BY <1>1, SetKeeps DEF Step

LEMMA SweepKeeps ==
  ASSUME RefusalInv, NEW w \in Sweeps, StartRound(w) \/ SweepStep(w)
  PROVE  RefusalInv'
<1>1. RoundOK(sweep[w])
  BY DEF RefusalInv
<1>2. CASE StartRound(w)
  <2> DEFINE x == [NoRound EXCEPT !.at = "azure",
                     !.todo = [i \in DOMAIN Candidates |-> Snapshot(Candidates[i])]]
  <2>1. RoundOK(x)
    BY NoRoundOK DEF RoundOK, Fields
  <2> QED
    BY <1>2, <2>1, SetKeeps DEF StartRound
<1>3. CASE SkipGraph(w) \/ AskGraph(w)
  BY <1>3, StepKeeps DEF SkipGraph, AskGraph
<1>4. CASE GraphRefuses(w)
  <2> DEFINE x == [sweep[w] EXCEPT !.at = "servicenow", !.graphDown = TRUE,
                     !.graphRefused = @ + 1]
  <2>1. sweep[w].graphRefused = 0
    BY <1>1, <1>4 DEF RoundOK, GraphRefuses
  <2>2. RoundOK(x)
    BY <1>1, <2>1 DEF RoundOK, Fields
  <2> QED
    BY <1>4, <2>2, SetKeeps DEF GraphRefuses
<1>5. CASE OpenGate(w)
  <2> DEFINE x == [sweep[w] EXCEPT !.at = "servicenow", !.graphDown = TRUE]
  <2>1. RoundOK(x)
    BY <1>1 DEF RoundOK, Fields
  <2>2. Step(w, "servicenow") \/ Set(w, x)
    BY <1>5 DEF OpenGate
  <2> QED
    BY <2>1, <2>2, SetKeeps, StepKeeps
<1>6. CASE SkipServiceNow(w) \/ AskServiceNow(w)
  <2>1. Advance(w, sweep[w]) \/ Step(w, "openServiceNow")
    BY <1>6 DEF SkipServiceNow, AskServiceNow
  <2> QED
    BY <1>1, <2>1, AdvanceKeeps, StepKeeps
<1>7. CASE ServiceNowRefuses(w)
  <2> DEFINE x == [sweep[w] EXCEPT !.snowDown = TRUE, !.snowRefused = @ + 1]
  <2>1. sweep[w].snowRefused = 0
    BY <1>1, <1>7 DEF RoundOK, ServiceNowRefuses
  <2>2. RoundOK(x)
    BY <1>1, <2>1 DEF RoundOK, Fields
  <2> QED
    BY <1>7, <2>2, AdvanceKeeps DEF ServiceNowRefuses
<1>8. CASE OpenServiceNowGate(w)
  <2> DEFINE x == [sweep[w] EXCEPT !.snowDown = TRUE]
  <2>1. RoundOK(x)
    BY <1>1 DEF RoundOK, Fields
  <2>2. Step(w, "notes") \/ Advance(w, x)
    BY <1>8 DEF OpenServiceNowGate
  <2> QED
    BY <2>1, <2>2, AdvanceKeeps, StepKeeps
<1>9. CASE NoteTickets(w)
  <2> DEFINE x == [sweep[w] EXCEPT !.snowDown = @ \/ "db" \notin up]
  <2>1. RoundOK(x)
    BY <1>1 DEF RoundOK, Fields
  <2> QED
    BY <1>9, <2>1, AdvanceKeeps DEF NoteTickets
<1> QED
  BY <1>2, <1>3, <1>4, <1>5, <1>6, <1>7, <1>8, <1>9 DEF SweepStep

LEMMA RefusalInit == Init => RefusalInv
  BY NoRoundOK DEF Init, RefusalInv

LEMMA RefusalStep == RefusalInv /\ [Next]_vars => RefusalInv'
<1> SUFFICES ASSUME RefusalInv, [Next]_vars PROVE RefusalInv'
  OBVIOUS
<1>1. ASSUME UNCHANGED sweep PROVE RefusalInv'
  BY <1>1 DEF RefusalInv
<1>2. ASSUME NEW c \in Checks, CheckStep(c) PROVE UNCHANGED sweep
  BY <1>2 DEF CheckStep, Throttled, Stamp, CheckGraph, CheckOpens
<1>3. ASSUME OperatorStep \/ (\E e \in Edits : WriteEdit(e)) PROVE UNCHANGED sweep
  BY <1>3 DEF OperatorStep, StartCheck, StartEdit, MarkSynced, Settle, WriteEdit
<1>4. ASSUME WorldStep \/ Boot PROVE UNCHANGED sweep
  BY <1>4 DEF WorldStep, CoolDown, JoinGraph, JoinServiceNow, Toggle, Boot
<1>5. CASE Crash
  BY <1>5, NoRoundOK DEF Crash, RefusalInv
<1>6. CASE UNCHANGED vars
  BY <1>1, <1>6 DEF vars
<1> QED
  BY <1>1, <1>2, <1>3, <1>4, <1>5, <1>6, SweepKeeps DEF Next

\* In a round of the sweep each vendor fails at most once: the round stops asking it,
\* and neither the other vendor's outage nor a restart clears the flag within the
\* round.
THEOREM OneRefusalAlways == Spec => []OneRefusalPerRound
<1>1. RefusalInv => OneRefusalPerRound
  BY DEF RefusalInv, RoundOK, OneRefusalPerRound
<1> QED
  BY <1>1, RefusalInit, RefusalStep, PTL DEF Spec

-----------------------------------------------------------------------------
(* The batch of a round.  A candidate's place in it is the number of           *)
(* candidates that are no younger, so the first thing to show is that every    *)
(* number up to their total is the place of one of them.                       *)

LEMMA LeastNatural ==
  ASSUME NEW S \in SUBSET Nat, S # {}
  PROVE  \E m \in S : \A k \in S : ~(k < m)
<1> DEFINE less == OpToRel(<, Nat)
<1>1. IsWellFoundedOn(less, Nat)
  BY NatLessThanWellFounded
<1>2. \A x, y \in Nat : x < y => <<x, y>> \in less
  BY DEF OpToRel
<1> HIDE DEF less
<1>3. \E m \in S : \A k \in S : ~(<<k, m>> \in less)
  BY <1>1, WFMin
<1> QED
  BY <1>2, <1>3

OldestCandidates(i) == {j \in 1..i : Candidate(Order[j])}

LEMMA AmongType ==
  ASSUME NEW i \in Nat
  PROVE  IsFiniteSet(OldestCandidates(i)) /\ Among(i) \in Nat
<1>1. IsFiniteSet(1..i) /\ OldestCandidates(i) \in SUBSET (1..i)
  BY FS_Interval DEF OldestCandidates
<1>2. IsFiniteSet(OldestCandidates(i))
  BY <1>1, FS_Subset
<1> QED
  BY <1>2, FS_CardinalityType DEF Among, OldestCandidates

\* A candidate adds one to the count, another request nothing.
LEMMA AmongNext ==
  ASSUME NEW i \in Nat
  PROVE  Among(i + 1) = IF Candidate(Order[i + 1]) THEN Among(i) + 1 ELSE Among(i)
<1>1. OldestCandidates(i + 1) = IF Candidate(Order[i + 1])
                                THEN OldestCandidates(i) \union {i + 1}
                                ELSE OldestCandidates(i)
  <2>1. 1..(i + 1) = (1..i) \union {i + 1}
    OBVIOUS
  <2> QED
    BY <2>1 DEF OldestCandidates
<1>2. i + 1 \notin OldestCandidates(i)
  BY DEF OldestCandidates
<1> QED
  BY <1>1, <1>2, AmongType, FS_AddElement DEF Among, OldestCandidates

\* No two candidates have the same place.
LEMMA AmongGrows ==
  ASSUME NEW i \in Nat, NEW j \in Nat, i < j, Candidate(Order[j])
  PROVE  Among(i) < Among(j)
<1>1. OldestCandidates(i) \in SUBSET OldestCandidates(j)
  BY DEF OldestCandidates
<1>2. j \in OldestCandidates(j) /\ j \notin OldestCandidates(i)
  BY DEF OldestCandidates
<1>3. Among(i) <= Among(j) /\ (Among(j) = Among(i) => FALSE)
  BY <1>1, <1>2, AmongType, FS_Subset DEF Among, OldestCandidates
<1> QED
  BY <1>3, AmongType

\* Every place up to the last one is taken.
LEMMA PlaceTaken ==
  ASSUME NEW n \in 1..Among(Len(Order))
  PROVE  \E i \in DOMAIN Order : Candidate(Order[i]) /\ Among(i) = n
<1> DEFINE S == {i \in Nat : Among(i) >= n}
<1>0. Len(Order) \in Nat /\ DOMAIN Order = 1..Len(Order)
  BY GateAssumption, LenProperties
<1>1. Len(Order) \in S /\ S \in SUBSET Nat /\ n \in Nat /\ n >= 1
  BY <1>0, AmongType
<1>2. PICK i \in S : \A k \in S : ~(k < i)
  BY <1>1, LeastNatural
<1>3. Among(0) = 0
  <2>1. OldestCandidates(0) = {}
    BY DEF OldestCandidates
  <2> QED
    BY <2>1, FS_EmptySet DEF Among, OldestCandidates
<1>4. i \in Nat /\ i # 0 /\ i - 1 \in Nat /\ i <= Len(Order)
  BY <1>0, <1>1, <1>2, <1>3
<1>5. Among(i - 1) \in Nat /\ Among(i) \in Nat /\ Among(i) >= n
  BY <1>2, <1>4, AmongType
<1>6. Among(i - 1) < n
  <2>1. i - 1 \notin S
    BY <1>2, <1>4
  <2> QED
    BY <2>1, <1>1, <1>4, <1>5
<1>7. Among(i) = IF Candidate(Order[i]) THEN Among(i - 1) + 1 ELSE Among(i - 1)
  <2>1. (i - 1) + 1 = i
    BY <1>4
  <2> QED
    BY <2>1, <1>4, AmongNext
<1>8. Candidate(Order[i]) /\ Among(i) = n
  BY <1>1, <1>5, <1>6, <1>7
<1> QED
  BY <1>0, <1>4, <1>8

BatchSize == IF Among(Len(Order)) < Batch THEN Among(Len(Order)) ELSE Batch

\* Where the n-th of the batch stands in Order.
LEMMA Placed ==
  /\ BatchSize \in Nat /\ BatchSize <= Batch
  /\ BatchSize = Among(Len(Order)) \/ BatchSize = Batch
  /\ DOMAIN Candidates = 1..BatchSize
  /\ \A n \in 1..BatchSize : \E i \in DOMAIN Order :
        Candidates[n] = Order[i] /\ Candidate(Order[i]) /\ Among(i) = n
<1>0. /\ Batch \in Nat /\ Len(Order) \in Nat
      /\ Among(Len(Order)) \in Nat
  BY GateAssumption, LenProperties, AmongType
<1>1. /\ BatchSize \in Nat /\ BatchSize <= Batch /\ BatchSize <= Among(Len(Order))
      /\ BatchSize = Among(Len(Order)) \/ BatchSize = Batch
      /\ DOMAIN Candidates = 1..BatchSize
  BY <1>0 DEF Candidates, BatchSize
<1>2. ASSUME NEW n \in 1..BatchSize
      PROVE  \E i \in DOMAIN Order :
                Candidates[n] = Order[i] /\ Candidate(Order[i]) /\ Among(i) = n
  <2> DEFINE P(i) == Candidate(Order[i]) /\ Among(i) = n
             at == CHOOSE i \in DOMAIN Order : P(i)
  <2>1. n \in 1..Among(Len(Order))
    BY <1>0, <1>1
  <2>2. \E i \in DOMAIN Order : P(i)
    BY <2>1, PlaceTaken
  <2>3. Candidates[n] = Order[at]
    BY DEF Candidates, BatchSize
  <2>4. at \in DOMAIN Order /\ P(at)
    <3> HIDE DEF P
    <3> QED BY <2>2
  <2> HIDE DEF at
  <2> QED BY <2>3, <2>4
<1> QED
  BY <1>1, <1>2

\* findCandidates: the batch of a round holds candidates only, at most SYNC_SWEEP_BATCH of
\* them, and it is full of older ones when it leaves a candidate out: no request is passed
\* over by a younger one, in any state and for any batch size.
THEOREM SweepTakesTheOldest ==
  /\ Candidates \in Seq(Requests) /\ Len(Candidates) <= Batch
  /\ \A n \in DOMAIN Candidates : Candidate(Candidates[n])
  /\ \A i \in DOMAIN Order : Candidate(Order[i]) /\ ~InBatch(Order[i]) =>
        /\ Len(Candidates) = Batch
        /\ \A n \in DOMAIN Candidates : \E j \in DOMAIN Order :
              j < i /\ Order[j] = Candidates[n]
<1>0. /\ Len(Order) \in Nat /\ DOMAIN Order = 1..Len(Order)
      /\ \A i \in DOMAIN Order : Order[i] \in Requests
      /\ Batch \in Nat
  BY GateAssumption, LenProperties, ElementOfSeq
<1>1. /\ Candidates \in [1..BatchSize -> Requests]
  <2>1. \A n \in 1..BatchSize : Candidates[n] \in Requests
    BY <1>0, Placed
  <2>2. Candidates = [n \in 1..BatchSize |-> Candidates[n]]
    BY DEF Candidates, BatchSize
  <2> QED
    BY <2>1, <2>2
<1>2. /\ Candidates \in Seq(Requests) /\ Len(Candidates) = BatchSize
  BY <1>1, Placed, IsASeq, LenProperties
<1>3. \A n \in DOMAIN Candidates : Candidate(Candidates[n])
  BY Placed
<1>4. ASSUME NEW i \in DOMAIN Order, Candidate(Order[i]), ~InBatch(Order[i])
      PROVE  /\ BatchSize = Batch
             /\ \A n \in DOMAIN Candidates : \E j \in DOMAIN Order :
                   j < i /\ Order[j] = Candidates[n]
  <2>1. Among(i) \in Nat /\ Among(i) >= 1 /\ i \in Nat
    <3>1. i \in Nat /\ 0 < i
      BY <1>0
    <3>2. Among(0) < Among(i) /\ Among(0) \in Nat /\ Among(i) \in Nat
      BY <3>1, <1>4, AmongGrows, AmongType
    <3> QED
      BY <3>1, <3>2
  <2>2. Among(i) > BatchSize
    <3> SUFFICES ASSUME Among(i) <= BatchSize PROVE FALSE
      BY <2>1, Placed
    <3>1. PICK k \in DOMAIN Order : /\ Candidates[Among(i)] = Order[k]
                                    /\ Candidate(Order[k]) /\ Among(k) = Among(i)
      BY <2>1, Placed
    <3>2. k = i
      <4>1. k \in Nat BY <1>0
      <4>2. ~(k < i) /\ ~(i < k)
        BY <1>4, <2>1, <3>1, <4>1, AmongGrows
      <4> QED BY <2>1, <4>1, <4>2
    <3> QED BY <1>4, <2>1, <3>1, <3>2, Placed DEF InBatch
  <2>3. BatchSize = Batch
    <3>1. Among(i) <= Among(Len(Order))
      <4>1. OldestCandidates(i) \in SUBSET OldestCandidates(Len(Order))
        BY <1>0 DEF OldestCandidates
      <4> QED BY <4>1, <1>0, AmongType, FS_Subset DEF Among, OldestCandidates
    <3>2. Among(Len(Order)) \in Nat BY <1>0, AmongType
    <3> QED BY <2>1, <2>2, <3>1, <3>2, Placed
  <2>4. ASSUME NEW n \in DOMAIN Candidates
        PROVE  \E j \in DOMAIN Order : j < i /\ Order[j] = Candidates[n]
    <3>1. PICK j \in DOMAIN Order : Candidates[n] = Order[j] /\ Among(j) = n
      BY <2>4, Placed
    <3>2. n \in Nat /\ n <= BatchSize /\ j \in Nat
      BY <2>4, <1>0, Placed
    <3>3. ~(i < j) /\ i # j
      <4>1. i < j => Among(i) < Among(j)
        <5>1. Candidate(Order[j]) BY <3>1, <1>3, <2>4
        <5> QED BY <5>1, <2>1, <3>2, AmongGrows
      <4> QED BY <4>1, <2>1, <2>2, <3>1, <3>2, Placed
    <3> QED BY <2>1, <3>1, <3>2, <3>3
  <2> QED BY <2>3, <2>4
<1> QED
  BY <1>2, <1>3, <1>4, Placed

-----------------------------------------------------------------------------
(* Type correctness.  It includes that a round under way always has a current  *)
(* candidate, so that no step of the sweep reads past the end of the batch.    *)

\* A round is well formed, and one under way has somebody to work on.
GoodRound(x) == x \in Rounds /\ (x.at # "idle" => x.todo # <<>>)

LEMMA GoodNothing == GoodRound(NoRound) /\ Nothing \in InFlight
<1>1. NoRound \in Rounds
  BY EmptySeq DEF NoRound, Rounds
<1>2. \E p : p \in People
  BY GateAssumption
<1> QED
  BY <1>1, <1>2, GateAssumption DEF GoodRound, NoRound, Nothing, InFlight

LEMMA CurrentType ==
  ASSUME TypeOK, NEW w \in Sweeps, sweep[w].at # "idle"
  PROVE  /\ sweep[w] \in Rounds /\ GoodRound(sweep[w])
         /\ Current(w) \in Items
         /\ Tail(sweep[w].todo) \in Seq(Items)
<1>1. sweep[w] \in Rounds /\ GoodRound(sweep[w])
  BY DEF TypeOK, GoodRound
<1>2. sweep[w].todo \in Seq(Items) /\ sweep[w].todo # <<>>
  BY <1>1 DEF GoodRound, Rounds
<1> QED
  BY <1>1, <1>2, HeadTailProperties DEF Current

\* A round set to a good one, or a step of it, leaves all of them good.
LEMMA SetTypes ==
  ASSUME TypeOK, NEW w \in Sweeps, NEW x, GoodRound(x), Set(w, x)
  PROVE  sweep' \in [Sweeps -> Rounds] /\ \A v \in Sweeps : GoodRound(sweep'[v])
BY DEF TypeOK, Set, GoodRound

LEMMA StepTypes ==
  ASSUME TypeOK, NEW w \in Sweeps, sweep[w].at # "idle",
         NEW where \in {"azure", "openAzure", "servicenow", "openServiceNow", "notes"},
         Step(w, where)
  PROVE  sweep' \in [Sweeps -> Rounds] /\ \A v \in Sweeps : GoodRound(sweep'[v])
<1>1. GoodRound([sweep[w] EXCEPT !.at = where])
  BY CurrentType DEF GoodRound, Rounds
<1> QED
  BY <1>1, SetTypes DEF Step

LEMMA AdvanceTypes ==
  ASSUME TypeOK, NEW w \in Sweeps, sweep[w].at # "idle",
         NEW x \in Rounds, x.todo = sweep[w].todo, Advance(w, x)
  PROVE  sweep' \in [Sweeps -> Rounds] /\ \A v \in Sweeps : GoodRound(sweep'[v])
<1>1. CASE Set(w, NoRound)
  BY <1>1, GoodNothing, SetTypes
<1>2. CASE ~Set(w, NoRound)
  <2> DEFINE next == [x EXCEPT !.at = "azure", !.todo = Tail(@)]
  <2>1. Tail(x.todo) # <<>> /\ Set(w, next)
    BY <1>2 DEF Advance
  <2>2. GoodRound(next)
    BY <2>1, CurrentType DEF GoodRound, Rounds
  <2> HIDE DEF next
  <2> QED
    BY <2>1, <2>2, SetTypes
<1> QED
  BY <1>1, <1>2

LEMMA SweepTypes ==
  ASSUME TypeOK, NEW w \in Sweeps, StartRound(w) \/ SweepStep(w)
  PROVE  TypeOK'
<1> DEFINE Good == sweep' \in [Sweeps -> Rounds] /\ \A v \in Sweeps : GoodRound(sweep'[v])
<1>0. sweep[w].at # "idle" =>
         /\ sweep[w] \in Rounds /\ Current(w) \in Items
         /\ Current(w).req \in Requests /\ Current(w).upn \in People
  BY CurrentType DEF Items
<1>1. ASSUME Good, UNCHANGED <<requestVars, worldVars, edit, checkVars>> PROVE TypeOK'
  BY <1>1 DEF TypeOK, GoodRound, requestVars, worldVars, checkVars
<1>2. CASE StartRound(w)
  <2> DEFINE todo == [i \in DOMAIN Candidates |-> Snapshot(Candidates[i])]
             x == [NoRound EXCEPT !.at = "azure", !.todo = todo]
  <2>1. Candidates # <<>> /\ Candidates \in Seq(Requests)
    BY <1>2, SweepTakesTheOldest DEF StartRound
  <2>2. \A r \in Requests : Snapshot(r) \in Items
    BY DEF TypeOK, Snapshot, SnOpen, Items
  <2>3. todo \in Seq(Items) /\ Len(todo) = Len(Candidates)
    <3>1. /\ Len(Candidates) \in Nat /\ DOMAIN Candidates = 1..Len(Candidates)
          /\ \A i \in DOMAIN Candidates : Candidates[i] \in Requests
      BY <2>1, LenProperties, ElementOfSeq
    <3>2. todo \in [1..Len(Candidates) -> Items]
      BY <2>2, <3>1
    <3> QED BY <3>1, <3>2, IsASeq, LenProperties
  <2>4. todo # <<>>
    BY <2>1, <2>3, EmptySeq
  <2> HIDE DEF todo
  <2>5. GoodRound(x)
    BY <2>3, <2>4, GoodNothing DEF GoodRound, Rounds
  <2>6. Set(w, x)
    BY <1>2 DEF StartRound, todo
  <2> HIDE DEF x
  <2>7. Good
    BY <2>5, <2>6, SetTypes
  <2> QED
    BY <1>1, <1>2, <2>7 DEF StartRound
<1>3. CASE SkipGraph(w) \/ AskGraph(w)
  BY <1>1, <1>3, StepTypes DEF SkipGraph, AskGraph
<1>4. CASE GraphRefuses(w)
  <2> DEFINE x == [sweep[w] EXCEPT !.at = "servicenow", !.graphDown = TRUE,
                     !.graphRefused = @ + 1]
  <2>1. sweep[w].at = "azure" /\ Set(w, x)
    BY <1>4 DEF GraphRefuses
  <2>2. GoodRound(x)
    <3> DEFINE n == sweep[w].graphRefused + 1
    <3>1. n \in Nat /\ sweep[w] \in Rounds /\ GoodRound(sweep[w])
      BY <2>1, CurrentType DEF Rounds
    <3>2. x = [sweep[w] EXCEPT !.at = "servicenow", !.graphDown = TRUE, !.graphRefused = n]
      BY <3>1 DEF Rounds
    <3> HIDE DEF n
    <3> QED BY <3>1, <3>2, <2>1 DEF GoodRound, Rounds
  <2> HIDE DEF x
  <2> QED
    BY <1>1, <1>4, <2>1, <2>2, SetTypes DEF GraphRefuses
<1>5. CASE OpenGate(w)
  <2> DEFINE x == [sweep[w] EXCEPT !.at = "servicenow", !.graphDown = TRUE]
  <2>1. sweep[w].at = "openAzure" /\ (Step(w, "servicenow") \/ Set(w, x))
    BY <1>5 DEF OpenGate
  <2>2. GoodRound(x)
    BY <2>1, CurrentType DEF GoodRound, Rounds
  <2> HIDE DEF x
  <2>3. Good
    BY <2>1, <2>2, SetTypes, StepTypes
  <2>4. azure' \in [Requests -> BOOLEAN]
    BY <1>0, <1>5 DEF OpenGate, TypeOK
  <2> QED
    BY <1>5, <2>3, <2>4 DEF OpenGate, TypeOK, GoodRound, worldVars, checkVars
<1>6. CASE SkipServiceNow(w) \/ AskServiceNow(w)
  <2>1. sweep[w].at = "servicenow" /\ (Advance(w, sweep[w]) \/ Step(w, "openServiceNow"))
    BY <1>6 DEF SkipServiceNow, AskServiceNow
  <2>2. Good
    BY <1>0, <2>1, AdvanceTypes, StepTypes
  <2> QED
    BY <1>1, <1>6, <2>2 DEF SkipServiceNow, AskServiceNow
<1>7. CASE ServiceNowRefuses(w)
  <2> DEFINE x == [sweep[w] EXCEPT !.snowDown = TRUE, !.snowRefused = @ + 1]
  <2>1. sweep[w].at = "servicenow" /\ Advance(w, x)
    BY <1>7 DEF ServiceNowRefuses
  <2>2. x \in Rounds /\ x.todo = sweep[w].todo
    <3> DEFINE n == sweep[w].snowRefused + 1
    <3>1. n \in Nat /\ sweep[w] \in Rounds
      BY <1>0, <2>1 DEF Rounds
    <3>2. x = [sweep[w] EXCEPT !.snowDown = TRUE, !.snowRefused = n]
      BY <3>1 DEF Rounds
    <3> HIDE DEF n
    <3> QED BY <3>1, <3>2 DEF Rounds
  <2> HIDE DEF x
  <2> QED
    BY <1>1, <1>7, <2>1, <2>2, AdvanceTypes DEF ServiceNowRefuses
<1>8. CASE OpenServiceNowGate(w)
  <2> DEFINE x == [sweep[w] EXCEPT !.snowDown = TRUE]
  <2>1. sweep[w].at = "openServiceNow" /\ (Step(w, "notes") \/ Advance(w, x))
    BY <1>8 DEF OpenServiceNowGate
  <2>2. x \in Rounds /\ x.todo = sweep[w].todo
    BY <1>0, <2>1 DEF Rounds
  <2> HIDE DEF x
  <2>3. Good
    BY <2>1, <2>2, AdvanceTypes, StepTypes
  <2>4. snUser' \in [Requests -> People \union {Nobody}]
    BY <1>0, <1>8 DEF OpenServiceNowGate, TypeOK
  <2> QED
    BY <1>8, <2>3, <2>4 DEF OpenServiceNowGate, TypeOK, GoodRound, worldVars, checkVars
<1>9. CASE NoteTickets(w)
  <2> DEFINE x == [sweep[w] EXCEPT !.snowDown = @ \/ "db" \notin up]
  <2>1. sweep[w].at = "notes" /\ Advance(w, x)
    BY <1>9 DEF NoteTickets
  <2>2. x \in Rounds /\ x.todo = sweep[w].todo
    BY <1>0, <2>1 DEF Rounds
  <2> HIDE DEF x
  <2> QED
    BY <1>1, <1>9, <2>1, <2>2, AdvanceTypes DEF NoteTickets
<1> QED
  BY <1>2, <1>3, <1>4, <1>5, <1>6, <1>7, <1>8, <1>9 DEF SweepStep

LEMMA CheckTypes ==
  ASSUME TypeOK, NEW c \in Checks, CheckStep(c)
  PROVE  TypeOK'
<1>0. check[c] \in InFlight /\ check[c].req \in Requests /\ Nothing \in InFlight
  BY GoodNothing DEF TypeOK, InFlight
<1>1. CASE Throttled(c)
  BY <1>0, <1>1 DEF TypeOK, Throttled, EndCheck, requestVars, worldVars
<1>2. CASE Stamp(c)
  <2>1. [check[c] EXCEPT !.at = "ask"] \in InFlight
    BY <1>0 DEF InFlight
  <2> QED
    BY <1>0, <1>2, <2>1 DEF TypeOK, Stamp, requestVars, worldVars
<1>3. CASE CheckGraph(c)
  <2>1. [check[c] EXCEPT !.at = "open"] \in InFlight
    BY <1>0 DEF InFlight
  <2>2. check' \in [Checks -> InFlight]
    BY <1>0, <1>3, <2>1 DEF TypeOK, CheckGraph, EndCheck
  <2> QED
    BY <1>3, <2>2 DEF TypeOK, CheckGraph, requestVars, worldVars
<1>4. CASE CheckOpens(c)
  BY <1>0, <1>4 DEF TypeOK, CheckOpens, EndCheck, worldVars
<1> QED
  BY <1>1, <1>2, <1>3, <1>4 DEF CheckStep

LEMMA EditTypes ==
  ASSUME TypeOK, NEW e \in Edits, WriteEdit(e)
  PROVE  TypeOK'
<1>1. edit[e].req \in Requests /\ edit[e].upn \in People /\ Nothing \in InFlight
  BY GoodNothing DEF TypeOK, InFlight
<1> QED
  BY <1>1 DEF TypeOK, WriteEdit, worldVars, checkVars

LEMMA OutsideTypes ==
  ASSUME TypeOK, OperatorStep \/ WorldStep \/ Crash \/ Boot
  PROVE  TypeOK'
<1>1. ASSUME NEW c \in Checks, NEW r \in Requests, StartCheck(c, r) PROVE TypeOK'
  <2>1. [at |-> "cooldown", req |-> r, upn |-> target[r]] \in InFlight
    BY DEF TypeOK, InFlight
  <2> QED
    BY <1>1, <2>1 DEF TypeOK, StartCheck, requestVars, worldVars
<1>2. ASSUME NEW e \in Edits, NEW r \in Requests, NEW p \in People, StartEdit(e, r, p)
      PROVE  TypeOK'
  <2>1. [at |-> "write", req |-> r, upn |-> p] \in InFlight
    BY DEF InFlight
  <2> QED
    BY <1>2, <2>1 DEF TypeOK, StartEdit, requestVars, worldVars, checkVars
<1>3. ASSUME NEW r \in Requests, MarkSynced(r) PROVE TypeOK'
  BY <1>3 DEF TypeOK, MarkSynced, worldVars, checkVars
<1>4. ASSUME NEW r \in Requests, Settle(r) PROVE TypeOK'
  BY <1>4 DEF TypeOK, Settle, worldVars, checkVars
<1>5. ASSUME NEW r \in Requests, CoolDown(r) PROVE TypeOK'
  BY <1>5 DEF TypeOK, CoolDown, requestVars, worldVars
<1>6. ASSUME NEW p \in Joiners, JoinGraph(p) \/ JoinServiceNow(p) PROVE TypeOK'
  BY <1>6 DEF TypeOK, JoinGraph, JoinServiceNow, requestVars, checkVars
<1>7. ASSUME NEW s \in Breakable, Toggle(s) PROVE TypeOK'
  BY <1>7, GateAssumption DEF TypeOK, Toggle, requestVars, checkVars
<1>8. CASE Crash
  BY <1>8, GoodNothing DEF TypeOK, GoodRound, Crash, requestVars
<1>9. CASE Boot
  BY <1>9 DEF TypeOK, Boot, Services, requestVars, checkVars
<1> QED
  BY <1>1, <1>2, <1>3, <1>4, <1>5, <1>6, <1>7, <1>8, <1>9 DEF OperatorStep, WorldStep

LEMMA TypeInit == Init => TypeOK
  BY GateAssumption, GoodNothing DEF Init, TypeOK, GoodRound, NoRound

LEMMA TypeStep == TypeOK /\ [Next]_vars => TypeOK'
<1> SUFFICES ASSUME TypeOK, [Next]_vars PROVE TypeOK'
  OBVIOUS
<1>1. ASSUME NEW c \in Checks, CheckStep(c) PROVE TypeOK'
  BY <1>1, CheckTypes
<1>2. ASSUME NEW e \in Edits, WriteEdit(e) PROVE TypeOK'
  BY <1>2, EditTypes
<1>3. CASE UNCHANGED vars
  BY <1>3 DEF TypeOK, vars, requestVars, worldVars, checkVars
<1> QED
  BY <1>1, <1>2, <1>3, SweepTypes, OutsideTypes DEF Next

\* Every reachable state is well typed; a round under way always has a candidate to work
\* on, whichever vendor or write failed before.
THEOREM GateTyped == Spec => []TypeOK
  BY TypeInit, TypeStep, PTL DEF Spec

-----------------------------------------------------------------------------
(* Gate 2 and its person.  An edit may correct the person after the gate was   *)
(* opened, so the sys_id can be out of date (the run gate_two_means_target     *)
(* shows it); but it is never a guess.                                         *)

\* The people ServiceNow knows exactly once.
Certain == inSnow \ Ambiguous

CertainInv ==
    /\ \A r \in Requests : SnOpen(r) => snUser[r] \in Certain
    /\ \A w \in Sweeps : sweep[w].at = "openServiceNow" => Current(w).upn \in Certain

\* Who is known once stays so: an answer does not expire before it is written.
LEMMA CertainKept ==
  ASSUME [Next]_vars
  PROVE  Certain \subseteq Certain'
BY DEF Certain, Next, StartRound, SweepStep, SkipGraph, AskGraph, GraphRefuses, OpenGate,
   SkipServiceNow, AskServiceNow, ServiceNowRefuses, OpenServiceNowGate, NoteTickets,
   CheckStep, Throttled, Stamp, CheckGraph, CheckOpens, WriteEdit, OperatorStep,
   StartCheck, StartEdit, MarkSynced, Settle, WorldStep, CoolDown, JoinGraph,
   JoinServiceNow, Toggle, Crash, Boot, vars, worldVars

\* A round that goes on elsewhere than to the write of gate 2 needs no answer.
LEMMA SetCertain ==
  ASSUME TypeOK, CertainInv, Certain \subseteq Certain', NEW w \in Sweeps, NEW x, Set(w, x),
         x.at = "openServiceNow" => Head(x.todo).upn \in Certain
  PROVE  \A v \in Sweeps : sweep'[v].at = "openServiceNow" => Current(v)'.upn \in Certain'
<1>1. sweep' = [sweep EXCEPT ![w] = x] /\ sweep \in [Sweeps -> Rounds]
  BY DEF Set, TypeOK
<1> SUFFICES ASSUME NEW v \in Sweeps, sweep'[v].at = "openServiceNow"
             PROVE  Head(sweep'[v].todo).upn \in Certain'
  BY DEF Current
<1>2. CASE v = w
  BY <1>1, <1>2
<1>3. CASE v # w
  BY <1>1, <1>3 DEF CertainInv, Current
<1> QED
  BY <1>2, <1>3

LEMMA AdvanceCertain ==
  ASSUME TypeOK, CertainInv, Certain \subseteq Certain', NEW w \in Sweeps,
         NEW x \in Rounds, Advance(w, x)
  PROVE  \A v \in Sweeps : sweep'[v].at = "openServiceNow" => Current(v)'.upn \in Certain'
<1> DEFINE next == [x EXCEPT !.at = "azure", !.todo = Tail(@)]
<1>1. next.at = "azure" /\ NoRound.at = "idle"
  BY DEF Rounds, NoRound
<1>2. Set(w, NoRound) \/ Set(w, next)
  BY DEF Advance
<1> HIDE DEF next
<1> QED
  BY <1>1, <1>2, SetCertain

LEMMA CertainStep == TypeOK /\ CertainInv /\ [Next]_vars => CertainInv'
<1> SUFFICES ASSUME TypeOK, CertainInv, [Next]_vars PROVE CertainInv'
  OBVIOUS
<1> DEFINE Answered ==
      \A v \in Sweeps : sweep'[v].at = "openServiceNow" => Current(v)'.upn \in Certain'
<1>0. Certain \subseteq Certain' /\ \A w \in Sweeps : sweep[w] \in Rounds
  BY CertainKept DEF TypeOK
<1>1. ASSUME UNCHANGED snUser, Answered PROVE CertainInv'
  BY <1>0, <1>1 DEF CertainInv, SnOpen
<1>2. ASSUME UNCHANGED <<snUser, sweep>> PROVE CertainInv'
  BY <1>0, <1>2 DEF CertainInv, SnOpen, Current
<1>3. ASSUME NEW w \in Sweeps, StartRound(w) \/ SweepStep(w) PROVE CertainInv'
  <2>0. /\ sweep[w] \in Rounds
        /\ \A where : Step(w, where) /\ where # "openServiceNow" => Answered
    <3>1. ASSUME NEW where, Step(w, where), where # "openServiceNow" PROVE Answered
      <4>1. [sweep[w] EXCEPT !.at = where].at = where
        BY <1>0 DEF Rounds
      <4> QED BY <1>0, <3>1, <4>1, SetCertain DEF Step
    <3> QED BY <1>0, <3>1
  <2>1. CASE StartRound(w)
    <3> DEFINE x == [NoRound EXCEPT !.at = "azure",
                 !.todo = [i \in DOMAIN Candidates |-> Snapshot(Candidates[i])]]
    <3>1. x.at = "azure" /\ Set(w, x) /\ UNCHANGED snUser
      BY <2>1 DEF StartRound, NoRound, requestVars
    <3> HIDE DEF x
    <3> QED BY <1>0, <1>1, <3>1, SetCertain
  <2>2. CASE SkipGraph(w) \/ AskGraph(w)
    BY <1>1, <2>0, <2>2 DEF SkipGraph, AskGraph, requestVars
  <2>3. CASE GraphRefuses(w)
    <3> DEFINE x == [sweep[w] EXCEPT !.at = "servicenow", !.graphDown = TRUE,
                       !.graphRefused = @ + 1]
    <3>1. x.at = "servicenow" /\ Set(w, x) /\ UNCHANGED snUser
      BY <2>0, <2>3 DEF GraphRefuses, Rounds, requestVars
    <3> HIDE DEF x
    <3> QED BY <1>0, <1>1, <3>1, SetCertain
  <2>4. CASE OpenGate(w)
    <3> DEFINE x == [sweep[w] EXCEPT !.at = "servicenow", !.graphDown = TRUE]
    <3>1. /\ x.at = "servicenow" /\ UNCHANGED snUser
          /\ Step(w, "servicenow") \/ Set(w, x)
      BY <2>0, <2>4 DEF OpenGate, Rounds
    <3> HIDE DEF x
    <3> QED BY <1>0, <1>1, <2>0, <3>1, SetCertain
  <2>5. CASE SkipServiceNow(w)
    BY <1>0, <1>1, <2>5, AdvanceCertain DEF SkipServiceNow, requestVars
  <2>6. CASE AskServiceNow(w)
    <3>1. CASE Current(w).upn \in Certain
      <4>1. Set(w, [sweep[w] EXCEPT !.at = "openServiceNow"]) /\ UNCHANGED snUser
        BY <2>6, <3>1 DEF AskServiceNow, Certain, Step, requestVars
      <4>2. Head([sweep[w] EXCEPT !.at = "openServiceNow"].todo).upn \in Certain
        BY <2>0, <3>1 DEF Rounds, Current
      <4> QED BY <1>0, <1>1, <4>1, <4>2, SetCertain
    <3>2. CASE Current(w).upn \notin Certain
      BY <1>0, <1>1, <2>6, <3>2, AdvanceCertain DEF AskServiceNow, Certain, requestVars
    <3> QED BY <3>1, <3>2
  <2>7. CASE ServiceNowRefuses(w)
    <3> DEFINE n == sweep[w].snowRefused + 1
               x == [sweep[w] EXCEPT !.snowDown = TRUE, !.snowRefused = n]
    <3>1. n \in Nat /\ Advance(w, x) /\ UNCHANGED snUser
      BY <2>0, <2>7 DEF ServiceNowRefuses, Rounds, requestVars
    <3> HIDE DEF n
    <3>2. x \in Rounds
      BY <2>0, <3>1 DEF Rounds
    <3> QED BY <1>0, <1>1, <3>1, <3>2, AdvanceCertain
  <2>8. CASE OpenServiceNowGate(w)
    <3>1. sweep[w].at = "openServiceNow" /\ Current(w).upn \in Certain
      BY <2>8 DEF OpenServiceNowGate, CertainInv
    <3>2. Answered
      <4> DEFINE x == [sweep[w] EXCEPT !.snowDown = TRUE]
      <4>1. x \in Rounds
        BY <2>0 DEF Rounds
      <4>2. Step(w, "notes") \/ Advance(w, x)
        BY <2>8 DEF OpenServiceNowGate
      <4> HIDE DEF x
      <4> QED BY <1>0, <2>0, <4>1, <4>2, AdvanceCertain
    <3>3. snUser' = snUser \/ snUser' = [snUser EXCEPT ![Current(w).req] = Current(w).upn]
      BY <2>8 DEF OpenServiceNowGate
    <3>4. ASSUME NEW r \in Requests, snUser'[r] # Nobody PROVE snUser'[r] \in Certain'
      BY <1>0, <3>1, <3>3, <3>4 DEF CertainInv, SnOpen, TypeOK
    <3> QED BY <3>2, <3>4 DEF CertainInv, SnOpen
  <2>9. CASE NoteTickets(w)
    <3> DEFINE x == [sweep[w] EXCEPT !.snowDown = @ \/ "db" \notin up]
    <3>1. Advance(w, x) /\ UNCHANGED snUser
      BY <2>9 DEF NoteTickets, requestVars
    <3>2. x \in Rounds
      BY <2>0 DEF Rounds
    <3> HIDE DEF x
    <3> QED BY <1>0, <1>1, <3>1, <3>2, AdvanceCertain
  <2> QED
    BY <1>3, <2>1, <2>2, <2>3, <2>4, <2>5, <2>6, <2>7, <2>8, <2>9 DEF SweepStep
<1>4. ASSUME NEW c \in Checks, CheckStep(c) PROVE CertainInv'
  BY <1>2, <1>4 DEF CheckStep, Throttled, Stamp, CheckGraph, CheckOpens, requestVars
<1>5. ASSUME OperatorStep \/ (\E e \in Edits : WriteEdit(e)) PROVE CertainInv'
  BY <1>2, <1>5 DEF OperatorStep, StartCheck, StartEdit, MarkSynced, Settle, WriteEdit,
     requestVars
<1>6. ASSUME WorldStep \/ Boot PROVE CertainInv'
  BY <1>2, <1>6 DEF WorldStep, CoolDown, JoinGraph, JoinServiceNow, Toggle, Boot, requestVars
<1>7. CASE Crash
  <2>1. Answered
    BY <1>7 DEF Crash, NoRound
  <2> QED
    BY <1>1, <1>7, <2>1 DEF Crash, requestVars
<1>8. CASE UNCHANGED vars
  BY <1>2, <1>8 DEF vars, requestVars
<1> QED
  BY <1>3, <1>4, <1>5, <1>6, <1>7, <1>8 DEF Next

\* Gate 2 never opens on a guess: the sys_id it keeps is one of a person ServiceNow knows
\* exactly once, whatever fails between the question and the write, and it stays so.
THEOREM GateTwoIsCertain ==
  Spec => [](\A r \in Requests : SnOpen(r) => snUser[r] \in Certain)
<1>1. Init => CertainInv
  BY DEF Init, CertainInv, SnOpen, NoRound
<1>2. CertainInv => \A r \in Requests : SnOpen(r) => snUser[r] \in Certain
  BY DEF CertainInv
<1> QED
  BY <1>1, <1>2, TypeInit, TypeStep, CertainStep, PTL DEF Spec

=============================================================================
