-------------------------- MODULE Admission_proofs --------------------------
(* Theorems of Admission, for every set of requests, workers, tokens and     *)
(* aliases, every limit and every plan: the limiter counts right, and a package is   *)
(* paired with its files in the only way there is.                           *)
EXTENDS Admission, Package_proofs, FiniteSetTheorems, TLAPS

-----------------------------------------------------------------------------
(* The methods of the limiter *)

\* What _active of one worker may be: principals without a slot have no entry.
IsSlots(slots) ==
  /\ DOMAIN slots \subseteq Principals
  /\ slots \in [DOMAIN slots -> 1 .. MaxSlots]

\* max(1, max_concurrent) is a positive number, whatever the setting.
LEMMA MaxSlotsPositive == MaxSlots \in Nat /\ MaxSlots >= 1
<1>1. Limit \in Int
  BY AdmissionConstants
<1>2. \E n \in {1, Limit} : \A m \in {1, Limit} : n >= m
  <2>1. CASE Limit >= 1 BY <1>1, <2>1
  <2>2. CASE Limit < 1 BY <1>1, <2>2
  <2> QED BY <1>1, <2>1, <2>2
<1>3. MaxSlots \in {1, Limit} /\ \A m \in {1, Limit} : MaxSlots >= m
  BY <1>2 DEF MaxSlots, Max
<1> QED BY <1>1, <1>3

\* What is read of a principal is a number within the limit.
LEMMA TakenBound ==
  ASSUME NEW slots, IsSlots(slots), NEW p
  PROVE  Taken(slots, p) \in 0 .. MaxSlots
BY MaxSlotsPositive DEF IsSlots, Taken

\* acquire adds one slot, to the principal it is called for.
LEMMA AcquireAddsOne ==
  ASSUME NEW slots, IsSlots(slots), NEW p \in Principals, HasRoom(slots, p)
  PROVE  /\ IsSlots(Acquired(slots, p))
         /\ \A q : Taken(Acquired(slots, p), q) = Taken(slots, q) + (IF q = p THEN 1 ELSE 0)
<1> DEFINE after == Acquired(slots, p)
<1>1. DOMAIN after = DOMAIN slots \cup {p}
  BY DEF Acquired
<1>2. ASSUME NEW q \in DOMAIN slots \cup {p}
      PROVE  after[q] = Taken(slots, q) + (IF q = p THEN 1 ELSE 0)
  BY DEF Acquired
<1>3. ASSUME NEW q \in DOMAIN slots \cup {p}
      PROVE  after[q] \in 1 .. MaxSlots
  <2>1. CASE q = p
    BY <2>1, <1>2, TakenBound, MaxSlotsPositive DEF HasRoom
  <2>2. CASE q # p
    BY <2>2, <1>2, MaxSlotsPositive DEF Taken, IsSlots
  <2> QED BY <2>1, <2>2
<1>4. after \in [DOMAIN after -> 1 .. MaxSlots]
  BY <1>1, <1>3 DEF Acquired
<1>5. IsSlots(after)
  BY <1>1, <1>4 DEF IsSlots
<1>6. ASSUME NEW q PROVE Taken(after, q) = Taken(slots, q) + (IF q = p THEN 1 ELSE 0)
  BY <1>1, <1>2, TakenBound, MaxSlotsPositive DEF Taken
<1> QED BY <1>5, <1>6

\* release takes one slot away from a principal that has one, and nothing else.
LEMMA ReleaseTakesOne ==
  ASSUME NEW slots, IsSlots(slots), NEW p, Taken(slots, p) >= 1
  PROVE  /\ IsSlots(Freed(slots, p))
         /\ \A q : Taken(Freed(slots, p), q) = Taken(slots, q) - (IF q = p THEN 1 ELSE 0)
<1>1. p \in DOMAIN slots /\ slots[p] \in 1 .. MaxSlots
  BY DEF Taken, IsSlots
<1>2. CASE Taken(slots, p) <= 1
  <2>1. Freed(slots, p) = [q \in DOMAIN slots \ {p} |-> slots[q]]
    BY <1>2 DEF Freed, Restrict
  <2>2. Taken(slots, p) = 1
    BY <1>2, TakenBound, MaxSlotsPositive
  <2>3. IsSlots(Freed(slots, p))
    BY <2>1 DEF IsSlots
  <2>4. ASSUME NEW q PROVE Taken(Freed(slots, p), q) = Taken(slots, q) - (IF q = p THEN 1 ELSE 0)
    BY <2>1, <2>2, TakenBound, MaxSlotsPositive DEF Taken
  <2> QED BY <2>3, <2>4
<1>3. CASE ~(Taken(slots, p) <= 1)
  <2>1. Freed(slots, p) = [slots EXCEPT ![p] = @ - 1]
    BY <1>3 DEF Freed
  <2>2. slots[p] - 1 \in 1 .. MaxSlots
    BY <1>1, <1>3, MaxSlotsPositive DEF Taken
  <2>3. IsSlots(Freed(slots, p))
    BY <2>1, <2>2, <1>1 DEF IsSlots
  <2>4. ASSUME NEW q PROVE Taken(Freed(slots, p), q) = Taken(slots, q) - (IF q = p THEN 1 ELSE 0)
    BY <2>1, <1>1, TakenBound, MaxSlotsPositive DEF Taken
  <2> QED BY <2>3, <2>4
<1> QED BY <1>2, <1>3

-----------------------------------------------------------------------------
(* The inductive invariant *)

Holding(w, p) == {r \in Requests : Worker(r) = w /\ p \in held[r]}

\* The plan is one of those considered, and the variables have their types.
Typed ==
  /\ plan \in Plans
  /\ DOMAIN active = Workers /\ \A w \in Workers : IsSlots(active[w])
  /\ AdmissionTypeOK

\* A request holds a slot from the middleware to its finally block, if its token
\* may upload; the route it reaches runs for the same principal.
HoldsWhileInside ==
  \A r \in Requests :
    LET t == plan[r].token IN
    /\ pc[r] \in {"new", "done"} => held[r] = {}
    /\ pc[r] \notin {"new", "done"} =>
         held[r] = IF MayUpload(t) THEN ResolvePrincipal(t) ELSE {}
    /\ pc[r] \in {"checks", "upload"} => MayUpload(t) /\ user[r] = ResolvePrincipal(t)

AdmissionInv == Typed /\ HoldsWhileInside /\ SlotsExact

\* A token stands for one principal, or for none.
LEMMA OnePrincipal ==
  ASSUME NEW t
  PROVE  /\ MayUpload(t) => \E p \in Principals : ResolvePrincipal(t) = {p}
         /\ ResolvePrincipal(t) \subseteq Principals
BY DEF MayUpload, ResolvePrincipal, Principals

\* The numbers of slots do not change when nobody takes or gives one.
LEMMA SlotsKept ==
  SlotsExact /\ UNCHANGED <<plan, active, held>> => SlotsExact'
BY DEF SlotsExact, Taken, Worker

\* Nor do the types, as long as the program counter and the answer are right.
LEMMA TypesKept ==
  ASSUME Typed, UNCHANGED <<plan, active, held>>,
         pc' \in [Requests -> Steps], answer' \in [Requests -> Answers],
         user' \in [Requests -> SUBSET Principals], failures' \subseteq Requests
  PROVE  Typed'
BY DEF Typed, AdmissionTypeOK, IsSlots, Range

\* The answers of upload_dataset before claim_dataset.
LEMMA RefusalCodes ==
  ASSUME NEW b
  PROVE  Refusal(b) \in Answers
BY DEF Refusal, Answers

\* The invariant holds when the service starts.
LEMMA InvInit == AdmissionInit => AdmissionInv
<1> SUFFICES ASSUME AdmissionInit PROVE AdmissionInv
  OBVIOUS
<1>1. IsSlots(NoSlots)
  BY DEF IsSlots, NoSlots
<1>2. Typed
  BY <1>1 DEF AdmissionInit, Typed, AdmissionTypeOK, Steps, Answers, IsSlots, NoSlots, Range
<1>3. HoldsWhileInside
  BY DEF AdmissionInit, HoldsWhileInside
<1>4. SlotsExact
  <2> SUFFICES ASSUME NEW w \in Workers, NEW p \in Principals
               PROVE  Taken(active[w], p) = Cardinality(Holding(w, p))
    BY DEF SlotsExact, Holding
  <2>1. Holding(w, p) = {}
    BY DEF AdmissionInit, Holding
  <2>2. Taken(active[w], p) = 0
    BY DEF AdmissionInit, Taken, NoSlots
  <2> QED BY <2>1, <2>2, FS_EmptySet
<1> QED BY <1>2, <1>3, <1>4 DEF AdmissionInv

\* The middleware turns a request away, lets it pass without a slot, or takes one.
LEMMA MiddlewareInv ==
  ASSUME AdmissionInv, NEW r \in Requests, Middleware(r)
  PROVE  AdmissionInv'
<1> DEFINE t == plan[r].token
           w == Worker(r)
<1>1. /\ Typed /\ HoldsWhileInside /\ SlotsExact
      /\ pc[r] = "new" /\ held[r] = {}
      /\ w \in Workers
      /\ pc \in [Requests -> Steps] /\ answer \in [Requests -> Answers]
      /\ held \in [Requests -> SUBSET Principals]
      /\ user \in [Requests -> SUBSET Principals] /\ failures \subseteq Requests
  BY AdmissionConstants
     DEF AdmissionInv, HoldsWhileInside, Typed, AdmissionTypeOK, Middleware, Worker
<1> DEFINE Passes ==
             /\ UNCHANGED <<plan, active, held, user, failures>>
             /\ \/ \E code \in {411, 413, 429, 500} : Reply(r, "done", code)
                \/ GoTo(r, "body") /\ ~MayUpload(t)
           Takes(p) ==
             /\ MayUpload(t) /\ HasRoom(active[w], p)
             /\ active' = [active EXCEPT ![w] = Acquired(active[w], p)]
             /\ held' = [held EXCEPT ![r] = {p}]
             /\ GoTo(r, "body")
             /\ UNCHANGED <<plan, user, failures>>
<1>2. Passes \/ \E p \in ResolvePrincipal(t) : Takes(p)
  BY DEF Middleware
<1>3. CASE Passes
  <2>1. /\ UNCHANGED <<plan, active, held, user, failures>>
        /\ \/ pc' = [pc EXCEPT ![r] = "done"]
           \/ pc' = [pc EXCEPT ![r] = "body"] /\ ~MayUpload(t)
        /\ \E code \in {0, 411, 413, 429, 500} : answer' = [answer EXCEPT ![r] = code]
    BY <1>3 DEF Reply, GoTo
  <2>2. Typed'
    BY <1>1, <2>1, TypesKept DEF Steps, Answers
  <2>3. HoldsWhileInside'
    BY <1>1, <2>1 DEF HoldsWhileInside
  <2> QED BY <1>1, <2>1, <2>2, <2>3, SlotsKept DEF AdmissionInv
<1>4. CASE \E p \in ResolvePrincipal(t) : Takes(p)
  <2>1. PICK p \in ResolvePrincipal(t) :
           /\ MayUpload(t) /\ HasRoom(active[w], p)
           /\ active' = [active EXCEPT ![w] = Acquired(active[w], p)]
           /\ held' = [held EXCEPT ![r] = {p}]
           /\ pc' = [pc EXCEPT ![r] = "body"]
           /\ answer' = [answer EXCEPT ![r] = 0]
           /\ UNCHANGED <<plan, user, failures>>
    BY <1>4 DEF Reply, GoTo
  <2>2. p \in Principals /\ ResolvePrincipal(t) = {p}
    BY <2>1, OnePrincipal
  <2>3. IsSlots(active[w])
    BY <1>1 DEF Typed
  <2>4. /\ IsSlots(active'[w])
        /\ \A q : Taken(active'[w], q) = Taken(active[w], q) + (IF q = p THEN 1 ELSE 0)
        /\ \A v \in Workers \ {w} : active'[v] = active[v]
        /\ DOMAIN active' = Workers
    BY <1>1, <2>1, <2>2, <2>3, AcquireAddsOne DEF Typed
  <2>5. Typed'
    <3>1. \A v \in Workers : IsSlots(active'[v])
      BY <1>1, <2>4 DEF Typed
    <3>2. AdmissionTypeOK'
      BY <1>1, <2>1, <2>2, <3>1 DEF AdmissionTypeOK, IsSlots, Steps, Answers, Range
    <3> QED BY <1>1, <2>1, <2>4, <3>1, <3>2 DEF Typed
  <2>6. HoldsWhileInside'
    BY <1>1, <2>1, <2>2 DEF HoldsWhileInside
  <2>7. SlotsExact'
    <3> SUFFICES ASSUME NEW v \in Workers, NEW q \in Principals
                 PROVE  Taken(active'[v], q) = Cardinality(Holding(v, q)')
      BY DEF SlotsExact, Holding
    <3>1. Taken(active[v], q) = Cardinality(Holding(v, q)) /\ IsFiniteSet(Holding(v, q))
      BY <1>1, FS_Subset, AdmissionConstants DEF SlotsExact, Holding
    <3>2. CASE v = w /\ q = p
      <4>1. Holding(v, q)' = Holding(v, q) \cup {r} /\ r \notin Holding(v, q)
        BY <1>1, <2>1, <3>2 DEF Holding, Worker
      <4>2. Cardinality(Holding(v, q)') = Cardinality(Holding(v, q)) + 1
        BY <3>1, <4>1, FS_AddElement
      <4>3. Taken(active'[v], q) = Taken(active[v], q) + 1
        BY <2>4, <3>2
      <4> QED BY <3>1, <4>2, <4>3
    <3>3. CASE ~(v = w /\ q = p)
      <4>1. Holding(v, q)' = Holding(v, q)
        BY <1>1, <2>1, <3>3 DEF Holding, Worker
      <4>2. IsSlots(active[v])
        BY <1>1 DEF Typed
      <4>3. Taken(active'[v], q) = Taken(active[v], q)
        BY <2>4, <3>3, <4>2, TakenBound, MaxSlotsPositive
      <4> QED BY <3>1, <4>1, <4>3
    <3> QED BY <3>2, <3>3
  <2> QED BY <2>5, <2>6, <2>7 DEF AdmissionInv
<1> QED BY <1>2, <1>3, <1>4

\* Between the middleware and its finally block slots are left alone.
LEMMA RouteInv ==
  ASSUME AdmissionInv, NEW r \in Requests,
         \/ ReceiveBody(r) \/ ClientLeaves(r)
         \/ RequireUpload(r) \/ CheckRequest(r) \/ EndUpload(r)
  PROVE  AdmissionInv'
<1> DEFINE t == plan[r].token
<1>1. /\ Typed /\ HoldsWhileInside /\ SlotsExact
      /\ pc \in [Requests -> Steps] /\ answer \in [Requests -> Answers]
      /\ user \in [Requests -> SUBSET Principals] /\ failures \subseteq Requests
  BY DEF AdmissionInv, Typed, AdmissionTypeOK
<1>2. UNCHANGED <<plan, active, held>>
  BY DEF ReceiveBody, ClientLeaves, RequireUpload, CheckRequest, EndUpload
<1>3. SlotsExact'
  BY <1>1, <1>2, SlotsKept
<1>4. ASSUME NEW step \in {"auth", "leaving"}, NEW code \in Answers,
             pc[r] \in {"body", "auth", "checks", "upload"},
             Reply(r, step, code), UNCHANGED user, failures' \subseteq Requests
      PROVE  Typed' /\ HoldsWhileInside'
  <2>1. Typed'
    BY <1>1, <1>2, <1>4, TypesKept DEF Reply, Steps
  <2>2. HoldsWhileInside'
    BY <1>1, <1>2, <1>4 DEF Reply, HoldsWhileInside
  <2> QED BY <2>1, <2>2
<1>5. CASE ReceiveBody(r) \/ ClientLeaves(r)
  BY <1>1, <1>3, <1>4, <1>5 DEF ReceiveBody, ClientLeaves, GoTo, Answers, AdmissionInv
<1>6. CASE RequireUpload(r)
  <2>1. CASE ResolvePrincipal(t) = {}
    BY <1>1, <1>3, <1>4, <1>6, <2>1 DEF RequireUpload, Answers, AdmissionInv
  <2>2. CASE ResolvePrincipal(t) # {}
    <3>1. /\ user' = [user EXCEPT ![r] = ResolvePrincipal(t)]
          /\ failures' = failures /\ pc[r] = "auth"
          /\ IF MayUpload(t) THEN Reply(r, "checks", 0) ELSE Reply(r, "leaving", 403)
      BY <1>6, <2>2 DEF RequireUpload, GoTo
    <3>2. user' \in [Requests -> SUBSET Principals]
      BY <1>1, <3>1, OnePrincipal
    <3>3. Typed'
      BY <1>1, <1>2, <3>1, <3>2, TypesKept DEF Reply, Steps, Answers
    <3>4. HoldsWhileInside'
      BY <1>1, <1>2, <3>1 DEF Reply, HoldsWhileInside
    <3> QED BY <1>3, <3>3, <3>4 DEF AdmissionInv
  <2> QED BY <2>1, <2>2
<1>7. CASE CheckRequest(r)
  <2>1. CASE Refusal(Body(r)) # 0
    BY <1>1, <1>3, <1>4, <1>7, <2>1, RefusalCodes DEF CheckRequest, AdmissionInv
  <2>2. CASE Refusal(Body(r)) = 0
    <3>1. pc[r] = "checks" /\ Reply(r, "upload", 0) /\ UNCHANGED <<user, failures>>
      BY <1>7, <2>2 DEF CheckRequest, GoTo
    <3>2. Typed'
      BY <1>1, <1>2, <3>1, TypesKept DEF Reply, Steps, Answers
    <3>3. HoldsWhileInside'
      BY <1>1, <1>2, <3>1 DEF Reply, HoldsWhileInside
    <3> QED BY <1>3, <3>2, <3>3 DEF AdmissionInv
  <2> QED BY <2>1, <2>2
<1>8. CASE EndUpload(r)
  BY <1>1, <1>3, <1>4, <1>8 DEF EndUpload, Answers, AdmissionInv
<1> QED BY <1>5, <1>6, <1>7, <1>8

\* The finally block gives back the slot that the middleware took.
LEMMA LeaveInv ==
  ASSUME AdmissionInv, NEW r \in Requests, Leave(r)
  PROVE  AdmissionInv'
<1> DEFINE t == plan[r].token
           w == Worker(r)
<1>1. /\ Typed /\ HoldsWhileInside /\ SlotsExact
      /\ pc[r] = "leaving" /\ pc' = [pc EXCEPT ![r] = "done"]
      /\ held' = [held EXCEPT ![r] = {}]
      /\ UNCHANGED <<plan, user, answer, failures>>
      /\ w \in Workers
      /\ pc \in [Requests -> Steps] /\ answer \in [Requests -> Answers]
      /\ held \in [Requests -> SUBSET Principals]
      /\ user \in [Requests -> SUBSET Principals] /\ failures \subseteq Requests
  BY AdmissionConstants DEF AdmissionInv, Typed, AdmissionTypeOK, Leave, Worker
<1>2. HoldsWhileInside'
  BY <1>1 DEF HoldsWhileInside
<1>3. CASE held[r] = {}
  <2>1. UNCHANGED <<plan, active, held>>
    BY <1>1, <1>3 DEF Leave, Released
  <2>2. Typed'
    BY <1>1, <2>1, TypesKept DEF Steps
  <2> QED BY <1>1, <1>2, <2>1, <2>2, SlotsKept DEF AdmissionInv
<1>4. CASE held[r] # {}
  <2>1. PICK p \in Principals : held[r] = {p}
    BY <1>1, <1>4, OnePrincipal DEF HoldsWhileInside
  <2>2. active' = [active EXCEPT ![w] = Freed(active[w], p)]
    BY <2>1 DEF Leave, Released
  <2>3. ASSUME NEW v \in Workers, NEW q \in Principals
        PROVE  Taken(active[v], q) = Cardinality(Holding(v, q)) /\ IsFiniteSet(Holding(v, q))
    BY <1>1, FS_Subset, AdmissionConstants DEF SlotsExact, Holding
  <2>4. r \in Holding(w, p)
    BY <2>1 DEF Holding
  <2>5. IsSlots(active[w]) /\ Taken(active[w], p) >= 1
    <3>1. Cardinality(Holding(w, p)) # 0
      BY <1>1, <2>3, <2>4, FS_EmptySet
    <3>2. IsSlots(active[w])
      BY <1>1 DEF Typed
    <3> QED BY <1>1, <2>3, <3>1, <3>2, TakenBound, MaxSlotsPositive
  <2>6. /\ IsSlots(active'[w])
        /\ \A q : Taken(active'[w], q) = Taken(active[w], q) - (IF q = p THEN 1 ELSE 0)
        /\ \A v \in Workers \ {w} : active'[v] = active[v]
        /\ DOMAIN active' = Workers
    BY <1>1, <2>2, <2>5, ReleaseTakesOne DEF Typed
  <2>7. Typed'
    <3>1. \A v \in Workers : IsSlots(active'[v])
      BY <1>1, <2>6 DEF Typed
    <3>2. AdmissionTypeOK'
      BY <1>1, <3>1 DEF AdmissionTypeOK, IsSlots, Steps, Range
    <3> QED BY <1>1, <2>6, <3>1, <3>2 DEF Typed
  <2>8. SlotsExact'
    <3> SUFFICES ASSUME NEW v \in Workers, NEW q \in Principals
                 PROVE  Taken(active'[v], q) = Cardinality(Holding(v, q)')
      BY DEF SlotsExact, Holding
    <3>1. CASE v = w /\ q = p
      <4>1. Holding(v, q)' = Holding(v, q) \ {r} /\ r \in Holding(v, q)
        BY <1>1, <2>4, <3>1 DEF Holding, Worker
      <4>2. Cardinality(Holding(v, q)') = Cardinality(Holding(v, q)) - 1
        BY <2>3, <4>1, FS_RemoveElement
      <4>3. Taken(active'[v], q) = Taken(active[v], q) - 1
        BY <2>6, <3>1
      <4> QED BY <2>3, <4>2, <4>3
    <3>2. CASE ~(v = w /\ q = p)
      <4>1. Holding(v, q)' = Holding(v, q)
        BY <1>1, <2>1, <3>2 DEF Holding, Worker
      <4>2. IsSlots(active[v])
        BY <1>1 DEF Typed
      <4>3. Taken(active'[v], q) = Taken(active[v], q)
        BY <2>6, <3>2, <4>2, TakenBound, MaxSlotsPositive
      <4> QED BY <2>3, <4>1, <4>3
    <3> QED BY <3>1, <3>2
  <2> QED BY <1>2, <2>7, <2>8 DEF AdmissionInv
<1> QED BY <1>3, <1>4

\* A kill takes the requests and the slots of one worker together.
LEMMA KillInv ==
  ASSUME AdmissionInv, NEW w \in Killable, Kill(w)
  PROVE  AdmissionInv'
<1> DEFINE lost == {r \in Requests : Worker(r) = w /\ pc[r] \notin {"new", "done"}}
<1>1. /\ Typed /\ HoldsWhileInside /\ SlotsExact
      /\ w \in Workers
      /\ pc' = [r \in Requests |-> IF r \in lost THEN "done" ELSE pc[r]]
      /\ answer' = [r \in Requests |-> IF r \in lost THEN 0 ELSE answer[r]]
      /\ held' = [r \in Requests |-> IF r \in lost THEN {} ELSE held[r]]
      /\ active' = [active EXCEPT ![w] = NoSlots]
      /\ UNCHANGED <<plan, user, failures>>
  BY AdmissionConstants DEF AdmissionInv, Kill
<1>2. /\ pc \in [Requests -> Steps] /\ answer \in [Requests -> Answers]
      /\ held \in [Requests -> SUBSET Principals]
      /\ user \in [Requests -> SUBSET Principals] /\ failures \subseteq Requests
  BY <1>1 DEF Typed, AdmissionTypeOK
<1>3. HoldsWhileInside'
  BY <1>1, <1>2 DEF HoldsWhileInside
<1>4. /\ DOMAIN active' = Workers
      /\ active'[w] = NoSlots
      /\ \A v \in Workers \ {w} : active'[v] = active[v]
  BY <1>1 DEF Typed
<1>5. Typed'
  <2>1. \A v \in Workers : IsSlots(active'[v])
    <3>1. IsSlots(NoSlots)
      BY DEF IsSlots, NoSlots
    <3> QED BY <1>1, <1>4, <3>1 DEF Typed
  <2>2. pc' \in [Requests -> Steps] /\ answer' \in [Requests -> Answers]
    BY <1>1, <1>2 DEF Steps, Answers
  <2>3. held' \in [Requests -> SUBSET Principals]
    BY <1>1, <1>2
  <2>4. AdmissionTypeOK'
    BY <1>1, <1>2, <2>1, <2>2, <2>3 DEF AdmissionTypeOK, IsSlots, Range
  <2> QED BY <1>1, <1>4, <2>1, <2>4 DEF Typed
<1>6. SlotsExact'
  <2> SUFFICES ASSUME NEW v \in Workers, NEW q \in Principals
               PROVE  Taken(active'[v], q) = Cardinality(Holding(v, q)')
    BY DEF SlotsExact, Holding
  <2>1. CASE v = w
    <3>1. Holding(v, q)' = {}
      BY <1>1, <2>1 DEF Holding, Worker, HoldsWhileInside
    <3>2. Taken(active'[v], q) = 0
      BY <1>4, <2>1 DEF Taken, NoSlots
    <3> QED BY <3>1, <3>2, FS_EmptySet
  <2>2. CASE v # w
    <3>1. Holding(v, q)' = Holding(v, q)
      BY <1>1, <2>2 DEF Holding, Worker
    <3>2. Taken(active[v], q) = Cardinality(Holding(v, q))
      BY <1>1 DEF SlotsExact, Holding
    <3>3. active'[v] = active[v]
      BY <1>4, <2>2
    <3> QED BY <3>1, <3>2, <3>3
  <2> QED BY <2>1, <2>2
<1> QED BY <1>3, <1>5, <1>6 DEF AdmissionInv

\* Every step keeps the invariant.
LEMMA InvNext == AdmissionInv /\ [AdmissionNext]_admissionVars => AdmissionInv'
<1> SUFFICES ASSUME AdmissionInv, [AdmissionNext]_admissionVars PROVE AdmissionInv'
  OBVIOUS
<1>1. ASSUME NEW r \in Requests, ClientStep(r) \/ ServerStep(r) PROVE AdmissionInv'
  BY <1>1, MiddlewareInv, RouteInv, LeaveInv DEF ClientStep, ServerStep
<1>2. ASSUME NEW w \in Killable, Kill(w) PROVE AdmissionInv'
  BY <1>2, KillInv
<1>3. CASE UNCHANGED admissionVars
  BY <1>3 DEF admissionVars, AdmissionInv, Typed, AdmissionTypeOK, HoldsWhileInside,
              SlotsExact, Worker, Taken, IsSlots
<1> QED BY <1>1, <1>2, <1>3 DEF AdmissionNext

\* The invariant holds throughout.
THEOREM AdmissionInvariant == AdmissionSpec => []AdmissionInv
BY InvInit, InvNext, PTL DEF AdmissionSpec

-----------------------------------------------------------------------------
(* What the limiter guarantees *)

\* Every variable keeps its type: no entry of _active is zero or beyond the limit.
THEOREM AdmissionTypeCorrect == AdmissionSpec => []AdmissionTypeOK
<1>1. AdmissionInv => AdmissionTypeOK
  BY DEF AdmissionInv, Typed
<1> QED BY <1>1, AdmissionInvariant, PTL

\* acquire and release balance: what is counted is who holds a slot, always.
THEOREM SlotsStayExact == AdmissionSpec => []SlotsExact
<1>1. AdmissionInv => SlotsExact
  BY DEF AdmissionInv
<1> QED BY <1>1, AdmissionInvariant, PTL

\* In one worker no more uploads run for a principal than the limit allows.
THEOREM LimitHolds == AdmissionSpec => []RouteWithinLimit
<1>1. AdmissionInv => RouteWithinLimit
  <2> SUFFICES ASSUME AdmissionInv, NEW w \in Workers, NEW p \in Principals
               PROVE  Cardinality({r \in Requests : /\ Worker(r) = w /\ p \in user[r]
                                                    /\ pc[r] \in {"checks", "upload"}})
                        <= MaxSlots
    BY DEF RouteWithinLimit
  <2> DEFINE inside == {r \in Requests : /\ Worker(r) = w /\ p \in user[r]
                                         /\ pc[r] \in {"checks", "upload"}}
  <2>1. inside \subseteq Holding(w, p)
    BY DEF AdmissionInv, HoldsWhileInside, Holding
  <2>2. IsFiniteSet(Holding(w, p)) /\ Cardinality(Holding(w, p)) = Taken(active[w], p)
    BY FS_Subset, AdmissionConstants DEF AdmissionInv, SlotsExact, Holding
  <2>3. Taken(active[w], p) \in 0 .. MaxSlots
    BY TakenBound DEF AdmissionInv, Typed
  <2>4. IsFiniteSet(inside) /\ Cardinality(inside) <= Cardinality(Holding(w, p))
    BY <2>1, <2>2, FS_Subset
  <2>5. Cardinality(inside) \in Nat
    BY <2>4, FS_CardinalityType
  <2> QED BY <2>2, <2>3, <2>4, <2>5, MaxSlotsPositive
<1> QED BY <1>1, AdmissionInvariant, PTL

\* Only the middleware answers 429, and only when it finds no room.
LEMMA OnlyMiddlewareRefuses ==
  ASSUME AdmissionInv, [AdmissionNext]_admissionVars,
         NEW r \in Requests, answer[r] = 0, answer'[r] = 429
  PROVE  /\ MayUpload(plan[r].token)
         /\ \E p \in ResolvePrincipal(plan[r].token) : ~HasRoom(active[Worker(r)], p)
<1>1. answer \in [Requests -> Answers]
  BY DEF AdmissionInv, Typed, AdmissionTypeOK
<1>2. CASE Middleware(r)
  BY <1>1, <1>2 DEF Middleware, Reply, GoTo
<1>3. ASSUME NEW q \in Requests, q # r, ClientStep(q) \/ ServerStep(q) PROVE FALSE
  <2>1. answer' = answer \/ \E code : answer' = [answer EXCEPT ![q] = code]
    BY <1>3 DEF ClientStep, ServerStep, Middleware, ReceiveBody, ClientLeaves,
                RequireUpload, CheckRequest, EndUpload, Leave, Reply, GoTo
  <2> QED BY <1>1, <1>3, <2>1
<1>4. ASSUME ReceiveBody(r) \/ ClientLeaves(r) \/ ServerStep(r) PROVE FALSE
  <2>1. Refusal(Body(r)) # 429
    BY DEF Refusal
  <2>2. \/ answer' = answer
        \/ \E code \in {0, 200, 401, 403, Refusal(Body(r))} : answer' = [answer EXCEPT ![r] = code]
    BY <1>4 DEF ServerStep, ReceiveBody, ClientLeaves,
                RequireUpload, CheckRequest, EndUpload, Leave, Reply, GoTo
  <2> QED BY <1>1, <2>1, <2>2
<1>5. ASSUME NEW w \in Killable, Kill(w) PROVE FALSE
  BY <1>1, <1>5 DEF Kill
<1>6. CASE UNCHANGED admissionVars
  BY <1>6 DEF admissionVars
<1> QED BY <1>2, <1>3, <1>4, <1>5, <1>6 DEF AdmissionNext, ClientStep

\* Who is answered 429 has that many requests in progress in the same worker.
THEOREM RefusedForOwnUploads == AdmissionSpec => RefusedOnlyWhenBusy
<1>1. ASSUME AdmissionInv, [AdmissionNext]_admissionVars,
             NEW r \in Requests, answer[r] = 0, answer'[r] = 429
      PROVE  \E p \in ResolvePrincipal(plan[r].token) :
               Cardinality(Unfinished(Worker(r), p)) >= MaxSlots
  <2>1. PICK p \in ResolvePrincipal(plan[r].token) : ~HasRoom(active[Worker(r)], p)
    BY <1>1, OnlyMiddlewareRefuses
  <2>2. Worker(r) \in Workers /\ p \in Principals
    BY <1>1, OnePrincipal, AdmissionConstants DEF AdmissionInv, Typed, Worker
  <2>3. Holding(Worker(r), p) \subseteq Unfinished(Worker(r), p)
    BY <1>1 DEF AdmissionInv, HoldsWhileInside, Holding, Unfinished
  <2>4. IsFiniteSet(Unfinished(Worker(r), p))
    BY FS_Subset, AdmissionConstants DEF Unfinished
  <2>5. Cardinality(Holding(Worker(r), p)) <= Cardinality(Unfinished(Worker(r), p))
    BY <2>3, <2>4, FS_Subset
  <2>6. Taken(active[Worker(r)], p) = Cardinality(Holding(Worker(r), p))
    BY <1>1, <2>2 DEF AdmissionInv, SlotsExact, Holding
  <2>7. Taken(active[Worker(r)], p) \in 0 .. MaxSlots
    BY <1>1, <2>2, TakenBound DEF AdmissionInv, Typed
  <2>8. Cardinality(Unfinished(Worker(r), p)) \in Nat
    BY <2>4, FS_CardinalityType
  <2>9. Cardinality(Unfinished(Worker(r), p)) >= MaxSlots
    BY <2>1, <2>5, <2>6, <2>7, <2>8, MaxSlotsPositive DEF HasRoom
  <2> QED BY <2>9
<1>2. AdmissionInv /\ [AdmissionNext]_admissionVars =>
        [\A r \in Requests :
           answer[r] = 0 /\ answer'[r] = 429 =>
             \E p \in ResolvePrincipal(plan[r].token) :
               Cardinality(Unfinished(Worker(r), p)) >= MaxSlots]_admissionVars
  BY <1>1
<1> QED BY <1>2, AdmissionInvariant, PTL DEF AdmissionSpec, RefusedOnlyWhenBusy

-----------------------------------------------------------------------------
(* What is known of a package once its checks are passed *)

\* Nobody comes to the upload proper but by CheckRequest.
ChecksPassed == \A r \in Requests : pc[r] = "upload" => Refusal(Body(r)) = 0

\* Every step keeps it, for only CheckRequest goes to the upload.
LEMMA ChecksPassedNext ==
  ASSUME AdmissionInv, ChecksPassed, [AdmissionNext]_admissionVars
  PROVE  ChecksPassed'
<1> SUFFICES ASSUME NEW r \in Requests, pc'[r] = "upload" PROVE Refusal(Body(r)') = 0
  BY DEF ChecksPassed
<1>1. pc \in [Requests -> Steps] /\ pc' \in [Requests -> Steps]
  BY InvNext DEF AdmissionInv, Typed, AdmissionTypeOK
<1>2. UNCHANGED plan
  BY DEF AdmissionNext, ClientStep, ServerStep, Middleware, ReceiveBody, ClientLeaves,
         RequireUpload, CheckRequest, EndUpload, Leave, Kill, admissionVars
<1>3. Body(r)' = Body(r)
  BY <1>2 DEF Body
<1>4. CASE pc[r] = "upload"
  BY <1>3, <1>4 DEF ChecksPassed
<1>5. CASE pc[r] # "upload"
  <2>1. ASSUME NEW q \in Requests, ClientStep(q) \/ RequireUpload(q) \/ EndUpload(q) \/ Leave(q)
        PROVE  FALSE
    <3>1. \E step \in {"body", "auth", "checks", "leaving", "done"} : pc' = [pc EXCEPT ![q] = step]
      BY <2>1 DEF ClientStep, Middleware, ReceiveBody, ClientLeaves, RequireUpload,
                  EndUpload, Leave, Reply, GoTo
    <3> QED BY <1>1, <1>5, <3>1
  <2>2. ASSUME NEW w \in Killable, Kill(w) PROVE FALSE
    BY <1>5, <2>2 DEF Kill
  <2>3. ASSUME UNCHANGED admissionVars PROVE FALSE
    BY <1>5, <2>3 DEF admissionVars
  <2>4. PICK q \in Requests : CheckRequest(q)
    BY <2>1, <2>2, <2>3 DEF AdmissionNext, ServerStep
  <2>5. \E step \in {"upload", "leaving"} : pc' = [pc EXCEPT ![q] = step]
    BY <2>4 DEF CheckRequest, Reply, GoTo
  <2>6. q = r
    BY <1>1, <1>5, <2>5
  <2>7. Refusal(Body(r)) = 0
    <3> SUFFICES ASSUME Refusal(Body(r)) # 0 PROVE FALSE
      OBVIOUS
    <3>1. pc' = [pc EXCEPT ![r] = "leaving"]
      BY <2>4, <2>6 DEF CheckRequest, Reply
    <3> QED BY <1>1, <3>1
  <2> QED BY <1>3, <2>7
<1> QED BY <1>4, <1>5

\* What the checks leave of a package: paths all different, files that match.
LEMMA AcceptedPackage ==
  ASSUME AdmissionInv, ChecksPassed, NEW r \in Requests, PackageInProgress(r)
  PROVE  LET m == Body(r).manifest IN
         /\ DistinctPaths(m)
         /\ CanMatch(ArtifactPaths(m), Body(r).names)
         /\ IsSequence(ArtifactPaths(m)) /\ IsSequence(Body(r).names)
<1> DEFINE m == Body(r).manifest
<1>1. Refusal(Body(r)) = 0 /\ IsPackage(m)
  BY DEF ChecksPassed, PackageInProgress
<1>2. ValidManifest(m) /\ Matches(m, Body(r).names)
  BY <1>1 DEF Refusal
<1>3. DistinctPaths(m)
  BY <1>1, <1>2 DEF ValidManifest, IsPackage, ValidV2, ValidV3
<1>4. CanMatch(ArtifactPaths(m), Body(r).names)
  BY <1>1, <1>2 DEF Matches
<1>5. Body(r).names \in Seq(Seq(Parts)) /\ m.artifacts \in Seq(Range(m.artifacts))
  BY AdmissionConstants DEF AdmissionInv, Typed, Body
<1> HIDE DEF m
<1>6. IsSequence(ArtifactPaths(m)) /\ IsSequence(Body(r).names)
  BY <1>5, PathsAreSequence, SequencesAreSequences
<1> QED BY <1>3, <1>4, <1>6 DEF m

\* A request in its upload has passed every check.
THEOREM ChecksStayPassed == AdmissionSpec => []ChecksPassed
<1>1. AdmissionInit => ChecksPassed
  BY DEF AdmissionInit, ChecksPassed
<1>2. AdmissionInv /\ ChecksPassed /\ [AdmissionNext]_admissionVars => ChecksPassed'
  BY ChecksPassedNext
<1> QED BY <1>1, <1>2, AdmissionInvariant, PTL DEF AdmissionSpec

\* No two artifacts of an accepted package share a file, however they are spelled.
THEOREM OneFileForEach == AdmissionSpec => []OneFilePerArtifact
<1>1. AdmissionInv /\ ChecksPassed => OneFilePerArtifact
  <2> SUFFICES ASSUME AdmissionInv, ChecksPassed, NEW r \in Requests, PackageInProgress(r),
                      NEW i \in DOMAIN Body(r).manifest.artifacts,
                      NEW j \in DOMAIN Body(r).manifest.artifacts,
                      Normalize(Body(r).manifest.artifacts[i].path)
                        = Normalize(Body(r).manifest.artifacts[j].path)
               PROVE  i = j
    BY DEF OneFilePerArtifact
  <2>1. DistinctPaths(Body(r).manifest)
    BY AcceptedPackage
  <2> QED BY <2>1 DEF DistinctPaths, IsInjective, ArtifactPaths
<1> QED BY <1>1, AdmissionInvariant, ChecksStayPassed, PTL

\* The files of an accepted package are paired in the only way their names allow.
THEOREM PairingStaysForced == AdmissionSpec => []PairingIsForced
<1>1. AdmissionInv /\ ChecksPassed => PairingIsForced
  <2> SUFFICES ASSUME AdmissionInv, ChecksPassed, NEW r \in Requests, PackageInProgress(r)
               PROVE  LET names == Body(r).names
                          paths == ArtifactPaths(Body(r).manifest)
                      IN {UploadsByPath(paths, names)} =
                           {f \in Bijection(ToSet(paths), DOMAIN names) :
                              \A p \in ToSet(paths) : MayBeFor(names[f[p]], p)}
    BY DEF PairingIsForced
  <2> DEFINE names == Body(r).names
             paths == ArtifactPaths(Body(r).manifest)
  <2>1. /\ IsSequence(paths) /\ IsSequence(names)
        /\ IsInjective(paths) /\ CanMatch(paths, names)
    BY AcceptedPackage DEF DistinctPaths
  <2> HIDE DEF names, paths
  <2>2. \A f : IsPairing(f, paths, names) <=> f = UploadsByPath(paths, names)
    BY <2>1, MatchIsForced
  <2>3. {UploadsByPath(paths, names)} =
          {f \in Bijection(ToSet(paths), DOMAIN names) :
             \A p \in ToSet(paths) : MayBeFor(names[f[p]], p)}
    BY <2>2 DEF IsPairing, MayBeFor
  <2> QED BY <2>3 DEF names, paths
<1> QED BY <1>1, AdmissionInvariant, ChecksStayPassed, PTL

\* A request that was formed well is answered 400 for its manifest or its names.
RefusedByChecks ==
  \A r \in Requests : pc[r] = "leaving" /\ answer[r] = 400 => Refusal(Body(r)) = 400

\* Every step keeps it, for only CheckRequest answers 400.
LEMMA RefusedByChecksNext ==
  ASSUME AdmissionInv, RefusedByChecks, [AdmissionNext]_admissionVars
  PROVE  RefusedByChecks'
<1> SUFFICES ASSUME NEW r \in Requests, pc'[r] = "leaving", answer'[r] = 400
             PROVE  Refusal(Body(r)') = 400
  BY DEF RefusedByChecks
<1>1. pc \in [Requests -> Steps] /\ answer \in [Requests -> Answers]
  BY DEF AdmissionInv, Typed, AdmissionTypeOK
<1>2. UNCHANGED plan
  BY DEF AdmissionNext, ClientStep, ServerStep, Middleware, ReceiveBody, ClientLeaves,
         RequireUpload, CheckRequest, EndUpload, Leave, Kill, admissionVars
<1>3. Body(r)' = Body(r)
  BY <1>2 DEF Body
<1>4. CASE pc[r] = "leaving" /\ answer[r] = 400
  BY <1>3, <1>4 DEF RefusedByChecks
<1>5. CASE ~(pc[r] = "leaving" /\ answer[r] = 400)
  <2>1. ASSUME NEW q \in Requests,
               ReceiveBody(q) \/ ClientLeaves(q) \/ RequireUpload(q) \/ EndUpload(q)
        PROVE  FALSE
    <3>1. \E step \in Steps, code \in {0, 200, 401, 403} : Reply(q, step, code)
      BY <2>1 DEF ReceiveBody, ClientLeaves, RequireUpload, EndUpload, GoTo, Steps
    <3> QED BY <1>1, <1>5, <3>1 DEF Reply
  <2>2. ASSUME NEW q \in Requests, Middleware(q) PROVE FALSE
    <3>1. \E step \in {"body", "done"}, code \in Answers : Reply(q, step, code)
      BY <2>2 DEF Middleware, GoTo, Answers
    <3> QED BY <1>1, <1>5, <3>1 DEF Reply
  <2>3. ASSUME NEW q \in Requests, Leave(q) PROVE FALSE
    BY <1>1, <1>5, <2>3 DEF Leave
  <2>4. ASSUME NEW w \in Killable, Kill(w) PROVE FALSE
    BY <1>5, <2>4 DEF Kill
  <2>5. ASSUME UNCHANGED admissionVars PROVE FALSE
    BY <1>5, <2>5 DEF admissionVars
  <2>6. PICK q \in Requests : CheckRequest(q)
    BY <2>1, <2>2, <2>3, <2>4, <2>5 DEF AdmissionNext, ClientStep, ServerStep
  <2>7. \/ Reply(q, "upload", 0)
        \/ Reply(q, "leaving", Refusal(Body(q)))
    BY <2>6 DEF CheckRequest, GoTo
  <2>8. Refusal(Body(r)) = 400
    BY <1>1, <1>5, <2>7 DEF Reply
  <2> QED BY <1>3, <2>8
<1> QED BY <1>4, <1>5

\* Throughout, a 400 comes from the checks of the request itself.
THEOREM RefusalsComeFromChecks == AdmissionSpec => []RefusedByChecks
<1>1. AdmissionInit => RefusedByChecks
  BY DEF AdmissionInit, RefusedByChecks
<1>2. AdmissionInv /\ RefusedByChecks /\ [AdmissionNext]_admissionVars => RefusedByChecks'
  BY RefusedByChecksNext
<1> QED BY <1>1, <1>2, AdmissionInvariant, PTL DEF AdmissionSpec

\* No artifact has the empty path.
LEMMA NoEmptyPath ==
  ASSUME AdmissionInv, NEW r \in Requests
  PROVE  <<>> \notin ToSet(ArtifactPaths(Body(r).manifest))
<1> DEFINE artifacts == Body(r).manifest.artifacts
<1>1. \A i \in DOMAIN artifacts : artifacts[i].path \in Seq(Parts) \ {<<>>}
  BY AdmissionConstants DEF AdmissionInv, Typed, Body
<1>2. ASSUME NEW path \in Seq(Parts) \ {<<>>} PROVE Normalize(path) # <<>>
  <2>1. Len(path) # 0 /\ Len(path) \in Nat /\ DOMAIN path = 1 .. Len(path)
    OBVIOUS
  <2> QED BY <2>1 DEF Normalize
<1> QED BY <1>1, <1>2 DEF ToSet, ArtifactPaths

\* Files with the paths of the artifacts, or base names that only one artifact has,
\* are never refused for their names.
THEOREM WellNamedStaysMatched == AdmissionSpec => []WellNamedIsMatched
<1>1. AdmissionInv /\ RefusedByChecks => WellNamedIsMatched
  <2> SUFFICES ASSUME AdmissionInv, RefusedByChecks, NEW r \in Requests,
                      pc[r] = "leaving", Body(r).form = "fine", answer[r] = 400,
                      IsPackage(Body(r).manifest), ValidManifest(Body(r).manifest),
                      NEW f \in Bijection(ToSet(ArtifactPaths(Body(r).manifest)),
                                          DOMAIN Body(r).names),
                      \A p \in ToSet(ArtifactPaths(Body(r).manifest)) :
                        IsWellNamed(Body(r).names[f[p]], p, ToSet(ArtifactPaths(Body(r).manifest)))
               PROVE  FALSE
    BY DEF WellNamedIsMatched, IsWellNamed
  <2> DEFINE m == Body(r).manifest
             names == Body(r).names
             paths == ArtifactPaths(m)
  <2>1. Refusal(Body(r)) = 400
    BY DEF RefusedByChecks
  <2>2. ~Matches(m, names)
    BY <2>1 DEF Refusal
  <2>3. ~CanMatch(paths, names)
    BY <2>2 DEF Matches
  <2>4. DistinctPaths(m)
    BY DEF ValidManifest, IsPackage, ValidV2, ValidV3
  <2>5. names \in Seq(Seq(Parts)) /\ m.artifacts \in Seq(Range(m.artifacts))
    BY AdmissionConstants DEF AdmissionInv, Typed, Body
  <2>6. IsSequence(paths) /\ IsSequence(names)
    <3> HIDE DEF m, names
    <3> QED BY <2>5, PathsAreSequence, SequencesAreSequences
  <2>7. IsInjective(paths) /\ <<>> \notin ToSet(paths)
    BY <2>4, NoEmptyPath DEF DistinctPaths
  <2>8. CanMatch(paths, names)
    BY <2>6, <2>7, WellNamedMatch
  <2> QED BY <2>3, <2>8
<1> QED BY <1>1, AdmissionInvariant, RefusalsComeFromChecks, PTL

=============================================================================
