------------------------------ MODULE Admission ------------------------------
(***************************************************************************)
(* A POST of a dataset from its arrival to the claim of the dataset: the   *)
(* middleware with the concurrency limiter (limits.py), the body, the      *)
(* principal (auth.py) and the checks that change no state (Package).      *)
(* What follows, the upload proper, is module UploadService; here it is    *)
(* one step that ends some time (LeftoversGo there).                       *)
(*                                                                         *)
(* A limiter lives in the memory of one worker.  The middleware runs       *)
(* before the body is read: how long a slot is held is up to the client,   *)
(* for request_timeout_seconds and chunk_idle_timeout_seconds are set in   *)
(* config.py and used nowhere.                                             *)
(***************************************************************************)
EXTENDS Package

CONSTANTS
  Requests,       \* requests, each sent once
  Workers,        \* Uvicorn workers
  Killable,       \* workers that may be killed and started again
  Tokens,         \* tokens of the settings
  OtherTokens,    \* no Bearer token, or one that is not in the settings
  NonAsciiTokens, \* those of them that hmac.compare_digest refuses to compare
  TokenPrincipal, \* TokenConfig.principal_id
  Alias,          \* principal_aliases, the identity where it has no entry
  TokenScopes,    \* TokenConfig.scopes
  Limit,          \* max_concurrent_uploads_per_principal
  MaxFiles, MaxFields, MaxParts,  \* the settings of those names
  Plans           \* what is sent to which worker: the instances considered

Principals == {Alias[TokenPrincipal[t]] : t \in Tokens}

ASSUME AdmissionConstants ==
  /\ IsFiniteSet(Requests)
  /\ Killable \subseteq Workers
  /\ Tokens \cap OtherTokens = {} /\ NonAsciiTokens \subseteq OtherTokens
  /\ TokenScopes \in [Tokens -> SUBSET {"browse", "upload"}]
  /\ Limit \in Int
  /\ {MaxFiles, MaxFields, MaxParts} \subseteq Nat
  /\ \A p \in Plans, r \in Requests :
       LET artifacts == p[r].body.manifest.artifacts IN
       /\ p[r].worker \in Workers /\ p[r].token \in Tokens \cup OtherTokens
       /\ p[r].body.names \in Seq(Seq(Parts))
       /\ artifacts \in Seq(Range(artifacts))
       /\ \A i \in DOMAIN artifacts : artifacts[i].path \in Seq(Parts) \ {<<>>}

VARIABLES
  plan,      \* chosen at the start, never changed
  pc,        \* where a request is
  active,    \* worker -> _active: principal_id -> number of slots taken
  held,      \* acquired_principal_id: a set of at most one principal
  user,      \* the principal of the route: a set of at most one
  answer,    \* status code, 0 while there is none
  failures   \* requests with an auth_failure event

admissionVars == <<plan, pc, active, held, user, answer, failures>>

Worker(r) == plan[r].worker

Body(r) == plan[r].body

NoSlots == [p \in {} |-> 0]

-----------------------------------------------------------------------------
\* resolve_principal
ResolvePrincipal(t) == {Alias[TokenPrincipal[k]] : k \in {t} \cap Tokens}

\* hmac.compare_digest raises; it is called for each token of the settings.
Raises(t) == t \in NonAsciiTokens /\ Tokens # {}

MayUpload(t) == t \in Tokens /\ "upload" \in TokenScopes[t]

\* UploadConcurrencyLimiter; the lock makes each method one step.
Taken(slots, p) == IF p \in DOMAIN slots THEN slots[p] ELSE 0

MaxSlots == Max({1, Limit})

OneMore(slots, p) == Taken(slots, p) <= MaxSlots                       \* mutant

CountsEveryone(slots, p) == SumFunction(slots) < MaxSlots              \* mutant

HasRoom(slots, p) == Taken(slots, p) < MaxSlots

Acquired(slots, p) ==
  [q \in DOMAIN slots \cup {p} |-> Taken(slots, q) + (IF q = p THEN 1 ELSE 0)]

NeverPopped(slots, p) == [slots EXCEPT ![p] = @ - 1]                   \* mutant

Freed(slots, p) ==
  IF Taken(slots, p) <= 1 THEN Restrict(slots, DOMAIN slots \ {p})
  ELSE [slots EXCEPT ![p] = @ - 1]

-----------------------------------------------------------------------------
\* enforce_upload_counts; the manifest is a part too, and dataset_key is one of
\* the fields.
CountsFit(b) ==
  /\ Len(b.names) <= MaxFiles
  /\ b.fields <= MaxFields
  /\ Len(b.names) + 1 + b.fields <= MaxParts

\* The checks of upload_dataset before claim_dataset, in their order; 0 when all
\* of them are passed.
Refusal(b) ==
  IF b.form = "incomplete" THEN 422
  ELSE IF b.form = "bad_key" THEN 400
  ELSE IF ~CountsFit(b) \/ b.manifestBytes > MaxManifestBytes THEN 413
  ELSE IF ~ValidManifest(b.manifest) \/ ~Matches(b.manifest, b.names) THEN 400
  ELSE 0

-----------------------------------------------------------------------------
Reply(r, step, code) ==
  /\ pc' = [pc EXCEPT ![r] = step]
  /\ answer' = [answer EXCEPT ![r] = code]

GoTo(r, step) == Reply(r, step, 0)

\* reject_large_uploads up to call_next
Middleware(r) ==
  LET t == plan[r].token
      slots == active[Worker(r)]
  IN
  /\ pc[r] = "new"
  /\ UNCHANGED <<plan, user, failures>>
  /\ \/ /\ plan[r].length \in {"chunked", "too_large"}
        /\ Reply(r, "done", IF plan[r].length = "chunked" THEN 411 ELSE 413)
        /\ UNCHANGED <<active, held>>
     \/ /\ plan[r].length = "fine" /\ Raises(t)
        /\ Reply(r, "done", 500)
        /\ UNCHANGED <<active, held>>
     \/ /\ plan[r].length = "fine" /\ ~Raises(t) /\ ~MayUpload(t)
        /\ GoTo(r, "body")
        /\ UNCHANGED <<active, held>>
     \/ /\ plan[r].length = "fine" /\ MayUpload(t)
        /\ \E p \in ResolvePrincipal(t) :
             IF HasRoom(slots, p)
             THEN /\ active' = [active EXCEPT ![Worker(r)] = Acquired(slots, p)]
                  /\ held' = [held EXCEPT ![r] = {p}]
                  /\ GoTo(r, "body")
             ELSE Reply(r, "done", 429) /\ UNCHANGED <<active, held>>

\* The client has sent the whole form, at its own pace.
ReceiveBody(r) ==
  /\ pc[r] = "body"
  /\ GoTo(r, "auth")
  /\ UNCHANGED <<plan, active, held, user, failures>>

\* The client goes away before: request.form() raises.
ClientLeaves(r) ==
  /\ pc[r] = "body"
  /\ GoTo(r, "leaving")
  /\ UNCHANGED <<plan, active, held, user, failures>>

\* require_principal and require_upload, solved after the form has been read.
RequireUpload(r) ==
  LET t == plan[r].token IN
  /\ pc[r] = "auth"
  /\ IF ResolvePrincipal(t) = {}
     THEN /\ failures' = failures \cup {r}
          /\ Reply(r, "leaving", 401) /\ UNCHANGED user
     ELSE /\ user' = [user EXCEPT ![r] = ResolvePrincipal(t)]
          /\ IF MayUpload(t) THEN GoTo(r, "checks") ELSE Reply(r, "leaving", 403)
          /\ UNCHANGED failures
  /\ UNCHANGED <<plan, active, held>>

CheckRequest(r) ==
  /\ pc[r] = "checks"
  /\ IF Refusal(Body(r)) = 0 THEN GoTo(r, "upload")
     ELSE Reply(r, "leaving", Refusal(Body(r)))
  /\ UNCHANGED <<plan, active, held, user, failures>>

\* The rest of upload_dataset; 200 stands for any of its answers.
EndUpload(r) ==
  /\ pc[r] = "upload"
  /\ Reply(r, "leaving", 200)
  /\ UNCHANGED <<plan, active, held, user, failures>>

ReleasedOnSuccess(r) == IF answer[r] = 200 THEN held[r] ELSE {}         \* mutant

\* The finally block: whatever the answer, and before it is sent.
Released(r) == held[r]

Leave(r) ==
  /\ pc[r] = "leaving"
  /\ pc' = [pc EXCEPT ![r] = "done"]
  /\ active' = IF Released(r) = {} THEN active
               ELSE [active EXCEPT ![Worker(r)] = Freed(@, CHOOSE p \in Released(r) : TRUE)]
  /\ held' = [held EXCEPT ![r] = {}]
  /\ UNCHANGED <<plan, user, answer, failures>>

\* A worker is killed with its requests and started again: the limiter is new.
Kill(w) ==
  LET lost == {r \in Requests : Worker(r) = w /\ pc[r] \notin {"new", "done"}} IN
  /\ lost # {}
  /\ pc' = [r \in Requests |-> IF r \in lost THEN "done" ELSE pc[r]]
  /\ answer' = [r \in Requests |-> IF r \in lost THEN 0 ELSE answer[r]]
  /\ held' = [r \in Requests |-> IF r \in lost THEN {} ELSE held[r]]
  /\ active' = [active EXCEPT ![w] = NoSlots]
  /\ UNCHANGED <<plan, user, failures>>

-----------------------------------------------------------------------------
AdmissionInit ==
  /\ plan \in Plans
  /\ pc = [r \in Requests |-> "new"]
  /\ active = [w \in Workers |-> NoSlots]
  /\ held = [r \in Requests |-> {}]
  /\ user = [r \in Requests |-> {}]
  /\ answer = [r \in Requests |-> 0]
  /\ failures = {}

ClientStep(r) == Middleware(r) \/ ReceiveBody(r) \/ ClientLeaves(r)

ServerStep(r) == RequireUpload(r) \/ CheckRequest(r) \/ EndUpload(r) \/ Leave(r)

AdmissionNext ==
  \/ \E r \in Requests : ClientStep(r) \/ ServerStep(r)
  \/ \E w \in Killable : Kill(w)

\* Once the form is there the worker goes on; a client need not send anything.
AdmissionSpec ==
  /\ AdmissionInit
  /\ [][AdmissionNext]_admissionVars
  /\ \A r \in Requests : WF_admissionVars(ServerStep(r))

-----------------------------------------------------------------------------
Steps == {"new", "body", "auth", "checks", "upload", "leaving", "done"}

Answers == {0, 200, 400, 401, 403, 411, 413, 422, 429, 500}

AdmissionTypeOK ==
  /\ pc \in [Requests -> Steps]
  /\ \A w \in Workers : DOMAIN active[w] \subseteq Principals /\ Range(active[w]) \subseteq 1 .. MaxSlots
  /\ held \in [Requests -> SUBSET Principals]
  /\ user \in [Requests -> SUBSET Principals]
  /\ answer \in [Requests -> Answers]
  /\ failures \subseteq Requests

\* _active counts, for each worker, exactly the requests that hold a slot of the
\* principal: acquire and release balance on every way out of the middleware, and
\* nothing is left behind for a principal with no request in progress.
SlotsExact ==
  \A w \in Workers, p \in Principals :
    Taken(active[w], p) = Cardinality({r \in Requests : Worker(r) = w /\ p \in held[r]})

\* The upload routes of a worker that run for one principal are never more than
\* the limit, under whichever of its tokens and aliases they were sent: the
\* principal that the middleware counts is the one that the route resolves later.
\* It is a bound per worker; the setting speaks of a principal.
RouteWithinLimit ==
  \A w \in Workers, p \in Principals :
    Cardinality({r \in Requests : /\ Worker(r) = w /\ p \in user[r]
                                  /\ pc[r] \in {"checks", "upload"}}) <= MaxSlots

Unfinished(w, p) ==
  {r \in Requests : /\ Worker(r) = w /\ pc[r] \notin {"new", "done"}
                    /\ p \in ResolvePrincipal(plan[r].token)}

\* 429 is answered only while that many requests of the same principal are in
\* progress in the worker: neither other principals, nor uploads that have been
\* answered, nor a process that was killed can be the cause.
RefusedOnlyWhenBusy ==
  [][\A r \in Requests :
       answer[r] = 0 /\ answer'[r] = 429 =>
         \E p \in ResolvePrincipal(plan[r].token) :
           Cardinality(Unfinished(Worker(r), p)) >= MaxSlots]_admissionVars

\* A principal without room gets room again, unless a client stalls for ever in
\* the middle of its form: no timeout ends that request.
NobodyLockedOut ==
  \A w \in Workers, p \in Principals :
    \/ \E r \in Requests : <>[](Worker(r) = w /\ p \in held[r] /\ pc[r] = "body")
    \/ ~HasRoom(active[w], p) ~> HasRoom(active[w], p)

PackageInProgress(r) == pc[r] = "upload" /\ IsPackage(Body(r).manifest)

MayBeFor(name, path) == name \in {path, Basename(path)}

\* The files of an accepted package are paired with its artifacts in the only way
\* that gives every file a path or base name of its own: the order of the parts
\* plays no role, and no artifact gets the bytes of another.
PairingIsForced ==
  \A r \in Requests : PackageInProgress(r) =>
    LET names == Body(r).names
        paths == ArtifactPaths(Body(r).manifest)
    IN {UploadsByPath(paths, names)} =
         {f \in Bijection(ToSet(paths), DOMAIN names) :
            \A p \in ToSet(paths) : MayBeFor(names[f[p]], p)}

\* Files named by the normalized paths of the artifacts, or by base names that
\* only one artifact has, are never refused for their names.
WellNamedIsMatched ==
  \A r \in Requests : pc[r] = "leaving" /\ Body(r).form = "fine" =>
    LET names == Body(r).names
        paths == ToSet(ArtifactPaths(Body(r).manifest))
        WellNamed(name, p) == name = p \/ (name = Basename(p) /\ BasenameOf(name, paths) = {p})
    IN /\ answer[r] = 400
       /\ IsPackage(Body(r).manifest)
       /\ ValidManifest(Body(r).manifest)
       => ~ \E f \in Bijection(paths, DOMAIN names) :
              \A p \in paths : WellNamed(names[f[p]], p)

\* No two artifacts of an accepted package are stored in one file, however the
\* manifest spells their paths.
OneFilePerArtifact ==
  \A r \in Requests : PackageInProgress(r) =>
    \A i, j \in DOMAIN Body(r).manifest.artifacts :
      Normalize(Body(r).manifest.artifacts[i].path) = Normalize(Body(r).manifest.artifacts[j].path)
        => i = j

==============================================================================
