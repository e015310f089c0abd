------------------------------ MODULE MCAdmission ------------------------------
(* Three requests of one or two principals that meet in two workers, one of    *)
(* them killable; and one request with each of the bodies, whose two companions *)
(* are turned away at the door.                                                 *)
EXTENDS Admission

CONSTANTS r1, r2, r3, w1, w2, t1, t2, t3, reader, nobody, wide, p1, p1b, p2,
          a, aNFD, b, x, y, full, long, dotted, dots, del, drive, slash, json

MCTokenPrincipal == (t1 :> p1) @@ (t2 :> p1b) @@ (t3 :> p2) @@ (reader :> p1)

MCAlias == (p1 :> p1) @@ (p1b :> p1) @@ (p2 :> p2)

MCTokenScopes ==
  [t \in {t1, t2, t3, reader} |-> IF t = reader THEN {"browse"} ELSE {"browse", "upload"}]

MCNfc == [p \in Parts |-> IF p = aNFD THEN a ELSE p]

MCPartBytes ==
  [p \in Parts |-> CASE p = slash -> 0 [] p = full -> 3 [] p = long -> 4 [] OTHER -> 1]

-----------------------------------------------------------------------------
V1 == [schema |-> "none", fields |-> TRUE, package |-> FALSE,
       file |-> <<a>>, files |-> {}, artifacts |-> <<>>]

Artifact(path) ==
  [path |-> path, role |-> "other", native |-> FALSE, digested |-> FALSE, derivedFrom |-> {}]

V2(paths) ==
  [V1 EXCEPT !.schema = "v2", !.package = TRUE,
             !.artifacts = [i \in DOMAIN paths |-> Artifact(paths[i])]]

V3(artifacts) == [V2(<<>>) EXCEPT !.schema = "v3", !.artifacts = artifacts]

Sent(m, names) ==
  [form |-> "fine", names |-> names, fields |-> 1, manifestBytes |-> 1, manifest |-> m]

Plain == Sent(V1, <<<<a>>>>)

SomePaths == {<<a>>, <<aNFD>>, <<x, a>>, <<y, a>>, <<b>>}

Names == SomePaths \cup {<<>>}

Pairings ==
  {Sent(V2(paths), names) :
     paths \in BoundedSeq(SomePaths, 2), names \in BoundedSeq(Names, 2)}
    \cup {Sent(V2(paths), names) :
            paths \in {<<<<a>>, <<x, a>>, <<b>>>>, <<<<x, a>>, <<b>>, <<y, a>>>>},
            names \in [1 .. 3 -> Names]}

Paths == {<<p>> : p \in Parts} \cup {<<p, q>> : p, q \in Parts}

Spellings ==
  {Sent(V2(<<path>>), <<Normalize(path)>>) : path \in Paths}
    \cup {Sent([V1 EXCEPT !.file = path, !.files = list], <<path>>) :
            path \in Paths, list \in {{}, {<<>>}, {<<<<a>>>>}, {<<<<aNFD>>>>}, {<<<<a>>, <<b>>>>}}}

Roles == {"canonical_model", "derived", "other"}

Items(path, roles) ==
  [path : {path}, role : roles, native : BOOLEAN, digested : BOOLEAN,
   derivedFrom : {{}, {<<a>>}, {<<aNFD>>}}]

Canonical ==
  {Sent(V3(<<item>>), <<item.path>>) : item \in Items(<<a>>, Roles) \cup Items(<<json>>, Roles)}
    \cup {Sent(V3(<<model, item>>), <<<<b>>, <<a>>>>) :
            model \in Items(<<aNFD>>, {"canonical_model"}), item \in Items(<<b>>, Roles)}

Boundaries ==
  {[Plain EXCEPT !.form = f] : f \in {"incomplete", "bad_key"}}
    \cup {[Plain EXCEPT !.manifest.schema = s, !.manifest.fields = f, !.manifest.package = p] :
            s \in {"none", "unknown"}, f \in BOOLEAN, p \in BOOLEAN}
    \cup {[Plain EXCEPT !.manifestBytes = n] : n \in MaxManifestBytes .. MaxManifestBytes + 1}
    \cup {[Plain EXCEPT !.fields = n, !.names = names] :
            n \in 1 .. MaxFields + 1, names \in BoundedSeq({<<a>>, <<b>>}, MaxFiles + 1)}

-----------------------------------------------------------------------------
Post(w, t, body) == [worker |-> w, token |-> t, length |-> "fine", body |-> body]

TurnedAway == {[Post(w1, t1, Plain) EXCEPT !.length = l] : l \in {"chunked", "too_large"}}

Meeting ==
  {(r1 :> Post(w1, t1, Plain)) @@ (r2 :> Post(v, t2, Plain)) @@ (r3 :> Post(w, t, Plain)) :
     v \in Workers, w \in Workers, t \in Tokens \cup OtherTokens}

Alone ==
  {(r1 :> Post(w2, t1, body)) @@ (r2 :> CHOOSE p \in TurnedAway : p.length = "chunked")
                              @@ (r3 :> CHOOSE p \in TurnedAway : p.length = "too_large") :
     body \in Pairings \cup Spellings \cup Canonical \cup Boundaries}

MCPlans == Meeting \cup Alone

===============================================================================
