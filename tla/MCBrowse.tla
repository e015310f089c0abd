------------------------------- MODULE MCBrowse -------------------------------
(* Three small worlds for Browse: a list over three packages of two datasets, *)
(* the other reads of a dataset beside two packages, and downloads from one.  *)
EXTENDS Browse

CONSTANTS v0, v1, v2, v3, d1, d2, p1, p2, c0, c1, c2, empty, three, lost, wide

MCKeyRank == (d1 :> 1) @@ (d2 :> 2)

MCIdRank == (v0 :> 4) @@ (v1 :> 3) @@ (v2 :> 1) @@ (v3 :> 2)

MCFileSize == (empty :> 0) @@ (three :> 3) @@ (lost :> 1) @@ (wide :> 1)

MCTotalBytes == (c0 :> 5) @@ (c1 :> 1) @@ (c2 :> 1)

Package(d, p, c, paths) == [dataset |-> d, owner |-> p, content |-> c, paths |-> paths]

MCPackages ==
  (v0 :> Package(d1, p1, c0, <<empty, three, lost, wide>>)) @@
  (v1 :> Package(d1, p1, c1, <<>>)) @@
  (v2 :> Package(d1, p1, c2, <<>>)) @@
  (v3 :> Package(d2, p2, c1, <<>>))

NoRange == [kind |-> "none", first |-> Empty, last |-> Empty]

Ranges ==
  {NoRange, [NoRange EXCEPT !.kind = "malformed"]} \cup
  [kind : {"range"}, first : {Empty, Letters, Unreadable} \cup 0 .. 3,
   last : {Empty, Letters, Unreadable} \cup 0 .. 4]

Plain ==
  [kind |-> "list", who |-> p1, scopes |-> Scopes, include |-> TRUE,
   dataset |-> d1, version |-> v1, path |-> three, range |-> NoRange, etag |-> FALSE,
   limit |-> 1, status |-> "any", contents |-> Contents, owners |-> Principals,
   goodCursor |-> TRUE]

Lists ==
  {[Plain EXCEPT !.limit = n] : n \in {1, 2}}
    \cup {[Plain EXCEPT !.include = FALSE], [Plain EXCEPT !.status = "retracted"]}

OddLists ==
  {[Plain EXCEPT !.limit = 0], [Plain EXCEPT !.limit = 3], [Plain EXCEPT !.goodCursor = FALSE],
   [Plain EXCEPT !.who = p2], [Plain EXCEPT !.contents = {c2}], [Plain EXCEPT !.owners = {p2}]}
    \cup {[Plain EXCEPT !.status = s, !.include = i] : s \in Status, i \in BOOLEAN}
    \cup {[Plain EXCEPT !.scopes = s] : s \in SUBSET Scopes}

Details ==
  {[Plain EXCEPT !.kind = k, !.who = p, !.scopes = s, !.include = i] :
     k \in {"detail", "versions"}, p \in Principals, s \in SUBSET Scopes, i \in BOOLEAN}
    \cup {[Plain EXCEPT !.kind = k, !.who = p, !.scopes = s] :
            k \in {"version", "manifest"}, p \in Principals, s \in SUBSET Scopes}
    \cup {[Plain EXCEPT !.kind = "version", !.version = v3]}

Files ==
  {[Plain EXCEPT !.kind = k, !.version = v0, !.path = f, !.range = r] :
     k \in Downloads, f \in {empty, three}, r \in Ranges}
    \cup {[Plain EXCEPT !.kind = "file", !.version = v0, !.path = f, !.etag = e] :
            f \in Paths, e \in BOOLEAN}

MCScenarios ==
  [packages : {{v1, v2, v3}}, request : Lists]
    \cup [packages : {{v2, v3}}, request : OddLists]
    \cup [packages : {{v1, v2}}, request : Details]
    \cup [packages : {{v0}}, request : Files]

===============================================================================
