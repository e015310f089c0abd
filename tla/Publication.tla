----------------------------- MODULE Publication -----------------------------
(***************************************************************************)
(* What dtcc-upload promises to the readers of a dataset, without          *)
(* directories, transactions or recovery: a version appears in one step,   *)
(* with its whole payload; its content is on the shelf once; afterwards it *)
(* can only be withdrawn, and stays readable to its owner; "latest" always *)
(* names a version that is not withdrawn.                                  *)
(***************************************************************************)
CONSTANTS Datasets, VersionIds, Contents, Payload, NoVersion

VARIABLES
  shelf,   \* version id -> dataset, content, readable entries, withdrawn or not
  latest   \* dataset -> the version offered by default, or NoVersion

publicationVars == <<shelf, latest>>

Current(d) == {v \in DOMAIN shelf : shelf[v].dataset = d /\ ~shelf[v].withdrawn}

Init ==
  /\ shelf = [v \in {} |-> NoVersion]
  /\ latest = [d \in Datasets |-> NoVersion]

Publish(v, d, c) ==
  /\ v \notin DOMAIN shelf
  /\ \A w \in DOMAIN shelf : <<shelf[w].dataset, shelf[w].content>> # <<d, c>>
  /\ shelf' = [w \in DOMAIN shelf \cup {v} |->
                 IF w = v THEN [dataset |-> d, content |-> c, readable |-> Payload,
                                withdrawn |-> FALSE]
                 ELSE shelf[w]]
  /\ latest' = [latest EXCEPT ![d] = v]

\* Withdrawing again is allowed, and elects the latest version again.
Withdraw(v) ==
  LET d == shelf[v].dataset
      left == Current(d) \ {v}
  IN
  /\ shelf' = [shelf EXCEPT ![v].withdrawn = TRUE]
  /\ \E l \in IF left = {} THEN {NoVersion} ELSE left : latest' = [latest EXCEPT ![d] = l]

Next ==
  \/ \E v \in VersionIds, d \in Datasets, c \in Contents : Publish(v, d, c)
  \/ \E v \in DOMAIN shelf : Withdraw(v)

Spec == Init /\ [][Next]_publicationVars

=============================================================================
