--------------------------- MODULE Package_proofs ---------------------------
(* Theorems about the operators of Package, for paths and names of any        *)
(* number: what match_v2_uploads accepts can be paired in one way only.       *)
EXTENDS Package, FiniteSetTheorems, TLAPS

\* The base name of a path is its own base name.
LEMMA BasenameOfBasename == ASSUME NEW p PROVE Basename(Basename(p)) = Basename(p)
BY DEF Basename, Last

\* A sequence, as far as its members do not matter.
IsSequence(s) == Len(s) \in Nat /\ s = [i \in 1 .. Len(s) |-> s[i]]

\* The sequences over any set are.
LEMMA SequencesAreSequences == ASSUME NEW S, NEW s \in Seq(S) PROVE IsSequence(s)
BY DEF IsSequence

\* A manifest has as many paths, normalized, as it has artifacts.
LEMMA PathsAreSequence ==
  ASSUME NEW m, NEW S, m.artifacts \in Seq(S)
  PROVE  IsSequence(ArtifactPaths(m))
<1> DEFINE paths == ArtifactPaths(m)
           T == {paths[j] : j \in 1 .. Len(m.artifacts)}
<1>1. paths = [i \in 1 .. Len(m.artifacts) |-> Normalize(m.artifacts[i].path)]
  BY DEF ArtifactPaths
<1>2. \A i \in 1 .. Len(m.artifacts) : paths[i] \in T
  OBVIOUS
<1>3. paths \in Seq(T)
  BY <1>1, <1>2
<1> QED BY <1>3, SequencesAreSequences

\* A sequence has as many places as its length.
LEMMA Places ==
  ASSUME NEW s, IsSequence(s)
  PROVE  IsFiniteSet(DOMAIN s) /\ Cardinality(DOMAIN s) = Len(s)
<1>1. Len(s) \in Nat /\ DOMAIN s = 1 .. Len(s)
  BY DEF IsSequence
<1>2. IsFiniteSet(1 .. Len(s)) /\ Cardinality(1 .. Len(s)) = Len(s)
  <2>1. \A n \in Nat : IsFiniteSet(1 .. n) /\ Cardinality(1 .. n) = n
    BY FS_Interval
  <2> QED BY <1>1, <2>1
<1> QED BY <1>1, <1>2

\* A sequence without repetitions has as many members as places.
LEMMA AsManyAsPlaces ==
  ASSUME NEW s, IsSequence(s), IsInjective(s)
  PROVE  IsFiniteSet(ToSet(s)) /\ Cardinality(ToSet(s)) = Len(s)
<1>1. s = [i \in DOMAIN s |-> s[i]]
  BY DEF IsSequence
<1>2. s \in [DOMAIN s -> ToSet(s)] /\ \A e \in ToSet(s) : \E i \in DOMAIN s : s[i] = e
  BY <1>1 DEF ToSet
<1>3. ExistsBijection(DOMAIN s, ToSet(s))
  BY <1>2 DEF ExistsBijection, Bijection, Injection, Surjection, IsInjective
<1> QED BY <1>3, FS_Bijection, Places

\* A file that has an artifact has one that its name allows.
LEMMA ArtifactOfName ==
  ASSUME NEW paths, IsFiniteSet(paths), NEW n, ArtifactsFor(n, paths) # {}
  PROVE  \E p \in paths : ArtifactsFor(n, paths) = {p} /\ n \in {p, Basename(p)}
<1>1. CASE n \in paths
  BY <1>1 DEF ArtifactsFor
<1>2. CASE n \notin paths
  <2>1. ArtifactsFor(n, paths) = BasenameOf(n, paths) /\ Cardinality(BasenameOf(n, paths)) = 1
    BY <1>2 DEF ArtifactsFor
  <2>2. IsFiniteSet(BasenameOf(n, paths))
    BY FS_Subset DEF BasenameOf
  <2>3. PICK p : BasenameOf(n, paths) = {p}
    BY <2>1, <2>2, FS_Singleton
  <2>4. p \in paths /\ Basename(p) = n
    BY <2>3 DEF BasenameOf
  <2> QED BY <2>1, <2>3, <2>4
<1> QED BY <1>1, <1>2

\* A pairing of artifacts with files, in which every file is named for its artifact.
IsPairing(f, paths, names) ==
  /\ f \in Bijection(ToSet(paths), DOMAIN names)
  /\ \A p \in ToSet(paths) : names[f[p]] \in {p, Basename(p)}

\* The rule of match_v2_uploads gives every artifact its file in any pairing: a
\* file with the base name of one artifact and the path of another cannot be for
\* the first, for nothing would be left for the second.
LEMMA PairingFollowsRule ==
  ASSUME NEW paths, IsSequence(paths), NEW names, IsInjective(paths),
         CanMatch(paths, names), NEW f, IsPairing(f, paths, names),
         NEW p \in ToSet(paths)
  PROVE  ArtifactsFor(names[f[p]], ToSet(paths)) = {p}
<1> DEFINE P == ToSet(paths)
           n == names[f[p]]
<1>1. /\ f \in [P -> DOMAIN names] /\ IsInjective(f)
      /\ \A q \in P : names[f[q]] \in {q, Basename(q)}
      /\ IsInjective(names)
  BY DEF IsPairing, Bijection, Injection, CanMatch
<1>2. CASE n = p
  BY <1>2 DEF ArtifactsFor
<1>3. CASE n # p /\ n \in P
  <2>1. n = Basename(p)
    BY <1>1, <1>3
  <2>2. Basename(n) = n
    BY <2>1, BasenameOfBasename
  <2>3. names[f[n]] = n
    BY <1>1, <1>3, <2>2
  <2>4. f[n] = f[p]
    BY <1>1, <1>3, <2>3 DEF IsInjective
  <2>5. n = p
    BY <1>1, <1>3, <2>4 DEF IsInjective
  <2> QED BY <1>3, <2>5
<1>4. CASE n \notin P
  <2>1. ArtifactsFor(n, P) # {}
    BY <1>1 DEF CanMatch
  <2>2. ArtifactsFor(n, P) = BasenameOf(n, P) /\ p \in BasenameOf(n, P)
    BY <1>1, <1>4, <2>1 DEF ArtifactsFor, BasenameOf
  <2>3. IsFiniteSet(P)
    BY AsManyAsPlaces
  <2>4. PICK q \in P : ArtifactsFor(n, P) = {q}
    BY <2>1, <2>3, ArtifactOfName
  <2> QED BY <2>2, <2>4
<1> QED BY <1>2, <1>3, <1>4

\* Files that are as many as the artifacts, and that are for different ones, are
\* for all of them.
LEMMA EveryArtifactHasFile ==
  ASSUME NEW paths, IsSequence(paths), NEW names, IsSequence(names),
         IsInjective(paths), CanMatch(paths, names), NEW p \in ToSet(paths)
  PROVE  \E i \in DOMAIN names : ArtifactsFor(names[i], ToSet(paths)) = {p}
<1> DEFINE P == ToSet(paths)
           artifact == [i \in DOMAIN names |-> CHOOSE q \in P : ArtifactsFor(names[i], P) = {q}]
<1>1. IsFiniteSet(P) /\ Cardinality(P) = Len(names)
  <2>1. IsFiniteSet(P) /\ Cardinality(P) = Len(paths)
    BY AsManyAsPlaces
  <2> QED BY <2>1 DEF CanMatch
<1>2. ASSUME NEW i \in DOMAIN names
      PROVE  artifact[i] \in P /\ ArtifactsFor(names[i], P) = {artifact[i]}
  <2>1. ArtifactsFor(names[i], P) # {}
    BY DEF CanMatch
  <2>2. \E q \in P : ArtifactsFor(names[i], P) = {q}
    BY <1>1, <2>1, ArtifactOfName
  <2> QED BY <2>2
<1>3. artifact \in Injection(DOMAIN names, P)
  <2>1. artifact \in [DOMAIN names -> P]
    BY <1>2
  <2>2. ASSUME NEW i \in DOMAIN names, NEW j \in DOMAIN names, artifact[i] = artifact[j]
        PROVE  i = j
    <3>1. ArtifactsFor(names[i], P) = ArtifactsFor(names[j], P)
      BY <1>2, <2>2
    <3> QED BY <3>1 DEF CanMatch
  <2> HIDE DEF artifact
  <2> QED BY <2>1, <2>2 DEF Injection, IsInjective
<1>4. Cardinality(DOMAIN names) = Len(names)
  BY Places
<1> HIDE DEF artifact
<1>5. artifact \in Surjection(DOMAIN names, P)
  BY <1>1, <1>3, <1>4, FS_Injection
<1>6. PICK i \in DOMAIN names : artifact[i] = p
  BY <1>5 DEF Surjection
<1> QED BY <1>2, <1>6

\* What match_v2_uploads returns for a package it accepts is a pairing, and the
\* only one: whatever the order of the parts, no artifact gets another's bytes.
THEOREM MatchIsForced ==
  ASSUME NEW paths, IsSequence(paths), NEW names, IsSequence(names),
         IsInjective(paths), CanMatch(paths, names)
  PROVE  \A f : IsPairing(f, paths, names) <=> f = UploadsByPath(paths, names)
<1> DEFINE P == ToSet(paths)
           match == UploadsByPath(paths, names)
<1>1. ASSUME NEW i \in DOMAIN names, NEW j \in DOMAIN names,
             ArtifactsFor(names[i], P) = ArtifactsFor(names[j], P)
      PROVE  i = j
  BY <1>1 DEF CanMatch
<1>2. /\ match \in [P -> DOMAIN names]
      /\ \A p \in P : ArtifactsFor(names[match[p]], P) = {p}
  <2>1. ASSUME NEW p \in P
        PROVE  match[p] \in DOMAIN names /\ ArtifactsFor(names[match[p]], P) = {p}
    <3>1. \E i \in DOMAIN names : ArtifactsFor(names[i], P) = {p}
      BY EveryArtifactHasFile
    <3>2. match[p] = CHOOSE i \in DOMAIN names : ArtifactsFor(names[i], P) = {p}
      BY DEF UploadsByPath
    <3> QED BY <3>1, <3>2
  <2>2. match = [p \in P |-> match[p]]
    BY DEF UploadsByPath
  <2> HIDE DEF match
  <2> QED BY <2>1, <2>2
<1> HIDE DEF match
<1>3. ASSUME NEW f, IsPairing(f, paths, names)
      PROVE  f = match
  <2>1. f \in [P -> DOMAIN names]
    BY <1>3 DEF IsPairing, Bijection, Injection
  <2>2. ASSUME NEW p \in P PROVE f[p] = match[p]
    <3>1. ArtifactsFor(names[f[p]], P) = {p}
      BY <1>3, PairingFollowsRule
    <3> QED BY <1>1, <1>2, <2>1, <3>1
  <2> QED BY <1>2, <2>1, <2>2
<1>4. IsPairing(match, paths, names)
  <2>1. ASSUME NEW p \in P, NEW q \in P, match[p] = match[q] PROVE p = q
    <3>1. {p} = {q}
      BY <1>2, <2>1
    <3> QED BY <3>1
  <2>2. ASSUME NEW i \in DOMAIN names PROVE \E p \in P : match[p] = i
    <3>1. IsFiniteSet(P) /\ ArtifactsFor(names[i], P) # {}
      BY AsManyAsPlaces DEF CanMatch
    <3>2. PICK p \in P : ArtifactsFor(names[i], P) = {p}
      BY <3>1, ArtifactOfName
    <3> QED BY <1>1, <1>2, <3>2
  <2>3. match \in Bijection(P, DOMAIN names)
    BY <1>2, <2>1, <2>2 DEF Bijection, Injection, Surjection, IsInjective
  <2>4. ASSUME NEW p \in P PROVE names[match[p]] \in {p, Basename(p)}
    <3>1. ArtifactsFor(names[match[p]], P) = {p} /\ IsFiniteSet(P)
      <4>1. IsFiniteSet(P)
        BY AsManyAsPlaces
      <4> QED BY <1>2, <4>1
    <3>2. PICK q \in P : ArtifactsFor(names[match[p]], P) = {q}
                         /\ names[match[p]] \in {q, Basename(q)}
      BY <3>1, ArtifactOfName
    <3> QED BY <3>1, <3>2
  <2> QED BY <2>3, <2>4 DEF IsPairing
<1> QED BY <1>3, <1>4 DEF match

\* A file named by the path of its artifact, or by a base name no other has.
IsWellNamed(n, p, paths) == n = p \/ (n = Basename(p) /\ BasenameOf(n, paths) = {p})

\* Such a name leads to its artifact and to no other.
LEMMA WellNamedFor ==
  ASSUME NEW paths, NEW p \in paths, NEW n, IsWellNamed(n, p, paths)
  PROVE  ArtifactsFor(n, paths) = {p}
<1>1. CASE n = p
  BY <1>1 DEF ArtifactsFor
<1>2. CASE n # p
  <2>1. n = Basename(p) /\ BasenameOf(n, paths) = {p}
    BY <1>2 DEF IsWellNamed
  <2>2. n \notin paths
    <3> SUFFICES ASSUME n \in paths PROVE FALSE
      OBVIOUS
    <3>1. Basename(n) = n
      BY <2>1, BasenameOfBasename
    <3>2. n \in BasenameOf(n, paths)
      BY <3>1 DEF BasenameOf
    <3> QED BY <1>2, <2>1, <3>2
  <2>3. Cardinality({p}) = 1
    BY FS_Singleton
  <2> QED BY <2>1, <2>2, <2>3 DEF ArtifactsFor
<1> QED BY <1>1, <1>2

\* match_v2_uploads accepts files that are well named.
THEOREM WellNamedMatch ==
  ASSUME NEW paths, IsSequence(paths), NEW names, IsSequence(names),
         IsInjective(paths), <<>> \notin ToSet(paths),
         NEW f \in Bijection(ToSet(paths), DOMAIN names),
         \A p \in ToSet(paths) : IsWellNamed(names[f[p]], p, ToSet(paths))
  PROVE  CanMatch(paths, names)
<1> DEFINE P == ToSet(paths)
<1>1. /\ f \in [P -> DOMAIN names]
      /\ \A i \in DOMAIN names : \E p \in P : f[p] = i
  BY DEF Bijection, Injection, Surjection
<1>2. ASSUME NEW i \in DOMAIN names
      PROVE  \E p \in P : f[p] = i /\ ArtifactsFor(names[i], P) = {p}
  <2>1. PICK p \in P : f[p] = i
    BY <1>1
  <2>2. IsWellNamed(names[i], p, P)
    BY <2>1
  <2>3. ArtifactsFor(names[i], P) = {p}
    BY <2>2, WellNamedFor
  <2> QED BY <2>1, <2>3
<1>3. ASSUME NEW i \in DOMAIN names, NEW j \in DOMAIN names,
             ArtifactsFor(names[i], P) = ArtifactsFor(names[j], P)
      PROVE  i = j
  <2>1. PICK p \in P : f[p] = i /\ ArtifactsFor(names[i], P) = {p}
    BY <1>2
  <2>2. PICK q \in P : f[q] = j /\ ArtifactsFor(names[j], P) = {q}
    BY <1>2
  <2>3. p = q
    BY <1>3, <2>1, <2>2
  <2> QED BY <2>1, <2>2, <2>3
<1>4. IsInjective(names)
  BY <1>3 DEF IsInjective
<1>5. <<>> \notin ToSet(names)
  <2> SUFFICES ASSUME NEW i \in DOMAIN names, names[i] = <<>> PROVE FALSE
    BY DEF ToSet
  <2>1. PICK p \in P : f[p] = i
    BY <1>1
  <2>2. Basename(p) # <<>>
    BY DEF Basename
  <2> QED BY <2>1, <2>2 DEF IsWellNamed
<1>6. Len(names) = Len(paths)
  <2>1. IsFiniteSet(P) /\ Cardinality(P) = Len(paths)
    BY AsManyAsPlaces
  <2>2. ExistsBijection(P, DOMAIN names)
    BY DEF ExistsBijection
  <2>3. Cardinality(DOMAIN names) = Cardinality(P)
    BY <2>1, <2>2, FS_Bijection
  <2>4. Cardinality(DOMAIN names) = Len(names)
    BY Places
  <2> QED BY <2>1, <2>3, <2>4
<1>7. \A i \in DOMAIN names : ArtifactsFor(names[i], P) # {}
  BY <1>2
<1> QED BY <1>3, <1>4, <1>5, <1>6, <1>7 DEF CanMatch

=============================================================================
