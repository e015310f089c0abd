------------------------------- MODULE Package -------------------------------
(***************************************************************************)
(* What a package upload is checked for before it changes any state: paths *)
(* (paths.py), manifests (models.py, validation.py) and the pairing of     *)
(* uploaded files with artifacts (match_v2_uploads of app.py).             *)
(*                                                                         *)
(* A path is the non-empty sequence of the parts between its slashes; a    *)
(* leading or a double slash is an empty part.  A part is a value of which *)
(* the code looks at: its NFC form, its length in bytes, and whether it is *)
(* of a refused kind.  An optional value is a set of at most one.          *)
(***************************************************************************)
EXTENDS Integers, SequencesExt

CONSTANTS
  Parts,           \* parts of paths
  Nfc,             \* unicodedata.normalize("NFC", part)
  PartBytes,       \* length in UTF-8
  MaxPartBytes,    \* 255
  MaxPathBytes,    \* MAX_V2_PACKAGE_PATH_BYTES
  LogicalRefused,  \* parts validate_logical_path refuses: "", dotfiles, those with
                   \* "..", a backslash or a control character, Windows devices
  PackageRefused,  \* parts validate_package_path refuses: the same, DEL too, but
                   \* of dots only a leading one
  DriveParts,      \* parts that begin like "c:"
  ManifestJson,    \* "manifest.json"
  MaxManifestBytes \* settings.max_manifest_bytes

ASSUME PackageConstants ==
  /\ Nfc \in [Parts -> Parts] /\ \A part \in Parts : Nfc[Nfc[part]] = Nfc[part]
  /\ PartBytes \in [Parts -> Nat]
  /\ {MaxPartBytes, MaxPathBytes, MaxManifestBytes} \subseteq Nat
  /\ LogicalRefused \cup PackageRefused \cup DriveParts \cup {ManifestJson} \subseteq Parts

Normalize(path) == [i \in DOMAIN path |-> Nfc[path[i]]]

PathBytes(path) == MapThenSumSet(LAMBDA i : PartBytes[path[i]], DOMAIN path) + Len(path) - 1

ValidLogicalPath(path) ==
  LET normal == Normalize(path) IN
  /\ Len(normal) = 1
  /\ normal[1] \notin LogicalRefused
  /\ PartBytes[normal[1]] <= MaxPartBytes

ValidPackagePath(path) ==
  LET normal == Normalize(path) IN
  /\ normal[1] \notin DriveParts
  /\ PathBytes(normal) <= MaxPathBytes
  /\ \A i \in DOMAIN normal :
       normal[i] \notin PackageRefused /\ PartBytes[normal[i]] <= MaxPartBytes

-----------------------------------------------------------------------------
\* Of a manifest: "fields" says whether the constraints on single fields hold
\* (lengths, non-empty names, finite numbers), "package" whether it has the
\* members artifacts or identity.
Schemas == {"none", "v2", "v3", "unknown"}

\* ManifestModel, and validate_files_consistency
ValidV1(m) ==
  /\ ValidLogicalPath(m.file)
  /\ \A list \in m.files : [i \in DOMAIN list |-> Normalize(list[i])] = <<Normalize(m.file)>>

AsWritten(m) == [i \in DOMAIN m.artifacts |-> m.artifacts[i].path]     \* mutant

\* ManifestV2Artifact replaces a path by its normal form.
ArtifactPaths(m) == [i \in DOMAIN m.artifacts |-> Normalize(m.artifacts[i].path)]

\* validate_unique_artifact_paths, on the normal forms
DistinctPaths(m) == IsInjective(ArtifactPaths(m))

\* ManifestV2Model
ValidV2(m) ==
  /\ m.artifacts # <<>>
  /\ \A i \in DOMAIN m.artifacts : ValidPackagePath(m.artifacts[i].path)
  /\ DistinctPaths(m)

\* validate_canonical_artifacts.  derived_from is an extra member: nobody has
\* normalized it.
ValidV3(m) ==
  LET path == ArtifactPaths(m)
      canonical == {i \in DOMAIN m.artifacts : m.artifacts[i].role = "canonical_model"}
  IN
  /\ ValidV2(m)
  /\ Cardinality(canonical) = 1
  /\ \A i \in DOMAIN m.artifacts :
       /\ path[i] # <<ManifestJson>>
       /\ m.artifacts[i].digested
       /\ \A model \in canonical :
            IF i = model THEN m.artifacts[i].native /\ m.artifacts[i].derivedFrom = {}
            ELSE m.artifacts[i].role = "derived" /\ m.artifacts[i].derivedFrom = {path[model]}

IsPackage(m) == m.schema \in {"v2", "v3"}

\* validate_manifest
ValidManifest(m) ==
  /\ m.fields
  /\ m.schema # "unknown"
  /\ m.schema = "none" => ~m.package /\ ValidV1(m)
  /\ m.schema = "v2" => ValidV2(m)
  /\ m.schema = "v3" => ValidV3(m)

-----------------------------------------------------------------------------
\* A file name is a path as the client wrote it; <<>> is a missing one.
Basename(path) == <<Last(path)>>

BasenameOf(name, paths) == {p \in paths : Basename(p) = name}

UnambiguousOnly(name, paths) ==                                        \* mutant
  IF Cardinality(BasenameOf(name, paths)) > 1 THEN {}
  ELSE (paths \cap {name}) \cup BasenameOf(name, paths)

\* The artifact a file is for: the one with that path, else the only one with
\* that base name.
ArtifactsFor(name, paths) ==
  IF name \in paths THEN {name}
  ELSE IF Cardinality(BasenameOf(name, paths)) = 1 THEN BasenameOf(name, paths)
  ELSE {}

\* match_v2_uploads: every refusal is a 400, so their order does not matter.
CanMatch(paths, names) ==
  /\ <<>> \notin ToSet(names)
  /\ IsInjective(names)
  /\ Len(names) = Len(paths)
  /\ \A i \in DOMAIN names : ArtifactsFor(names[i], ToSet(paths)) # {}
  /\ \A i, j \in DOMAIN names :
       i # j => ArtifactsFor(names[i], ToSet(paths)) # ArtifactsFor(names[j], ToSet(paths))

InOrderOfArrival(paths, names) ==                                      \* mutant
  [p \in ToSet(paths) |-> CHOOSE i \in DOMAIN names : paths[i] = p]

UploadsByPath(paths, names) ==
  [p \in ToSet(paths) |-> CHOOSE i \in DOMAIN names : ArtifactsFor(names[i], ToSet(paths)) = {p}]

\* The route from the manifest to uploads_by_path.
Matches(m, names) ==
  IF IsPackage(m) THEN CanMatch(ArtifactPaths(m), names) ELSE Len(names) = 1

=============================================================================
