---------------------------- MODULE ClientBundle ----------------------------
(***************************************************************************)
(* The client that the server downloads and serves                         *)
(* (client-bundle.service.ts): package.json, dist/index.html and the rest  *)
(* of dist, each as the version it comes from, and what an update makes of *)
(* them. Versions are numbers; 0 stands for no file and for no request.    *)
(***************************************************************************)
EXTENDS Integers, Sequences, FiniteSets

CONSTANTS Versions, Minimum

ASSUME MinimumIsVersion == Versions \subseteq Nat \ {0} /\ Minimum \in Versions

Files == {"package.json", "index.html", "rest"}

Bundles == [Files -> Versions \cup {0}]

NoUpdate == [at |-> "none", target |-> 0, entries |-> <<>>]

(***************************************************************************)
(* Whether to update                                                       *)
(***************************************************************************)
CheckVersionSatisfiesMinimum(v) == v >= Minimum

GetMaximumOfVersionsSafe(v, w) == IF v < w THEN w ELSE v

\* The name of an environment variable, never its value: always true.
ClientAutoUpdate == TRUE

\* An outdated client is replaced whatever is requested; a version below the minimum is
\* not taken, one below the existing only on request.
Wanted(existing, requested, allowDowngrade) ==
  \/ ~CheckVersionSatisfiesMinimum(existing)
  \/ requested >= Minimum /\ requested > existing
  \/ requested >= Minimum /\ requested < existing /\ allowDowngrade

\* Mutant: index.html is not looked for.
ShouldUpdateUnlooked(dir, override, requested, allowDowngrade) ==
  /\ ClientAutoUpdate \/ override
  /\ dir["package.json"] = 0 \/ Wanted(dir["package.json"], requested, allowDowngrade)

ShouldUpdate(dir, override, requested, allowDowngrade) ==
  /\ ClientAutoUpdate \/ override
  /\ \/ dir["package.json"] = 0
     \/ dir["index.html"] = 0
     \/ Wanted(dir["package.json"], requested, allowDowngrade)

TargetVersion(requested) == GetMaximumOfVersionsSafe(Minimum, requested)

(***************************************************************************)
(* Unpacking: what is in the directory is removed, then the zip extracted  *)
(***************************************************************************)
\* The entries of the directory: dist and package.json.
Entries(dir) ==
  (IF dir["index.html"] = 0 /\ dir["rest"] = 0 THEN <<>> ELSE <<{"index.html", "rest"}>>) \o
  (IF dir["package.json"] = 0 THEN <<>> ELSE <<{"package.json"}>>)

Removed(dir, files) == [f \in Files |-> IF f \in files THEN 0 ELSE dir[f]]

\* extractAllTo does not overwrite what is there.
Extracted(dir, files, v) == [f \in Files |-> IF f \in files /\ dir[f] = 0 THEN v ELSE dir[f]]

Unpacked(dir, v) == Extracted(dir, Files, v)

\* What a step of an update leaves behind when it is cut short: part of an entry is
\* removed, or the last one is and part of the zip extracted.
Interrupted(dir, update) ==
  IF update.at # "clear" THEN {dir}
  ELSE {Removed(dir, s) : s \in SUBSET Head(update.entries)} \cup
       (IF Len(update.entries) > 1 THEN {}
        ELSE {Extracted(Removed(dir, Head(update.entries)), s, update.target) : s \in SUBSET Files})
=============================================================================
