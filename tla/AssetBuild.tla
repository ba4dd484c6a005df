---- MODULE AssetBuild ----
(* build.mjs: bundles the frontend and generates assets_dist.go, the Go      *)
(* source that names the bundles.  The server embeds both.  The script is a *)
(* row of awaits, three of them on calls that run at the same time; it may  *)
(* fail or be killed anywhere, what it has changed so far stays, and it is  *)
(* started again, possibly after the sources have changed.                  *)
EXTENDS Integers, Sequences

CONSTANTS
  Entrypoints,  \* the arguments of the script
  MaxEdits      \* how often the sources change, at most

ASSUME EntryAssumption ==
  /\ Entrypoints \in Seq(STRING) /\ Entrypoints # << >>
  /\ \A i, j \in 1 .. Len(Entrypoints) : Entrypoints[i] = Entrypoints[j] => i = j
  /\ MaxEdits \in Nat

VARIABLES
  source,      \* the version of the sources
  step,        \* what the script awaits
  todo,        \* the calls of a Promise.all that have not returned
  entryDir,    \* .entry-cache: whether it exists, and the entries in it
  dist,        \* the files in dist
  found,       \* the bundle named by the page of each entry
  assetsDist,  \* assets_dist.go: the bundle of each entry, in order
  built        \* whether the last run ended well; not in the code

buildVars == <<source, step, todo, entryDir, dist, found, assetsDist, built>>

Names == {Entrypoints[i] : i \in 1 .. Len(Entrypoints)}

\* Parcel puts a hash of the content into the name of a bundle; the page that
\* loads the bundle is named like its entry.
Bundle(name, version) == [kind |-> "bundle", name |-> name, version |-> version]
Page(name, version) == [kind |-> "page", name |-> name, version |-> version]
Output(version) == {Bundle(n, version) : n \in Names} \union {Page(n, version) : n \in Names}

BuildInit ==
  /\ source = 1 /\ step = "idle" /\ todo = {}
  /\ entryDir = [exists |-> FALSE, files |-> {}] /\ dist = {}
  /\ found = [n \in Names |-> 0]
  /\ assetsDist = <<>> /\ built = FALSE

EditSources ==
  /\ source <= MaxEdits
  /\ source' = source + 1
  /\ UNCHANGED <<step, todo, entryDir, dist, found, assetsDist, built>>

Start ==
  /\ step = "idle"
  /\ step' = "prepare" /\ todo' = {"mkdir", "rm"}
  /\ found' = [n \in Names |-> 0] /\ built' = FALSE
  /\ UNCHANGED <<source, entryDir, dist, assetsDist>>

\* Mutant of Return: the script goes on with the first call that returns.
Return_Race(call, next, calls) ==
  /\ call \in todo
  /\ step' = next /\ todo' = calls \union (todo \ {call})

\* A call of a Promise.all returns; the script goes on when all have.
Return(call, next, calls) ==
  LET left == todo \ {call} IN
  /\ call \in todo
  /\ IF left = {} THEN step' = next /\ todo' = calls
                  ELSE todo' = left /\ UNCHANGED step

MkDir ==
  /\ step = "prepare" /\ Return("mkdir", "disclaimer", {})
  /\ entryDir' = [entryDir EXCEPT !.exists = TRUE]
  /\ UNCHANGED <<source, dist, found, assetsDist, built>>

\* Mutant of RmDist: the directory is kept.
RmDist_KeepsFiles ==
  /\ step = "prepare" /\ Return("rm", "disclaimer", {})
  /\ UNCHANGED <<source, entryDir, dist, found, assetsDist, built>>

RmDist ==
  /\ step = "prepare" /\ Return("rm", "disclaimer", {})
  /\ dist' = {}
  /\ UNCHANGED <<source, entryDir, found, assetsDist, built>>

\* What yarn says of the licences is written to a file nothing else here reads.
WriteDisclaimer ==
  /\ step = "disclaimer"
  /\ step' = "entries" /\ todo' = Names
  /\ UNCHANGED <<source, entryDir, dist, found, assetsDist, built>>

WriteEntry(name) ==
  /\ step = "entries" /\ entryDir.exists /\ Return(name, "bundle", {})
  /\ entryDir' = [exists |-> TRUE, files |-> entryDir.files \union {name}]
  /\ UNCHANGED <<source, dist, found, assetsDist, built>>

\* bundler.run writes bundles and pages, or some of them and fails.
RunBundler ==
  /\ step = "bundle" /\ Names \subseteq entryDir.files
  /\ dist' = dist \union Output(source)
  /\ step' = "find" /\ todo' = Names
  /\ UNCHANGED <<source, entryDir, found, assetsDist, built>>

FailBundler ==
  /\ step = "bundle"
  /\ \E files \in SUBSET Output(source) : dist' = dist \union files
  /\ step' = "idle"
  /\ UNCHANGED <<source, todo, entryDir, found, assetsDist, built>>

\* The page of an entry is read and deleted; it names its bundle.
FindAssets(name) ==
  /\ step = "find"
  /\ \E v \in 1 .. source :
       /\ Page(name, v) \in dist
       /\ found' = [found EXCEPT ![name] = v]
       /\ dist' = dist \ {Page(name, v)}
  /\ Return(name, "truncate", {})
  /\ UNCHANGED <<source, entryDir, assetsDist, built>>

\* writeFile truncates the file and fills it.
Truncate ==
  /\ step = "truncate"
  /\ assetsDist' = <<>> /\ step' = "write"
  /\ UNCHANGED <<source, todo, entryDir, dist, found, built>>

WriteAssets ==
  /\ step = "write"
  /\ assetsDist' = [i \in 1 .. Len(Entrypoints) |->
                      Bundle(Entrypoints[i], found[Entrypoints[i]])]
  /\ step' = "idle" /\ built' = TRUE
  /\ UNCHANGED <<source, todo, entryDir, dist, found>>

\* A call rejects, or the process is killed; rm may have removed a part.
Fail ==
  /\ step # "idle"
  /\ step' = "idle" /\ todo' = {}
  /\ dist' \in IF "rm" \in todo THEN SUBSET dist ELSE {dist}
  /\ UNCHANGED <<source, entryDir, found, assetsDist, built>>

BuildNext ==
  \/ EditSources \/ Start \/ MkDir \/ RmDist \/ WriteDisclaimer
  \/ RunBundler \/ FailBundler \/ Truncate \/ WriteAssets \/ Fail
  \/ \E name \in Names : WriteEntry(name) \/ FindAssets(name)

BuildSpec == BuildInit /\ [][BuildNext]_buildVars

----------------------------------------------------------------------------
\* The variables have their types, and calls are outstanding only of the
\* Promise.all the script is at.
Files == [kind : {"bundle", "page"}, name : Names, version : 1 .. source]
BuildTypeOK ==
  /\ source \in 1 .. MaxEdits + 1
  /\ step \in {"idle", "prepare", "disclaimer", "entries", "bundle", "find", "truncate", "write"}
  /\ step = "prepare" => todo \subseteq {"mkdir", "rm"}
  /\ step \in {"entries", "find"} => todo \subseteq Names
  /\ step \notin {"prepare", "entries", "find"} => todo = {}
  /\ entryDir \in [exists : BOOLEAN, files : SUBSET Names]
  /\ dist \subseteq Files
  /\ found \in [Names -> 0 .. source]
  /\ assetsDist \in Seq(Files) /\ built \in BOOLEAN

\* After a run that ended well, however the runs before it ended: the generated
\* source has a bundle for each entry, in order and of one version of the
\* sources, and dist holds these bundles and nothing else.
AssetsMatch ==
  built =>
    \E v \in 1 .. source :
      /\ assetsDist = [i \in 1 .. Len(Entrypoints) |-> Bundle(Entrypoints[i], v)]
      /\ dist = {Bundle(n, v) : n \in Names}
====
