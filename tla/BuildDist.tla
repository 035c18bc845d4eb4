------------------------------ MODULE BuildDist ------------------------------
(***************************************************************************)
(* dist/: `cybersin build` and `build --watch` write it in place            *)
(* (crates/cybersin-cli/src/commands/build.rs, capabilities.rs), and        *)
(* `cybersin run` reads it twice, once into the artifact store and once     *)
(* into the daemon (run.rs, crates/cybersin-runtime/src/dist.rs,            *)
(* storage.rs), while the developer edits the sources.                      *)
(*                                                                         *)
(* A file's content is what it was made from, so that two contents are      *)
(* equal iff their hashes are.  The write of one file is one step: a reader *)
(* refuses a half written JSON file as it refuses a missing one.            *)
(***************************************************************************)
EXTENDS Integers, FiniteSets, Functions

CONSTANTS
  Prompt,               \* the *.prompt.yaml sources
  Builder,              \* processes that may build this project
  Session,
  Frozen,               \* values of --frozen to study
  MaxEvents             \* bound: edits of sources and kills of builders together

ASSUME FrozenAssumption == Frozen \subseteq BOOLEAN
ASSUME EventsAssumption == MaxEvents \in Nat
(* A prompt is compiled to dist/prompts/: its file is none of the others.     *)
ASSUME NameAssumption == Prompt \cap {"agent", "routing", "tools", "manifest"} = {}

VARIABLES
  source,    \* content of each prompt and of the agent declarations
  lock,      \* cybersin.lock: the edit it holds, and a stamp for its mtime
  dist,      \* the files under dist/
  builder,   \* each builder's pc, flags, and what it has read
  stored,    \* artifact_files: bundles by config_hash
  session,   \* each run's pc, and what it has read and pinned
  events     \* history: edits of sources and kills of builders

distVars == <<source, lock, dist, builder, stored, session, events>>
-----------------------------------------------------------------------------
Source == Prompt \cup {"agent"}
(* An unparsed source fails to load, a rejected prompt fails a pass.        *)
Content == [edit : 0..MaxEvents, form : {"sound", "unparsed", "rejected"}]
Stamps == 2     \* enough for one builder, which looks at the mtime between rewrites
Artifact == Prompt \cup {"routing", "tools"}
Hash == [source : [Source -> Content], lock : 0..MaxEvents]
Empty == <<>>

(* A file is written, whether or not it is there.                           *)
Written(files, f, content) ==
  [g \in DOMAIN files \cup {f} |-> IF g = f THEN content ELSE files[g]]

BuildPcs == {"off", "compile", "clear", "prompts", "routing", "tools", "manifest",
             "lock", "poll"}
RunPcs == {"new", "verify", "open", "routing", "prompts", "loaded",
           "live", "dead", "failed"}

(* watched_snapshot: the mtimes of the lockfile and of every source.        *)
Snapshot == [edits |-> [f \in Source |-> source[f].edit], lock |-> lock]
Unwatched == [edits |-> [f \in Source |-> 0], lock |-> [edit |-> 0, stamp |-> 0]]
Off == [pc |-> "off", watching |-> FALSE, frozen |-> FALSE, todo |-> {},
        read |-> Empty, locked |-> 0, seen |-> Unwatched]

DistInit ==
  /\ source = [f \in Source |-> [edit |-> 0, form |-> "sound"]]
  /\ lock = [edit |-> 0, stamp |-> 0]
  /\ dist = Empty
  /\ builder = [b \in Builder |-> Off]
  /\ stored = {}
  /\ session = [s \in Session |->
       [pc |-> "new", manifest |-> Empty, got |-> Empty, pinned |-> Empty]]
  /\ events = 0
-----------------------------------------------------------------------------
(* The developer.                                                           *)

Edit(f, form) ==
  /\ events < MaxEvents
  /\ events' = events + 1
  /\ source' = [source EXCEPT ![f] = [edit |-> events + 1, form |-> form]]
  /\ UNCHANGED <<lock, dist, builder, stored, session>>

EditLock ==
  /\ events < MaxEvents
  /\ events' = events + 1
  /\ lock' = [lock EXCEPT !.edit = events + 1]
  /\ UNCHANGED <<source, dist, builder, stored, session>>
-----------------------------------------------------------------------------
(* A build: run_sources_into_with_progress.                                 *)

Unbuilt == UNCHANGED <<source, stored, session, events>>

(* It reads cybersin.lock first and finds the prompts.                      *)
Starting(r) ==
  [r EXCEPT !.pc = "compile", !.todo = Prompt, !.read = Empty, !.locked = lock.edit]

(* A build ends: a watcher goes back to polling, whatever the outcome.      *)
Ending_Resnap(r) ==
  IF r.watching
  THEN [r EXCEPT !.pc = "poll", !.todo = {}, !.read = Empty, !.locked = 0, !.seen = Snapshot]
  ELSE Off
Ending(r) ==
  IF r.watching THEN [r EXCEPT !.pc = "poll", !.todo = {}, !.read = Empty, !.locked = 0] ELSE Off

(* The snapshot is taken before the first build.                            *)
Begin(b, watching, frozen) ==
  /\ builder[b].pc = "off"
  /\ builder' = [builder EXCEPT ![b] =
       Starting([@ EXCEPT !.watching = watching, !.frozen = frozen,
                          !.seen = IF watching THEN Snapshot ELSE Unwatched])]
  /\ UNCHANGED <<lock, dist>> /\ Unbuilt

Poll(b) ==
  /\ builder[b].pc = "poll" /\ Snapshot # builder[b].seen
  /\ builder' = [builder EXCEPT ![b] = Starting([@ EXCEPT !.seen = Snapshot])]
  /\ UNCHANGED <<lock, dist>> /\ Unbuilt

(* All sources are compiled before dist/ is touched.                        *)
Compile_InPlace(b, p) ==
  LET r == builder[b]
      read == Written(r.read, p, source[p]) IN
  /\ r.pc = "compile" /\ p \in r.todo
  /\ builder' = [builder EXCEPT ![b] =
       IF source[p].form = "unparsed" THEN Ending(r)
       ELSE IF r.todo = {p}
            THEN [r EXCEPT !.read = read, !.todo = Prompt, !.pc = "prompts"]
            ELSE [r EXCEPT !.read = read, !.todo = r.todo \ {p}]]
  /\ UNCHANGED <<lock, dist>> /\ Unbuilt
Compile(b, p) ==
  LET r == builder[b]
      read == Written(r.read, p, source[p]) IN
  /\ r.pc = "compile" /\ p \in r.todo
  /\ builder' = [builder EXCEPT ![b] =
       IF source[p].form = "unparsed" THEN Ending(r)
       ELSE [r EXCEPT !.read = read, !.todo = r.todo \ {p},
                      !.pc = IF r.todo = {p} THEN "clear" ELSE "compile"]]
  /\ UNCHANGED <<lock, dist>> /\ Unbuilt

(* remove_dir_all unlinks the files one by one.                             *)
ClearFile(b, f) ==
  /\ builder[b].pc = "clear" /\ f \in DOMAIN dist
  /\ dist' = Restrict(dist, DOMAIN dist \ {f})
  /\ UNCHANGED <<lock, builder>> /\ Unbuilt

MakeDir(b) ==
  /\ builder[b].pc = "clear" /\ dist = Empty
  /\ builder' = [builder EXCEPT ![b].pc = "prompts", ![b].todo = Prompt]
  /\ UNCHANGED <<lock, dist>> /\ Unbuilt

(* The passes run now: a diagnostic ends the build with dist/ half written. *)
WritePrompt(b, p) ==
  /\ builder[b].pc = "prompts" /\ p \in builder[b].todo
  /\ IF builder[b].read[p].form = "rejected"
     THEN builder' = [builder EXCEPT ![b] = Ending(@)] /\ UNCHANGED dist
     ELSE /\ dist' = Written(dist, p, builder[b].read[p])
          /\ builder' = [builder EXCEPT ![b].todo = @ \ {p},
                         ![b].pc = IF builder[b].todo = {p} THEN "routing" ELSE @]
  /\ UNCHANGED lock /\ Unbuilt

(* routing.json and cache.json come from the compiled prompts.              *)
WriteRouting(b) ==
  /\ builder[b].pc = "routing"
  /\ dist' = Written(dist, "routing", builder[b].read)
  /\ builder' = [builder EXCEPT ![b].pc = "tools"]
  /\ UNCHANGED lock /\ Unbuilt

(* tools.json and the tool assets are made from what the agents say by now. *)
WriteTools(b) ==
  /\ builder[b].pc = "tools"
  /\ IF source["agent"].form # "sound"
     THEN builder' = [builder EXCEPT ![b] = Ending(@)] /\ UNCHANGED dist
     ELSE /\ dist' = Written(dist, "tools", source["agent"])
          /\ builder' = [builder EXCEPT ![b].pc = "manifest"]
  /\ UNCHANGED lock /\ Unbuilt

(* write_manifest hashes the tree it finds, and reads every source again.   *)
ManifestOf(b) ==
  [hash |-> [source |-> source, lock |-> builder[b].locked],
   files |-> Restrict(dist, DOMAIN dist \ {"manifest"})]
WriteManifest(b) ==
  /\ builder[b].pc = "manifest"
  /\ dist' = Written(dist, "manifest", ManifestOf(b))
  /\ builder' = [builder EXCEPT ![b] = IF @.frozen THEN Ending(@) ELSE [@ EXCEPT !.pc = "lock"]]
  /\ UNCHANGED lock /\ Unbuilt

(* Only a frozen build leaves the lockfile alone.                           *)
RewriteLock(b) ==
  /\ builder[b].pc = "lock"
  /\ lock' = [edit |-> builder[b].locked, stamp |-> (lock.stamp + 1) % Stamps]
  /\ builder' = [builder EXCEPT ![b] = Ending(@)]
  /\ UNCHANGED dist /\ Unbuilt

(* Someone stops the builder.                                               *)
Kill(b) ==
  /\ builder[b].pc # "off" /\ events < MaxEvents
  /\ events' = events + 1
  /\ builder' = [builder EXCEPT ![b] = Off]
  /\ UNCHANGED <<source, lock, dist, stored, session>>
-----------------------------------------------------------------------------
(* A run: run_live and run_resume.                                          *)

Unrun == UNCHANGED <<source, lock, dist, builder, events>>
Set(s, r) == session' = [session EXCEPT ![s] = r]
Fail(s) == Set(s, [session[s] EXCEPT !.pc = "failed", !.manifest = Empty, !.got = Empty, !.pinned = Empty])

(* load_artifact_bundle and load_dir both begin with manifest.json.         *)
OpenBundle(s) ==
  /\ session[s].pc = "new"
  /\ IF "manifest" \in DOMAIN dist
     THEN Set(s, [session[s] EXCEPT !.pc = "verify", !.manifest = dist["manifest"]])
     ELSE Fail(s)
  /\ UNCHANGED stored /\ Unrun

(* Every file the manifest lists must be there and have the hash it lists;  *)
(* they are read in the order of their paths.                               *)
Before(f) == CASE f \in Prompt -> {} [] f = "routing" -> Prompt [] OTHER -> Prompt \cup {"routing"}
VerifyFile_Unchecked(s, f) ==
  LET r == session[s] IN
  /\ r.pc = "verify" /\ f \in DOMAIN r.manifest.files \ DOMAIN r.got
  /\ Before(f) \cap DOMAIN r.manifest.files \subseteq DOMAIN r.got
  /\ IF f \in DOMAIN dist
     THEN Set(s, [r EXCEPT !.got = Written(@, f, dist[f])])
     ELSE Fail(s)
  /\ UNCHANGED stored /\ Unrun
VerifyFile(s, f) ==
  LET r == session[s] IN
  /\ r.pc = "verify" /\ f \in DOMAIN r.manifest.files \ DOMAIN r.got
  /\ Before(f) \cap DOMAIN r.manifest.files \subseteq DOMAIN r.got
  /\ IF f \in DOMAIN dist /\ dist[f] = r.manifest.files[f]
     THEN Set(s, [r EXCEPT !.got = Written(@, f, dist[f])])
     ELSE Fail(s)
  /\ UNCHANGED stored /\ Unrun

(* ingest_artifact_bundle: the first bundle of a config_hash stays.         *)
StoredHashes == {bundle.hash : bundle \in stored}
Ingest(s) ==
  LET r == session[s] IN
  /\ r.pc = "verify" /\ DOMAIN r.got = DOMAIN r.manifest.files
  /\ stored' = IF r.manifest.hash \in StoredHashes THEN stored
               ELSE stored \cup {[hash |-> r.manifest.hash, files |-> r.got]}
  /\ Set(s, [r EXCEPT !.pc = "open", !.manifest = Empty, !.got = Empty])
  /\ Unrun

(* prepare_live_daemon reads dist/ again, and compares nothing.             *)
OpenDist(s) ==
  /\ session[s].pc = "open"
  /\ IF "manifest" \in DOMAIN dist
     THEN Set(s, [session[s] EXCEPT !.pc = "routing", !.pinned = dist["manifest"].hash])
     ELSE Fail(s)
  /\ UNCHANGED stored /\ Unrun

LoadRouting(s) ==
  /\ session[s].pc = "routing"
  /\ IF "routing" \in DOMAIN dist
     THEN Set(s, [session[s] EXCEPT !.pc = "prompts", !.got = Restrict(dist, {"routing"})])
     ELSE Fail(s)
  /\ UNCHANGED stored /\ Unrun

(* The prompts that prompts/ happens to hold.  tools.json is optional.       *)
LoadPrompts(s) ==
  LET r == session[s]
      found == DOMAIN dist \cap Prompt IN
  /\ r.pc = "prompts"
  /\ Set(s, [r EXCEPT !.pc = "loaded",
       !.got = [f \in DOMAIN r.got \cup found |-> IF f \in found THEN dist[f] ELSE r.got[f]]])
  /\ UNCHANGED stored /\ Unrun

(* start_session pins the build_hash of the manifest that was loaded.       *)
StartSession(s) ==
  /\ session[s].pc = "loaded"
  /\ Set(s, [session[s] EXCEPT !.pc = "live", !.got = Empty])
  /\ UNCHANGED stored /\ Unrun

Die(s) ==
  /\ session[s].pc = "live"
  /\ Set(s, [session[s] EXCEPT !.pc = "dead"])
  /\ UNCHANGED stored /\ Unrun

(* `run --resume` runs the bundle stored under the pinned hash, or bails.   *)
Resume(s) ==
  /\ session[s].pc = "dead" /\ session[s].pinned \in StoredHashes
  /\ Set(s, [session[s] EXCEPT !.pc = "live"])
  /\ UNCHANGED stored /\ Unrun

(* `sessions migrate` asks only that the new hash is stored.                *)
Migrate(s, hash) ==
  /\ session[s].pc \in {"live", "dead"}
  /\ Set(s, [session[s] EXCEPT !.pinned = hash])
  /\ UNCHANGED stored /\ Unrun
-----------------------------------------------------------------------------
Step(b) ==
  \/ Poll(b)
  \/ \E p \in Prompt : Compile(b, p)
  \/ \E f \in DOMAIN dist : ClearFile(b, f)
  \/ MakeDir(b)
  \/ \E p \in Prompt : WritePrompt(b, p)
  \/ WriteRouting(b)
  \/ WriteTools(b)
  \/ WriteManifest(b)
  \/ RewriteLock(b)

Run(s) ==
  \/ OpenBundle(s)
  \/ \E f \in Artifact : VerifyFile(s, f)
  \/ Ingest(s)
  \/ OpenDist(s)
  \/ LoadRouting(s)
  \/ LoadPrompts(s)
  \/ StartSession(s)
  \/ Die(s)
  \/ Resume(s)
  \/ \E hash \in StoredHashes : Migrate(s, hash)

DistNext ==
  \/ \E f \in Source, form \in {"sound", "unparsed", "rejected"} : Edit(f, form)
  \/ EditLock
  \/ \E b \in Builder : Step(b) \/ Kill(b)
  \/ \E b \in Builder, watching \in BOOLEAN, frozen \in Frozen : Begin(b, watching, frozen)
  \/ \E s \in Session : Run(s)

DistSpec == DistInit /\ [][DistNext]_distVars

(* A build and a watcher's loop go on until they end; nobody has to start one. *)
FairDistSpec == DistSpec /\ \A b \in Builder : WF_distVars(Step(b))
-----------------------------------------------------------------------------
(* The values of the variables.                                             *)
Files == UNION {[F -> Content] : F \in SUBSET Prompt}
DistTypeOK ==
  /\ source \in [Source -> Content]
  /\ lock \in [edit : 0..MaxEvents, stamp : 0..Stamps - 1]
  /\ DOMAIN dist \subseteq Artifact \cup {"manifest"}
  /\ \A b \in Builder :
       /\ builder[b].pc \in BuildPcs /\ builder[b].todo \subseteq Prompt
       /\ builder[b].read \in Files /\ builder[b].locked \in 0..MaxEvents
  /\ \A s \in Session :
       /\ session[s].pc \in RunPcs /\ DOMAIN session[s].got \subseteq Artifact
       /\ session[s].pc \in {"live", "dead"} => session[s].pinned \in Hash
  /\ StoredHashes \subseteq Hash

(* Under a manifest.json lies what it lists, or a hole that a rebuild is     *)
(* making: a build clears dist/ first and writes the manifest last.         *)
ManifestCovers ==
  "manifest" \in DOMAIN dist =>
    \A f \in DOMAIN dist \ {"manifest"} :
      /\ f \in DOMAIN dist["manifest"].files
      /\ dist[f] = dist["manifest"].files[f]

(* The routes among these files were compiled from the prompts among them.  *)
OfOneBuild(files) ==
  /\ Prompt \cup {"routing"} \subseteq DOMAIN files
  /\ \A p \in Prompt : files["routing"][p] = files[p]

(* What the artifact store holds, and so what a resumed session runs, is the *)
(* outcome of one build, whenever the run read dist/ during rebuilds, failed *)
(* builds and kills of the builder.                                         *)
BundlesAreWhole == \A bundle \in stored : OfOneBuild(bundle.files)

(* dist/ is what a build of the sources as they are would write.            *)
UpToDate ==
  /\ "manifest" \in DOMAIN dist
  /\ dist["manifest"].hash = [source |-> source, lock |-> lock.edit]
  /\ \A p \in Prompt : p \in DOMAIN dist /\ dist[p] = source[p]
  /\ "tools" \in DOMAIN dist /\ dist["tools"] = source["agent"]

(* A watcher that keeps running rebuilds after an edit, also after one made  *)
(* while it was building, so dist/ comes to be what sound sources say.      *)
Sound == \A f \in Source : source[f].form = "sound"
DistCatchesUp ==
  \A b \in Builder : <>[](builder[b].watching /\ Sound) => []<>UpToDate

(* build.rs:820 "then again every time a watched source changes": a watcher  *)
(* starts a build only after an edit, so without one it comes to rest.      *)
WatchQuiesces ==
  \A b \in Builder : <>[](builder[b].watching) => <>[](builder[b].pc = "poll")

(* cybersin-spec.md:144 a session is resumed against its pinned hash: what   *)
(* it pins is in the store.                                                 *)
PinnedIsStored ==
  \A s \in Session : session[s].pc = "live" => session[s].pinned \in StoredHashes

(* What a session loads is the outcome of one build.                        *)
LoadedIsOneBuild == \A s \in Session : session[s].pc = "loaded" => OfOneBuild(session[s].got)

(* build.rs:742 "a deterministic hash of the build's actual inputs": the     *)
(* hash in the manifest is of the prompts that were compiled.               *)
HashIsOfInputs ==
  "manifest" \in DOMAIN dist =>
    \A p \in Prompt \cap DOMAIN dist["manifest"].files :
      dist["manifest"].files[p] = dist["manifest"].hash.source[p]

(* What a lockfile holds changes only by an edit.                           *)
LockEditsAreKept == [][lock'.edit # lock.edit => events' # events]_distVars
=============================================================================
