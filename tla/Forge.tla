------------------------------- MODULE Forge -------------------------------
(* The wake-word trainer: jobs that download assets, embed a speech corpus,  *)
(* synthesise clips and build a model, and the web UI that starts them and   *)
(* edits a wake word between them (src/oww_forge/forge.py, forge_web.py,     *)
(* feature_store.py, google_tts.py, piper_voices.py).                        *)
(*                                                                           *)
(* Everything lives in files.  A job is a process of its own, one at a time, *)
(* and may be cancelled or die between any two steps; the files stay.  The   *)
(* UI's editing requests look for a running job first and take effect after  *)
(* an await (the body, an upload, a list of voices), when a job may run.     *)
EXTENDS Naturals, FiniteSets

CONSTANTS Custom, Piper, Google,   \* clips of a wake word, by source
          Files,                   \* assets that are one file
          Folders,                 \* assets that are extracted into a folder
          Streams,                 \* feature arrays embedded from a stream
          Rows,                    \* clips of the speech corpus
          Mixes,                   \* training mixes of a wake word
          MaxKills,                \* bound: jobs cancelled or crashed
          MaxEdits,                \* bound: editing requests
          None

Clips == Custom \cup Piper \cup Google
Assets == Files \cup Folders \cup Streams

VARIABLES
    disk,      \* what is there of an asset
    cv,        \* the embedded corpus: rows on disk, checkpoint, the two files, the finished one
    unreadable,\* corpus clips that do not decode
    clips, mix,\* a wake word: its clips and config.yml
    feats,     \* its feature arrays: made from which clips and mix, and whole
    manifest,  \* .feature_sources.json
    model,     \* the model that was published last
    report,    \* what its evaluation says of it
    job,       \* the process
    request,   \* an editing request that has found no job
    taint,     \* ways the feature arrays were got at outside of the pipeline
    kills, edits

workspace == <<clips, mix, feats, manifest, model, report, taint>>
vars == <<disk, cv, unreadable, workspace, job, request, kills, edits>>

Idle == [kind |-> "none", pc |-> "done", asset |-> None, written |-> 0, mix |-> None, arrays |-> None, made |-> FALSE]
Arrays == [clips : SUBSET Clips, mix : Mixes, whole : BOOLEAN]
Pcs == {"open", "part", "create", "append", "checkpoint", "complete", "unlink", "read", "config", "generate", "augment",
        "run", "copy", "copying", "manifest", "check", "train", "publish", "evaluate", "synth", "done"}

TypeOK ==
    /\ disk \in [Assets -> {"none", "part", "whole"}]
    /\ cv \in [rows : SUBSET (1..Rows), written : 0..Rows, part : BOOLEAN, checkpoint : BOOLEAN, done : BOOLEAN]
    /\ unreadable \in 0..1
    /\ clips \subseteq Clips /\ mix \in Mixes
    /\ feats \in Arrays \cup {None} /\ model \in Arrays \cup {None}
    /\ manifest \in [clips : SUBSET Clips, mix : Mixes] \cup {None}
    /\ job.kind \in {"none", "assets", "corpus", "build", "synth"} /\ job.pc \in Pcs
    /\ request \in {"none", "import", "prune", "mix"}
    /\ report \in {"none", "current", "stale"}
    /\ taint \subseteq {"overlap", "torn"}

Init ==
    /\ disk = [a \in Assets |-> "none"]
    /\ cv = [rows |-> {}, written |-> 0, part |-> FALSE, checkpoint |-> FALSE, done |-> FALSE]
    /\ unreadable \in 0..1
    /\ clips = {} /\ mix \in Mixes /\ feats = None /\ manifest = None /\ model = None /\ report = "none"
    /\ job = Idle /\ request = "none" /\ taint = {} /\ kills = 0 /\ edits = 0

----------------------------------------------------------------------------
(* The job slot. *)

Running == job.kind # "none"
Step(pc) == job' = [job EXCEPT !.pc = pc]
Exit == job' = Idle

Start(kind, pc, a) ==
    /\ ~Running
    /\ job' = [Idle EXCEPT !.kind = kind, !.pc = pc, !.asset = a]
    /\ UNCHANGED <<disk, cv, unreadable, workspace, request, kills, edits>>

\* from the first array that is copied to the manifest the old manifest stands
Kill ==
    /\ Running /\ kills < MaxKills
    /\ Exit /\ kills' = kills + 1
    /\ taint' = IF job.pc \in {"copying", "manifest"} THEN taint \cup {"torn"} ELSE taint
    /\ UNCHANGED <<disk, cv, unreadable, clips, mix, feats, manifest, model, report, request, edits>>

----------------------------------------------------------------------------
(* Assets. *)

StartAssets(a) == Start("assets", "open", a)
At(pc) == job.pc = pc /\ UNCHANGED <<unreadable, request, kills, edits>>

\* an extraction skips a folder that holds anything
Present(a) == disk[a] = "whole" \/ (a \in Folders /\ disk[a] # "none")

Fetch ==
    /\ job.kind = "assets" /\ At("open") /\ job.asset \notin Streams
    /\ IF Present(job.asset)
       THEN Exit /\ UNCHANGED disk
       ELSE Step("part") /\ disk' = [disk EXCEPT ![job.asset] = "part"]
    /\ UNCHANGED <<cv, workspace>>

\* the chunks are kept in memory until they are written at once
Embed ==
    /\ job.kind = "assets" /\ At("open") /\ job.asset \in Streams
    /\ IF Present(job.asset) THEN Exit ELSE Step("part")
    /\ UNCHANGED <<disk, cv, workspace>>

\* the .part file is renamed; the last clip is extracted
Fetched ==
    /\ job.kind = "assets" /\ At("part")
    /\ Exit /\ disk' = [disk EXCEPT ![job.asset] = "whole"]
    /\ UNCHANGED <<cv, workspace>>

\* nothing can be read, the server refuses
FetchFails ==
    /\ job.kind = "assets" /\ At("part") /\ Exit
    /\ UNCHANGED <<disk, cv, workspace>>

----------------------------------------------------------------------------
(* The corpus: rows appended to a .part file next to a checkpoint. *)

StartCorpus == Start("corpus", "open", None)
InCorpus(pc) == job.kind = "corpus" /\ At(pc) /\ UNCHANGED <<disk, workspace>>

\* the file is there, or half of its checkpoint is: either way nothing is done
OpenWriter ==
    /\ InCorpus("open")
    /\ UNCHANGED cv
    /\ IF cv.done \/ cv.part # cv.checkpoint THEN Exit
       ELSE IF cv.part THEN job' = [job EXCEPT !.pc = "append", !.written = cv.written]
       ELSE Step("create")

\* the memory map of zeros, then the checkpoint
CreatePart ==
    /\ InCorpus("create")
    /\ IF cv.part
       THEN Step("append") /\ cv' = [cv EXCEPT !.checkpoint = TRUE, !.written = 0]
       ELSE cv' = [cv EXCEPT !.part = TRUE, !.rows = {}] /\ UNCHANGED job

Readable == Rows - unreadable

Append ==
    /\ InCorpus("append") /\ job.written < Readable
    /\ cv' = [cv EXCEPT !.rows = @ \cup {job.written + 1}]
    /\ job' = [job EXCEPT !.pc = "checkpoint", !.written = @ + 1]

\* mutant for CorpusIsFull: the count is saved before the rows are flushed
AppendUnflushed ==
    /\ InCorpus("append") /\ job.written < Readable
    /\ IF cv.written = job.written
       THEN cv' = [cv EXCEPT !.written = @ + 1] /\ UNCHANGED job
       ELSE /\ cv' = [cv EXCEPT !.rows = @ \cup {job.written + 1}]
            /\ job' = [job EXCEPT !.written = @ + 1]
AppendRow == Append

WriteCheckpoint ==
    /\ InCorpus("checkpoint")
    /\ cv' = [cv EXCEPT !.written = job.written]
    /\ Step("append")

\* every row must be there: a corpus with a clip that does not decode never is
Complete ==
    /\ InCorpus("append") /\ job.written = Readable
    /\ IF job.written = Rows
       THEN cv' = [cv EXCEPT !.part = FALSE, !.done = TRUE] /\ Step("unlink")
       ELSE Exit /\ UNCHANGED cv

Unlink ==
    /\ InCorpus("unlink")
    /\ cv' = [cv EXCEPT !.checkpoint = FALSE, !.written = 0] /\ Exit

----------------------------------------------------------------------------
(* Clips from text to speech. *)

StartSynth(source) == Start("synth", "synth", source)

\* clips that are there are skipped, so an interrupted run is taken up again
Synthesize(c) ==
    /\ job.kind = "synth" /\ At("synth")
    /\ c \in (IF job.asset = "google" THEN Google ELSE Piper) \ clips
    /\ clips' = clips \cup {c}
    /\ UNCHANGED <<disk, cv, mix, feats, manifest, model, report, job, taint>>

Synthesized ==
    /\ job.kind = "synth" /\ At("synth") /\ Exit
    /\ UNCHANGED <<disk, cv, workspace>>

----------------------------------------------------------------------------
(* The build. *)

\* a wake word that uses the corpus: api_build and cmd_build ask for all of it
Missing == {a \in Assets : ~Present(a)} \cup IF cv.done THEN {} ELSE {"corpus"}

StartBuild == Missing = {} /\ Start("build", "read", None)
InBuild(pc) == job.kind = "build" /\ At(pc) /\ UNCHANGED <<disk, cv>>

Stale(m) ==
    \/ feats = None
    \/ manifest = None
    \/ manifest # [clips |-> clips, mix |-> m]

ReadConfig ==
    /\ InBuild("read")
    /\ job' = [job EXCEPT !.pc = "config", !.mix = mix]
    /\ UNCHANGED workspace

\* the config as it was read is written back; the build starts at any step
WriteConfig ==
    /\ InBuild("config")
    /\ mix' = job.mix
    /\ \E pc \in {"generate", "augment", "check"} : Step(pc)
    /\ UNCHANGED <<clips, feats, manifest, model, report, taint>>

Generate ==
    /\ InBuild("generate")
    /\ \E new \in SUBSET Piper : clips' = clips \cup new
    /\ Step("augment")
    /\ UNCHANGED <<mix, feats, manifest, model, report, taint>>

\* mutant for FreshFeatures: stale arrays are not made anew
RebuildsIfNone == feats = None
Rebuilds == Stale(job.mix)

\* the view is linked, with copies of the arrays there are; arrays in the view
\* are made only when there are none or they are to be overwritten
Augment ==
    /\ InBuild("augment")
    /\ job' = [job EXCEPT !.pc = "run", !.made = Rebuilds,
                   !.arrays = IF Rebuilds THEN [clips |-> clips, mix |-> job.mix, whole |-> TRUE] ELSE feats]
    /\ UNCHANGED workspace

RunAugment ==
    /\ InBuild("run") /\ job.arrays.clips # {}
    /\ Step("copy") /\ UNCHANGED workspace

AugmentFails == InBuild("run") /\ Exit /\ UNCHANGED workspace

\* one array after the other
CopyArrays ==
    /\ InBuild("copy") /\ Step("copying")
    /\ feats' = [job.arrays EXCEPT !.whole = FALSE]
    /\ UNCHANGED <<clips, mix, manifest, model, report, taint>>

CopiedArrays ==
    /\ InBuild("copying") /\ Step("manifest")
    /\ feats' = job.arrays
    /\ UNCHANGED <<clips, mix, manifest, model, report, taint>>

\* the clips are listed as they are now
WriteManifest ==
    /\ InBuild("manifest") /\ Step("check")
    /\ manifest' = [clips |-> clips, mix |-> job.mix]
    /\ taint' = IF job.made THEN (IF clips = job.arrays.clips THEN {} ELSE taint \ {"torn"}) ELSE taint
    /\ UNCHANGED <<clips, mix, feats, model, report>>

CheckFeatures ==
    /\ InBuild("check")
    /\ IF Stale(job.mix) THEN Exit ELSE job' = [job EXCEPT !.pc = "train", !.arrays = feats]
    /\ UNCHANGED workspace

Train == InBuild("train") /\ (Exit \/ Step("publish")) /\ UNCHANGED workspace

Publish ==
    /\ InBuild("publish") /\ Step("evaluate")
    /\ model' = job.arrays
    /\ UNCHANGED <<clips, mix, feats, manifest, report, taint>>

StartEvaluate == model # None /\ Start("build", "evaluate", None)

\* the report warns when the arrays there are now are stale, not when the model is
Evaluate ==
    /\ InBuild("evaluate") /\ Exit
    /\ report' = IF Stale(mix) THEN "stale" ELSE "current"
    /\ UNCHANGED <<clips, mix, feats, manifest, model, taint>>

----------------------------------------------------------------------------
(* The UI. *)

Request(r) ==
    /\ ~Running /\ request = "none" /\ edits < MaxEdits
    /\ request' = r /\ edits' = edits + 1
    /\ UNCHANGED <<disk, cv, unreadable, workspace, job, kills>>

\* a change of the clips while a build has linked them
Touches == job.kind = "build" /\ job.pc \in {"run", "copy", "copying", "manifest"}

Effect(new) ==
    /\ clips' = new /\ request' = "none"
    /\ taint' = IF Touches /\ new # clips THEN taint \cup {"overlap"} ELSE taint
    /\ UNCHANGED <<disk, cv, unreadable, mix, feats, manifest, model, report, job, kills, edits>>

Import == request = "import" /\ Effect(clips \cup Custom)
Prune == request = "prune" /\ Effect(clips \ Google)
DeletePiper == request = "prune" /\ Effect(clips \ Piper)

SetMix(m) ==
    /\ request = "mix"
    /\ mix' = m /\ request' = "none"
    /\ UNCHANGED <<disk, cv, unreadable, clips, feats, manifest, model, report, job, taint, kills, edits>>

\* the wake word goes unless a job of its own runs
Delete ==
    /\ ~Running /\ edits < MaxEdits
    /\ edits' = edits + 1
    /\ clips' = {} /\ feats' = None /\ manifest' = None /\ model' = None /\ report' = "none" /\ taint' = {} /\ request' = "none"
    /\ UNCHANGED <<disk, cv, unreadable, mix, job, kills>>

BuildStep ==
    \/ ReadConfig \/ WriteConfig \/ Generate \/ Augment \/ RunAugment \/ AugmentFails \/ CopyArrays \/ CopiedArrays
    \/ WriteManifest \/ CheckFeatures \/ Train \/ Publish \/ Evaluate
CorpusStep == OpenWriter \/ CreatePart \/ AppendRow \/ WriteCheckpoint \/ Complete \/ Unlink
JobStep == Fetch \/ Embed \/ Fetched \/ FetchFails \/ CorpusStep \/ Synthesized \/ BuildStep

Next ==
    \/ JobStep \/ Kill
    \/ \E a \in Assets : StartAssets(a)
    \/ StartCorpus \/ StartBuild \/ StartEvaluate
    \/ \E source \in {"google", "piper"} : StartSynth(source)
    \/ \E c \in Clips : Synthesize(c)
    \/ \E r \in {"import", "prune", "mix"} : Request(r)
    \/ Import \/ Prune \/ DeletePiper \/ \E m \in Mixes : SetMix(m)
    \/ Delete

Spec == Init /\ [][Next]_vars

----------------------------------------------------------------------------
(* Properties. *)

Made == [clips |-> clips, mix |-> mix, whole |-> TRUE]

\* Feature arrays that count as current are whole and were made from the clips
\* and the mix there are, whatever was killed or edited, but for two windows:
\* an edit that takes effect while a build works on its linked view, and a kill
\* from the copy of the arrays to the manifest.  features_stale, cmd_build.
FreshFeatures == ~Stale(mix) /\ ~Running /\ taint = {} => feats = Made

\* forge.py, cmd_build: "a manifest is what prevents fresh Chirp/imported
\* clips from being trained as stale data."  An import that found no job may
\* take effect while one augments.
FreshAlways == ~Stale(mix) /\ ~Running => feats.clips = clips

\* A finished corpus holds every row, through kills at any point, and until then
\* the checkpoint never claims a row that is not there.
\* feature_store.ResumableFeatureWriter.
CorpusIsFull ==
    /\ cv.done => cv.rows = 1..Rows
    /\ cv.checkpoint => 1..cv.written \subseteq cv.rows

\* forge.py, evaluate_model: "this model was not trained on the current
\* dataset".  A report without that warning may be about an older model.
ReportIsTrue == ~Running /\ report = "current" /\ ~Stale(mix) /\ taint = {} => model.clips = clips

\* An asset that counts as present is whole: README.md, "assets skips
\* completed parts".  Extractions interrupted half way count as well.
PresentIsWhole == \A a \in Assets : Present(a) /\ ~(job.kind = "assets" /\ job.asset = a) => disk[a] = "whole"
=============================================================================
