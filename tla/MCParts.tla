------------------------------ MODULE MCParts -------------------------------
(* One run for four parts that do not interact in the model: the migrations  *)
(* of the database (Schema), the capture upload (Captures), the wake-word    *)
(* trainer (Forge) and the turns of Home Assistant with an announcement      *)
(* among them (HaTurns).  `part` picks the one that moves; the others stay   *)
(* in one of their initial states.                                           *)
EXTENDS HaTurns, TLC

CONSTANTS WakeCaps, StopCaps, Names, Conns, QueueCapacity, UntriagedCap,
          MaxEvents,                                                             \* Captures
          Custom, Piper, Google, Files, Folders, Streams, Rows, Mixes, MaxKills,
          MaxEdits,                                                              \* Forge
          Builds, MaxBoots                                                       \* Schema

VARIABLES part,
          queue, dcfg, up, wire, ctl, cfg, dataWs, rx, h, lock, saved, adm, made, acked, removed,
          torn, offSaved, wiped, left,
          assets, cv, unreadable, clips, mix, feats, manifest, model, report, work, request, taint,
          kills, edits,
          db, baks, pc, run, failures, boots

C == INSTANCE Captures WITH disk <- saved, deleted <- wiped
F == INSTANCE Forge WITH disk <- assets, job <- work
M == INSTANCE Schema WITH faults <- failures

\* File names and connections are numbered from 1, and no bucket is called None.
ASSUME CaptureNames ==
    Names \subseteq Nat \ {0} /\ Conns \subseteq Nat \ {0} /\ None \notin C!Buckets

ASSUME RowsBound == Rows \in Nat

\* A controller knows the first so many migrations of the list.
ASSUME KnownBuilds == Builds \subseteq 0..M!Latest

captureVars == <<queue, dcfg, up, wire, ctl, cfg, dataWs, rx, h, lock, saved, adm, made, acked,
                 removed, torn, offSaved, wiped, left>>
forgeVars == <<assets, cv, unreadable, clips, mix, feats, manifest, model, report, work, request,
               taint, kills, edits>>
schemaVars == <<db, baks, pc, run, failures, boots>>
PartsVars == <<part, vars, captureVars, forgeVars, schemaVars>>

\* The captures of the wake word are alike; nothing else takes them apart.
Symmetry == Permutations(WakeCaps)

PartsInit ==
    /\ part \in {"captures", "forge", "schema", "turns"}
    /\ Init /\ C!Init
    /\ M!Init /\ (part # "schema" => db = M!Reached[0])
    /\ F!Init /\ (part # "forge" => unreadable = 0 /\ mix = CHOOSE m \in Mixes : TRUE)

PartsNext ==
    /\ UNCHANGED part
    /\ \/ part = "captures" /\ C!Next
          /\ UNCHANGED vars /\ UNCHANGED forgeVars /\ UNCHANGED schemaVars
       \/ part = "forge" /\ F!Next
          /\ UNCHANGED vars /\ UNCHANGED captureVars /\ UNCHANGED schemaVars
       \/ part = "schema" /\ M!Next
          /\ UNCHANGED vars /\ UNCHANGED captureVars /\ UNCHANGED forgeVars
       \/ part = "turns" /\ Next
          /\ UNCHANGED captureVars /\ UNCHANGED forgeVars /\ UNCHANGED schemaVars

PartsSpec == PartsInit /\ [][PartsNext]_PartsVars

\* The properties of the instances, stated in their modules; an instance that does
\* not move has them too.
KeptOnce == C!AckedIsKept /\ C!StoredOnce
OptOutKeepsNothing == C!OptOutKeepsNothing
TrainsOnWhatIsThere == F!FreshFeatures /\ F!CorpusIsFull
EveryQueryRuns == M!EveryQueryRuns
BackedUpFirst == M!BackedUpFirst
=============================================================================
