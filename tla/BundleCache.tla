----------------------------- MODULE BundleCache ----------------------------
(***************************************************************************)
(* The credential bundle of one profile: encrypted in the object store,    *)
(* extracted to a cache directory when a server is spawned.  The uploads   *)
(* and deletions of the operator and the materialisations run in threads   *)
(* of their own.  Materialisations take turns under the pool's lock, but   *)
(* the thread of a caller who went away runs on without it.                *)
(***************************************************************************)
EXTENDS Integers, FiniteSets

CONSTANTS
    Worker,        \* materialisations
    Edit,          \* uploads and deletions of the bundle
    File           \* the files of a bundle for the gateway

ASSUME BundleAssumption == IsFiniteSet(Edit)

VARIABLES
    versions,      \* bundles uploaded so far
    object,        \* the version in the store, 0 if none: also its etag
    cache,         \* the cache directory
    worker,        \* materialisation -> where it is
    turn,          \* the worker whose caller holds the pool's lock, if any
    edit,          \* edit -> where it is
    wiped,         \* history: worker -> others wiped the cache since its HeadObject
    torn           \* history: the cache was last wiped while another extracted

historyVars == <<wiped, torn>>
bundleVars == <<versions, object, cache, worker, turn, edit, historyVars>>

NoCache == [files |-> [f \in File |-> 0], manifest |-> 0, marker |-> 0]
Asleep == [pc |-> "idle", etag |-> 0, blob |-> 0, todo |-> {}, env |-> [f \in File |-> 0]]
Version == 0..Cardinality(Edit)

BundleTypeOK ==
    /\ versions \in Version /\ object \in Version
    /\ cache \in [files : [File -> Version], manifest : Version, marker : Version]
    /\ worker \in [Worker -> [pc : {"idle", "checking", "getting", "wiping", "extracting", "manifest",
                                    "marking", "mapping", "done", "failed"},
                              etag : Version, blob : Version, todo : SUBSET File, env : [File -> Version]]]
    /\ turn \in SUBSET Worker /\ Cardinality(turn) <= 1
    /\ edit \in [Edit -> {"idle", "cleaning", "done"}]
    /\ wiped \in [Worker -> BOOLEAN] /\ torn \in BOOLEAN

BundleInit ==
    /\ versions = 0 /\ object = 0 /\ cache = NoCache /\ turn = {}
    /\ worker = [w \in Worker |-> Asleep]
    /\ edit = [e \in Edit |-> "idle"]
    /\ wiped = [w \in Worker |-> FALSE] /\ torn = FALSE

Materialising(w) == worker[w].pc \notin {"idle", "done", "failed"}
Writing(w) == worker[w].pc \in {"extracting", "manifest", "marking"}

\* rmtree, by the workers ws or, if there is none, by an edit.
Wipe(content, ws) ==
    /\ cache' = content
    /\ wiped' = [v \in Worker |-> wiped[v] \/ (v \notin ws /\ Materialising(v))]
    /\ torn' = (\E v \in Worker \ ws : Writing(v))

WorkerGoes(w, pc) == worker' = [worker EXCEPT ![w].pc = pc]
WorkerEnds(w, pc) == WorkerGoes(w, pc) /\ turn' = turn \ {w}
-----------------------------------------------------------------------------
(* materialize.                                                            *)

\* HEAD.  No bundle: a cache that lingers is removed.
HeadObject(w) ==
    /\ worker[w].pc = "idle" /\ turn = {}
    /\ IF object = 0
       THEN Wipe(NoCache, {w}) /\ WorkerGoes(w, "done") /\ UNCHANGED turn
       ELSE /\ worker' = [worker EXCEPT ![w].pc = "checking", ![w].etag = object]
            /\ turn' = {w} /\ UNCHANGED <<cache, historyVars>>
    /\ UNCHANGED <<versions, object, edit>>

IsFresh(w) == cache.marker = worker[w].etag /\ cache.manifest # 0
CheckFresh(w) ==
    /\ worker[w].pc = "checking"
    /\ WorkerGoes(w, IF IsFresh(w) THEN "mapping" ELSE "getting")
    /\ UNCHANGED <<versions, object, cache, turn, edit, historyVars>>

\* GET, which may return a later bundle than HEAD saw, and decrypt; either may fail.
GetObject(w) ==
    /\ worker[w].pc = "getting"
    /\ \/ WorkerEnds(w, "failed")
       \/ /\ object # 0 /\ UNCHANGED turn
          /\ worker' = [worker EXCEPT ![w].pc = "wiping", ![w].blob = object]
    /\ UNCHANGED <<versions, object, cache, edit, historyVars>>

Wiped_Content == [cache EXCEPT !.files = [f \in File |-> 0]]    \* mutant: marker and manifest are kept
Wiped == NoCache
WipeCache(w) ==
    /\ worker[w].pc = "wiping"
    /\ Wipe(Wiped, {w})
    /\ worker' = [worker EXCEPT ![w].pc = "extracting", ![w].todo = File]
    /\ UNCHANGED <<versions, object, turn, edit>>

ExtractFile(w) ==
    /\ worker[w].pc = "extracting"
    /\ \E f \in worker[w].todo :
          /\ cache' = [cache EXCEPT !.files[f] = worker[w].blob]
          /\ worker' = [worker EXCEPT ![w].todo = @ \ {f},
                          ![w].pc = IF @ = "extracting" /\ worker[w].todo = {f} THEN "manifest" ELSE @]
    /\ UNCHANGED <<versions, object, turn, edit, historyVars>>

\* The process dies, the disk is full, or the directory went away underneath.
ExtractFails(w) ==
    /\ worker[w].pc \in {"extracting", "manifest", "marking"} /\ WorkerEnds(w, "failed")
    /\ UNCHANGED <<versions, object, cache, edit, historyVars>>

WriteManifest(w) ==
    /\ worker[w].pc = "manifest"
    /\ cache' = [cache EXCEPT !.manifest = worker[w].blob]
    /\ WorkerGoes(w, "marking")
    /\ UNCHANGED <<versions, object, turn, edit, historyVars>>

\* The etag is that of the HEAD: a later bundle's content is fetched again.
WriteMarker(w) ==
    /\ worker[w].pc = "marking"
    /\ cache' = [cache EXCEPT !.marker = worker[w].etag]
    /\ WorkerGoes(w, "mapping")
    /\ UNCHANGED <<versions, object, turn, edit, historyVars>>

\* The env names the files that are there.
ManifestEnv(w) ==
    /\ worker[w].pc = "mapping"
    /\ worker' = [worker EXCEPT ![w].pc = "done", ![w].env = cache.files]
    /\ turn' = turn \ {w}
    /\ UNCHANGED <<versions, object, cache, edit, historyVars>>

\* The caller goes away: its lock is free, its thread runs on.
CallerLeaves(w) ==
    /\ w \in turn /\ turn' = {}
    /\ UNCHANGED <<versions, object, cache, worker, edit, historyVars>>

NextCall(w) ==
    /\ worker[w].pc \in {"done", "failed"}
    /\ worker' = [worker EXCEPT ![w] = Asleep]
    /\ wiped' = [wiped EXCEPT ![w] = FALSE]
    /\ UNCHANGED <<versions, object, cache, turn, edit, torn>>
-----------------------------------------------------------------------------
(* The operator's edits: the object first, the cache later.                *)

PutBundle(e) ==
    /\ edit[e] = "idle"
    /\ versions' = versions + 1 /\ object' = versions'
    /\ edit' = [edit EXCEPT ![e] = "cleaning"]
    /\ UNCHANGED <<cache, worker, turn, historyVars>>

DeleteBundle(e) ==
    /\ edit[e] = "idle" /\ object # 0
    /\ object' = 0
    /\ edit' = [edit EXCEPT ![e] = "cleaning"]
    /\ UNCHANGED <<versions, cache, worker, turn, historyVars>>

Cleanup(e) ==
    /\ edit[e] = "cleaning"
    /\ edit' = [edit EXCEPT ![e] = "done"]
    /\ Wipe(NoCache, {})
    /\ UNCHANGED <<versions, object, worker, turn>>

BundleNext ==
    \/ \E w \in Worker : \/ HeadObject(w) \/ CheckFresh(w) \/ GetObject(w) \/ WipeCache(w) \/ ExtractFile(w)
                         \/ ExtractFails(w) \/ WriteManifest(w) \/ WriteMarker(w) \/ ManifestEnv(w)
                         \/ CallerLeaves(w) \/ NextCall(w)
    \/ \E e \in Edit : PutBundle(e) \/ DeleteBundle(e) \/ Cleanup(e)

BundleSpec == BundleInit /\ [][BundleNext]_bundleVars
-----------------------------------------------------------------------------
\* A torn extract never looks fresh, and a changed bundle is extracted anew: a
\* server is given all files, of one bundle no older than the one its HEAD saw -
\* unless the cache was wiped meanwhile, or while another thread extracted to it.
WholeBundle == \A w \in Worker :
    worker[w].pc = "mapping" /\ ~wiped[w] /\ ~torn =>
        \E v \in Version : v >= worker[w].etag /\ \A f \in File : cache.files[f] = v
=============================================================================
