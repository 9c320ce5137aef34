----------------------------- MODULE OfflineDay -----------------------------
(***************************************************************************)
(* The offline processing of one market and one trading day: the files     *)
(* core/data_pipeline.py and core/post_market/ derive from the raw lines,  *)
(* and the jobs that derive them one after the other: the daily build of   *)
(* the API, its post-market report, and scripts/run_post_market.sh.  A job *)
(* may die between any two of its files.  Collections go on meanwhile.     *)
(*                                                                         *)
(* Jobs do not overlap here, so that a file written by write_json_atomic   *)
(* changes in one step (AtomicFile, SerialWritesAreAtomic).                *)
(***************************************************************************)
EXTENDS Naturals, FiniteSets

CONSTANTS
    Window,         \* the trading windows of the day
    MaxRaw,         \* bound on the collections
    MaxJobs,        \* bound on the jobs
    MaxDeaths       \* bound on the jobs that die

Derived == {"normalized", "daily", "quality", "summary", "timeline", "features",
            "health", "narrative"}
Archive == {"gz", "sha", "manifest"}
File    == Derived \cup Archive \cup Window

\* The files that are written under their own name, each in a step of its own.
InPlace == {"gz", "sha", "narrative"}

ASSUME DayConstants ==
    /\ Window # {} /\ IsFiniteSet(Window)
    /\ Window \cap (Derived \cup Archive) = {}
    /\ MaxRaw \in Nat /\ MaxJobs \in Nat /\ MaxDeaths \in Nat

VARIABLES
    raw,            \* collections in the raw file, 0: no file
    disk,           \* the derived files
    job, step,      \* the job under way, and its step
    todo, kept,     \* windows the step has still to handle, what it works with
    answer,         \* how the last job ended
    jobs, deaths    \* spent of MaxJobs and of MaxDeaths

vars == <<raw, disk, job, step, todo, kept, answer, jobs, deaths>>

\* A file, reduced to the collections it was made of, the windows that went
\* into it, and its finalized mark.
Content == [of : SUBSET (0..MaxRaw), parts : SUBSET Window, fin : BOOLEAN]

\* No file at all is made of nothing and marked, which no file on disk is.
Blank  == [of |-> {}, parts |-> {}, fin |-> FALSE]
NoFile == [of |-> {}, parts |-> {}, fin |-> TRUE]
Torn   == [of |-> {0}, parts |-> {}, fin |-> FALSE]

Exists(f)   == disk[f] # NoFile
Windows     == {x \in Window : Exists(x)}
Made(of)    == [Blank EXCEPT !.of = of]
Merged(fs)  == [of    |-> UNION {disk[f].of : f \in fs},
                parts |-> UNION {disk[f].parts : f \in fs}, fin |-> FALSE]
Marked(c)   == [c EXCEPT !.fin = TRUE]

Job    == {"daily", "post"}
Step   == {"idle", "normalize", "metrics", "windows", "daily", "quality",
           "finalize", "marks", "summary", "timeline", "features",
           "gz", "sha", "manifest", "health", "narrative"}
Answer == {"none", "ok", "died", "skipped"}

Init ==
    /\ raw = 0 /\ disk = [f \in File |-> NoFile]
    /\ job = "daily" /\ step = "idle" /\ todo = {} /\ kept = Blank
    /\ answer = "none" /\ jobs = 0 /\ deaths = 0

-----------------------------------------------------------------------------
\* POST /collect/run: lines are appended to the raw file.
Collect ==
    /\ raw < MaxRaw /\ raw' = raw + 1
    /\ UNCHANGED <<disk, job, step, todo, kept, answer, jobs, deaths>>

\* run_post_market.sh looks for the finalized mark of the day before it starts.
AlreadyFinalized == Exists("daily") /\ disk["daily"].fin

Start(j) ==
    /\ step = "idle" /\ jobs < MaxJobs
    /\ job' = j /\ step' = "normalize" /\ answer' = "none" /\ jobs' = jobs + 1
    /\ UNCHANGED <<raw, disk, todo, kept, deaths>>

ScriptSkips ==
    /\ step = "idle" /\ jobs < MaxJobs
    /\ AlreadyFinalized
    /\ job' = "post" /\ answer' = "skipped" /\ jobs' = jobs + 1
    /\ UNCHANGED <<raw, disk, step, todo, kept, deaths>>

\* Mutant: what a job still had to do is left to the next one.
Leave_KeepsPlan(how) ==
    step' = "idle" /\ answer' = how /\ UNCHANGED <<todo, kept>>

Leave(how) ==
    step' = "idle" /\ todo' = {} /\ kept' = Blank /\ answer' = how

\* The file that the step opens under its own name, if any.
Opened == {f \in InPlace : step = f /\ (f = "gz" => raw # 0)}

\* The process of the job dies, or a step of it raises; the files stay as they
\* are, but for one that is being written in place.
Die ==
    /\ step # "idle" /\ deaths < MaxDeaths /\ deaths' = deaths + 1
    /\ Leave("died")
    /\ disk' \in {disk} \cup {[disk EXCEPT ![f] = Torn] : f \in Opened}
    /\ UNCHANGED <<raw, job, jobs>>

-----------------------------------------------------------------------------
(* The steps of a job. *)

At(s) == step = s /\ UNCHANGED <<raw, job, jobs, deaths>>

GoTo(s) == step' = s /\ UNCHANGED <<todo, kept, answer>>
Put(f, c) == disk' = [disk EXCEPT ![f] = c]

Normalize ==
    /\ At("normalize") /\ GoTo("metrics")
    /\ IF raw = 0 THEN UNCHANGED disk ELSE Put("normalized", Made({raw}))

Metrics ==
    /\ At("metrics")
    /\ IF ~Exists("normalized")
       THEN GoTo("daily")
       ELSE /\ step' = "windows" /\ UNCHANGED answer
            /\ kept' = disk["normalized"] /\ todo' = Window
    /\ UNCHANGED disk

\* Mutant: a window that has a file is not built again.
NextWindow_SkipsExisting ==
    /\ At("windows") /\ UNCHANGED answer
    /\ \/ /\ todo = {} /\ step' = "daily" /\ kept' = Blank
          /\ UNCHANGED <<disk, todo>>
       \/ \E x \in todo :
            /\ IF Exists(x) THEN UNCHANGED disk
                            ELSE Put(x, [kept EXCEPT !.parts = {x}])
            /\ todo' = todo \ {x} /\ UNCHANGED <<kept, step>>

NextWindow ==
    /\ At("windows") /\ UNCHANGED answer
    /\ \/ /\ todo = {} /\ step' = "daily" /\ kept' = Blank
          /\ UNCHANGED <<disk, todo>>
       \/ \E x \in todo :
            /\ Put(x, [kept EXCEPT !.parts = {x}])
            /\ todo' = todo \ {x} /\ UNCHANGED <<kept, step>>

\* The metrics directory is there once metrics_day found a normalized file.
MetricsDir == Exists("normalized")

Daily ==
    /\ At("daily") /\ GoTo("quality")
    /\ IF MetricsDir THEN Put("daily", Merged(Windows)) ELSE UNCHANGED disk

Quality ==
    /\ At("quality")
    /\ IF raw = 0 \/ ~Exists("normalized") \/ ~MetricsDir
       THEN UNCHANGED disk
       ELSE Put("quality", Made({raw} \cup Merged({"normalized"} \cup Windows).of))
    /\ IF job = "daily" THEN Leave("ok") ELSE GoTo("finalize")

\* finalize_market_day works with the day it reads first.
Finalize ==
    /\ At("finalize")
    /\ IF ~Exists("daily") \/ disk["daily"].fin
       THEN GoTo("summary")
       ELSE /\ step' = "marks" /\ UNCHANGED answer
            /\ kept' = disk["daily"] /\ todo' = Windows
    /\ UNCHANGED disk

NextMark ==
    /\ At("marks") /\ UNCHANGED answer
    /\ \/ /\ todo = {} /\ Put("daily", Marked(kept)) /\ step' = "summary"
          /\ kept' = Blank /\ UNCHANGED todo
       \/ \E x \in todo :
            /\ Put(x, Marked(disk[x]))
            /\ todo' = todo \ {x} /\ UNCHANGED <<kept, step>>

Product(f, sources, next) ==
    /\ At(f) /\ GoTo(next)
    /\ Put(f, Merged({g \in sources : Exists(g)}))

Products ==
    \/ Product("summary", {"daily", "quality"}, "timeline")
    \/ Product("timeline", Window, "features")
    \/ Product("features", {"daily", "quality"}, "gz")

\* archive_raw: the archive, its checksum, and the manifest.
Gzip ==
    /\ At("gz")
    /\ IF raw = 0 THEN UNCHANGED disk /\ GoTo("manifest")
                  ELSE Put("gz", Made({raw})) /\ GoTo("sha")

\* Mutant: the checksum file of an earlier archive stays.
Sha_KeepsFirst ==
    /\ At("sha") /\ IF Exists("sha") THEN UNCHANGED disk ELSE Put("sha", Made(disk["gz"].of))
    /\ step' = "manifest" /\ kept' = Made(disk["gz"].of)
    /\ UNCHANGED <<todo, answer>>

\* The checksum is that of the archive.
Sha ==
    /\ At("sha") /\ Put("sha", Made(disk["gz"].of))
    /\ step' = "manifest" /\ kept' = Made(disk["gz"].of)
    /\ UNCHANGED <<todo, answer>>

\* The manifest quotes the checksum, and has the size of the raw file as it is
\* by now; without a raw file it says only that.
Manifest ==
    /\ At("manifest")
    /\ Put("manifest", IF kept = Blank THEN Blank ELSE Made(kept.of \cup {raw}))
    /\ step' = "health" /\ kept' = Blank /\ UNCHANGED <<todo, answer>>

Health ==
    /\ At("health") /\ GoTo("narrative")
    /\ Put("health", Merged({g \in {"quality"} : Exists(g)}))

\* A day of poor quality gets a narrative that only says so.
Narrative ==
    /\ At("narrative") /\ Leave("ok")
    /\ \/ Put("narrative", Merged({g \in {"daily", "quality"} : Exists(g)}))
       \/ Exists("quality") /\ Put("narrative", Merged({"quality"}))

Work ==
    \/ Normalize \/ Metrics \/ NextWindow \/ Daily \/ Quality
    \/ Finalize \/ NextMark \/ Products
    \/ Gzip \/ Sha \/ Manifest \/ Health \/ Narrative

Next ==
    \/ Collect \/ (\E j \in Job : Start(j)) \/ ScriptSkips \/ Die
    \/ Work

Spec == Init /\ [][Next]_vars

-----------------------------------------------------------------------------
TypeOK ==
    /\ raw \in 0..MaxRaw
    /\ disk \in [File -> Content]
    /\ job \in Job /\ step \in Step
    /\ todo \in SUBSET Window /\ (todo # {} => step \in {"windows", "marks"})
    /\ kept \in Content
    /\ kept # Blank => step \in {"windows", "marks", "manifest"}
    /\ answer \in Answer
    /\ jobs \in 0..MaxJobs /\ deaths \in 0..MaxDeaths

\* At any time, whatever jobs died before, the day (daily.json) is made of all
\* its windows, and all of them were built from the same collections, although
\* each of them is a file of its own.
DayIsOneBuild ==
    Exists("daily") =>
        /\ disk["daily"].parts = Window
        /\ \E n \in 1..raw : disk["daily"].of = {n}

DayIsFinal ==
    Exists("daily") =>
        disk["daily"].fin /\ \A x \in Window : Exists(x) /\ disk[x].fin

ProductsAgree ==
    /\ \A f \in {"summary", "features"} :
         disk[f].of = disk["daily"].of \cup disk["quality"].of
    /\ disk["narrative"].of \in {disk["summary"].of, disk["quality"].of}
    /\ disk["timeline"].of = disk["daily"].of
    /\ disk["health"].of = disk["quality"].of

\* The archive has a checksum of its own, which the manifest quotes, and holds
\* no fewer collections than the day was built from.  The manifest may also
\* count what was collected since the archive was made (archive.py:32), and
\* nothing else: where its size is not that of the archived lines, the archive
\* lacks the last collections.
ArchiveMatches ==
    /\ Exists("manifest")
    /\ Exists("gz") =>
         /\ Exists("sha") /\ disk["sha"].of = disk["gz"].of
         /\ disk["gz"].of \subseteq disk["manifest"].of
         /\ \A m \in disk["manifest"].of \ disk["gz"].of :
              \A n \in disk["gz"].of : n < m /\ m <= raw
    /\ \A n \in disk["daily"].of : \E m \in disk["gz"].of : n <= m

\* A post-market job that was answered leaves a day that is final down to its
\* windows, products made of that very day, and an archive of it with a checksum
\* and a manifest of its own, the manifest's size apart if lines were collected
\* while it was made; and so does a script that found the day "already
\* finalized" (run_post_market.sh:16), unless a job died.
PostMarketIsDone ==
    step = "idle" /\ job = "post"
      /\ (answer = "ok" \/ (answer = "skipped" /\ deaths = 0))
        => DayIsFinal /\ ProductsAgree /\ ArchiveMatches
=============================================================================
