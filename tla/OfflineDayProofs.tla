-------------------------- MODULE OfflineDayProofs --------------------------
(* What the offline day promises, in files and in numbers: OfflineDay for any *)
(* windows and any number of collections, jobs and deaths, and QuoteRows for   *)
(* any symbols, any lengths of the windows and any answers of the provider.   *)
EXTENDS OfflineDay, QuoteRows, FiniteSetTheorems, SequenceTheorems,
        WellFoundedInduction, TLAPS

-----------------------------------------------------------------------------
(* Files. *)

LEMMA MergedType ==
    ASSUME disk \in [File -> Content], NEW fs \in SUBSET File
    PROVE  Merged(fs) \in Content
BY DEF Merged, Content

LEMMA ContentTypes ==
    /\ Blank \in Content /\ NoFile \in Content /\ Torn \in Content
    /\ \A of \in SUBSET (0..MaxRaw) : Made(of) \in Content
    /\ \A c \in Content : Marked(c) \in Content
    /\ \A c \in Content, x \in Window : [c EXCEPT !.parts = {x}] \in Content
<1> USE DayConstants DEF Content
<1>1. Blank \in Content /\ NoFile \in Content
  BY DEF Blank, NoFile
<1>2. Torn \in Content
  BY DEF Torn
<1>3. \A of \in SUBSET (0..MaxRaw) : Made(of) \in Content
  BY DEF Made, Blank
<1>4. \A c \in Content : Marked(c) \in Content
  BY DEF Marked
<1>5. \A c \in Content, x \in Window : [c EXCEPT !.parts = {x}] \in Content
  OBVIOUS
<1> QED
  BY <1>1, <1>2, <1>3, <1>4, <1>5

LEMMA FileNames ==
    /\ {"normalized", "daily", "quality", "summary", "timeline", "features",
        "health", "narrative", "gz", "sha", "manifest"} \subseteq File
    /\ Window \subseteq File /\ Windows \subseteq Window
    /\ \A x \in Window : x \notin Derived \cup Archive
BY DayConstants DEF File, Derived, Archive, Windows

-----------------------------------------------------------------------------
LEMMA TypeInit == Init => TypeOK
<1> SUFFICES ASSUME Init PROVE TypeOK
  OBVIOUS
<1>1. disk \in [File -> Content] /\ kept \in Content
  BY ContentTypes DEF Init
<1> QED
  BY <1>1, DayConstants DEF Init, TypeOK, Job, Step, Answer

LEMMA TypeNext == TypeOK /\ [Next]_vars => TypeOK'
<1> SUFFICES ASSUME TypeOK, [Next]_vars PROVE TypeOK'
  OBVIOUS
<1> USE DayConstants, ContentTypes, FileNames DEF TypeOK, Job, Step, Answer
<1>0. CASE UNCHANGED vars
  BY <1>0 DEF vars
<1>1. CASE Collect
  BY <1>1 DEF Collect
<1>2. CASE \E j \in Job : Start(j)
  BY <1>2 DEF Start
<1>3. CASE ScriptSkips
  BY <1>3 DEF ScriptSkips
<1>4. CASE Die
  <2>1. disk' \in [File -> Content]
    BY <1>4 DEF Die
  <2> QED
    BY <1>4, <2>1 DEF Die, Leave
<1>5. CASE Normalize
  BY <1>5 DEF Normalize, At, GoTo, Put
<1>6. CASE Metrics
  BY <1>6 DEF Metrics, At, GoTo
<1>7. CASE NextWindow
  <2>1. ASSUME NEW x \in todo, Put(x, [kept EXCEPT !.parts = {x}])
        PROVE  disk' \in [File -> Content]
    BY <2>1 DEF Put
  <2> QED
    BY <1>7, <2>1 DEF NextWindow, At
<1>8. CASE Daily
  BY <1>8, MergedType DEF Daily, At, GoTo, Put
<1>9. CASE Quality
  <2>1. Merged({"normalized"} \cup Windows).of \in SUBSET (0..MaxRaw)
    BY MergedType DEF Content
  <2>2. Made({raw} \cup Merged({"normalized"} \cup Windows).of) \in Content
    BY <2>1
  <2> QED
    BY <1>9, <2>2 DEF Quality, At, GoTo, Put, Leave
<1>10. CASE Finalize
  BY <1>10 DEF Finalize, At, GoTo
<1>11. CASE NextMark
  <2>1. ASSUME NEW x \in todo, Put(x, Marked(disk[x]))
        PROVE  disk' \in [File -> Content]
    BY <2>1 DEF Put
  <2> QED
    BY <1>11, <2>1 DEF NextMark, At, Put
<1>12. CASE Products
  <2>1. \A fs \in SUBSET File : Merged({g \in fs : Exists(g)}) \in Content
    BY MergedType
  <2>2. {"daily", "quality"} \in SUBSET File /\ Window \in SUBSET File
    BY DEF Derived
  <2> QED
    BY <1>12, <2>1, <2>2 DEF Products, Product, At, GoTo, Put, Derived
<1>13. CASE Gzip
  BY <1>13 DEF Gzip, At, GoTo, Put
<1>14. CASE Sha
  <2>1. Made(disk["gz"].of) \in Content
    BY DEF Content, Archive
  <2> QED
    BY <1>14, <2>1 DEF Sha, At, Put
<1>15. CASE Manifest
  <2>1. Blank \in Content /\ (kept \in Content => Made(kept.of \cup {raw}) \in Content)
    BY DEF Made, Blank, Content, TypeOK
  <2> QED
    BY <1>15, <2>1 DEF Manifest, At, Put
<1>16. CASE Health
  <2>1. Merged({g \in {"quality"} : Exists(g)}) \in Content
    BY MergedType DEF Derived
  <2> QED
    BY <1>16, <2>1 DEF Health, At, GoTo, Put
<1>17. CASE Narrative
  <2>1. /\ Merged({g \in {"daily", "quality"} : Exists(g)}) \in Content
        /\ Merged({"quality"}) \in Content
    BY MergedType DEF Derived
  <2> QED
    BY <1>17, <2>1 DEF Narrative, At, Leave, Put
<1> QED
  BY <1>0, <1>1, <1>2, <1>3, <1>4, <1>5, <1>6, <1>7, <1>8, <1>9, <1>10,
     <1>11, <1>12, <1>13, <1>14, <1>15, <1>16, <1>17 DEF Next, Work

\* A job at rest holds no plan, and the disk holds nothing but files of the day
\* (the steps of run_post_market_pipeline, post_market_pipeline.py:26-46).
THEOREM DayTypeCorrect == Spec => []TypeOK
BY TypeInit, TypeNext, PTL DEF Spec

-----------------------------------------------------------------------------
(* A day is one build.  A job builds every window, from the one normalized    *)
(* file it loaded, before it makes the day of them; where an earlier job left *)
(* windows behind that it rebuilt in part, they are all built again first.    *)

OneOf(c)     == \E n \in 1..raw : c.of = {n}
Built(x, of) == disk[x].of = of /\ disk[x].parts = {x}

BuildInv ==
    /\ Exists("normalized") => OneOf(disk["normalized"])
    /\ step = "windows" =>
         OneOf(kept) /\ \A x \in Window \ todo : Built(x, kept.of)
    /\ step = "daily" /\ MetricsDir =>
         \E n \in 1..raw : \A x \in Window : Built(x, {n})
    /\ step = "marks" => OneOf(kept) /\ kept.parts = Window
    /\ DayIsOneBuild

LEMMA AbsentIsEmpty == NoFile.of = {} /\ NoFile.fin
BY DEF NoFile

LEMMA MarkingKeeps ==
    ASSUME NEW c \in Content
    PROVE  /\ Marked(c) \in Content /\ Marked(c).of = c.of /\ Marked(c).fin
           /\ c.of # {} => Marked(c) # NoFile
<1>1. Marked(c) \in Content
  BY ContentTypes
<1>2. Marked(c).of = c.of /\ Marked(c).fin
  BY DEF Marked, Content
<1> QED
  BY <1>1, <1>2, AbsentIsEmpty

LEMMA MergedWindows ==
    ASSUME NEW n, \A x \in Window : Built(x, {n})
    PROVE  Merged(Windows).of = {n} /\ Merged(Windows).parts = Window
<1>1. \A x \in Window : Exists(x)
  <2> SUFFICES ASSUME NEW x \in Window, disk[x] = NoFile PROVE FALSE
    BY DEF Exists
  <2> QED
    BY AbsentIsEmpty DEF Built
<1>2. Windows = Window
  BY <1>1 DEF Windows
<1>3. UNION {disk[x].of : x \in Window} = {n}
  <2>1. \E x \in Window : TRUE
    BY DayConstants
  <2> QED
    BY <2>1 DEF Built
<1>4. UNION {disk[x].parts : x \in Window} = Window
  BY DEF Built
<1> QED
  BY <1>2, <1>3, <1>4 DEF Merged

LEMMA BuildInit == Init => BuildInv
BY FileNames DEF Init, BuildInv, Exists, DayIsOneBuild

LEMMA BuildNext == TypeOK /\ BuildInv /\ [Next]_vars => BuildInv'
<1> SUFFICES ASSUME TypeOK, BuildInv, [Next]_vars PROVE BuildInv'
  OBVIOUS
<1> USE DayConstants, FileNames
    DEF TypeOK, BuildInv, OneOf, Built, DayIsOneBuild, MetricsDir, Exists
<1>0. CASE UNCHANGED vars
  BY <1>0 DEF vars
<1>1. CASE Collect
  <2>1. \A n \in 1..raw : n \in 1..raw'
    BY <1>1 DEF Collect
  <2>2. UNCHANGED <<disk, step, todo, kept>>
    BY <1>1 DEF Collect
  <2> QED
    BY <2>1, <2>2
<1>2. CASE \E j \in Job : Start(j)
  BY <1>2 DEF Start
<1>3. CASE ScriptSkips
  BY <1>3 DEF ScriptSkips
<1>4. CASE Die
  <2>1. \A f \in File \ InPlace : disk'[f] = disk[f]
    BY <1>4 DEF Die, Opened
  <2> QED
    BY <1>4, <2>1 DEF Die, Leave, InPlace, Derived, Archive
<1>5. CASE Normalize
  <2>1. raw # 0 => OneOf(Made({raw}))
    BY DEF Made, Blank
  <2> QED
    BY <1>5, <2>1 DEF Normalize, At, GoTo, Put
<1>6. CASE Metrics
  BY <1>6 DEF Metrics, At, GoTo
<1>7. CASE NextWindow
  <2>1. CASE todo = {}
    BY <1>7, <2>1 DEF NextWindow, At
  <2>2. ASSUME NEW x \in todo, Put(x, [kept EXCEPT !.parts = {x}]),
               todo' = todo \ {x}, UNCHANGED <<raw, kept, step>>
        PROVE  BuildInv'
    <3>1. /\ disk'[x].of = kept.of /\ disk'[x].parts = {x}
          /\ \A f \in File : f # x => disk'[f] = disk[f]
      BY <2>2, ContentTypes DEF Put, Content
    <3>2. step = "windows"
      BY <1>7 DEF NextWindow, At
    <3> QED
      BY <2>2, <3>1, <3>2 DEF Derived, Archive
  <2> QED
    BY <1>7, <2>1, <2>2 DEF NextWindow, At
<1>8. CASE Daily
  <2>1. CASE ~MetricsDir
    BY <1>8, <2>1 DEF Daily, At, GoTo
  <2>2. CASE MetricsDir
    <3>1. PICK n \in 1..raw : \A x \in Window : Built(x, {n})
      BY <1>8, <2>2 DEF Daily, At
    <3>2. Merged(Windows).of = {n} /\ Merged(Windows).parts = Window
      BY <3>1, MergedWindows
    <3>3. disk' = [disk EXCEPT !["daily"] = Merged(Windows)] /\ raw' = raw
          /\ step' = "quality"
      BY <1>8, <2>2 DEF Daily, At, GoTo, Put
    <3>4. disk'["daily"].of = {n} /\ disk'["daily"].parts = Window
          /\ disk'["normalized"] = disk["normalized"]
      BY <3>2, <3>3
    <3> QED
      BY <3>3, <3>4
  <2> QED
    BY <2>1, <2>2
<1>9. CASE Quality
  BY <1>9 DEF Quality, At, GoTo, Put, Leave
<1>10. CASE Finalize
  BY <1>10 DEF Finalize, At, GoTo
<1>11. CASE NextMark
  <2>1. ASSUME todo = {}, Put("daily", Marked(kept))
        PROVE  disk'["daily"].of = kept.of /\ disk'["daily"].parts = kept.parts
    BY <2>1 DEF Put, Marked, Content
  <2>2. CASE todo = {}
    BY <1>11, <2>1, <2>2 DEF NextMark, At, Put
  <2>3. ASSUME NEW x \in todo, Put(x, Marked(disk[x])), UNCHANGED <<raw, kept, step>>
        PROVE  BuildInv'
    <3>1. step = "marks" /\ x \in Window
      BY <1>11 DEF NextMark, At
    <3> QED
      BY <2>3, <3>1 DEF Put, Derived, Archive
  <2> QED
    BY <1>11, <2>2, <2>3 DEF NextMark, At
<1>12. CASE Products
  BY <1>12 DEF Products, Product, At, GoTo, Put, Derived
<1>13. CASE Gzip
  BY <1>13 DEF Gzip, At, GoTo, Put
<1>14. CASE Sha
  BY <1>14 DEF Sha, At, Put
<1>15. CASE Manifest
  BY <1>15 DEF Manifest, At, Put
<1>16. CASE Health
  BY <1>16 DEF Health, At, GoTo, Put
<1>17. CASE Narrative
  BY <1>17 DEF Narrative, At, Put, Leave
<1> QED
  BY <1>0, <1>1, <1>2, <1>3, <1>4, <1>5, <1>6, <1>7, <1>8, <1>9, <1>10,
     <1>11, <1>12, <1>13, <1>14, <1>15, <1>16, <1>17 DEF Next, Work

\* daily.json is at all times made of every window, all of them built from the
\* same raw lines, whatever jobs died between two files
\* (data_pipeline.py:657-720).
THEOREM DayIsWhole == Spec => []DayIsOneBuild
<1>1. BuildInv => DayIsOneBuild
  BY DEF BuildInv
<1> QED
  BY <1>1, TypeInit, TypeNext, BuildInit, BuildNext, PTL DEF Spec

-----------------------------------------------------------------------------
(* A post-market job that is answered leaves nothing undone.  What each step  *)
(* of the job has made is still there when the job ends, because the later    *)
(* steps write other files, and collections change none of them.             *)

Done == DayIsFinal /\ ProductsAgree /\ ArchiveMatches

\* Nothing is derived before the first collection.
Inputs ==
    /\ \A x \in Window \cup {"daily"} : Exists(x) => Exists("normalized")
    /\ raw = 0 => ~Exists("normalized") /\ ~Exists("gz") /\ ~Exists("sha")

\* From its day on, a job finds the windows that went into it.
Rebuilds ==
    /\ step = "windows" => Exists("normalized")
    /\ step \notin {"idle", "normalize", "metrics", "windows", "daily"} =>
         (Exists("normalized") =>
            /\ Exists("daily")
            /\ \A x \in Window : Exists(x) /\ disk[x].of = disk["daily"].of)
    /\ step \in {"quality", "finalize", "marks"} => ~AlreadyFinalized
    /\ step = "marks" =>
         /\ kept = disk["daily"] /\ Exists("daily")
         /\ \A x \in Window \ todo : disk[x].fin

OfBoth(f) == disk[f].of = disk["daily"].of \cup disk["quality"].of

Publishing ==
    {"timeline", "features", "gz", "sha", "manifest", "health", "narrative"}

Produces ==
    /\ step \in Publishing \cup {"summary"} => DayIsFinal
    /\ step \in Publishing => OfBoth("summary")
    /\ step \in Publishing \ {"timeline"} => disk["timeline"].of = disk["daily"].of
    /\ step \in Publishing \ {"timeline", "features"} => OfBoth("features")
    /\ step = "narrative" => disk["health"].of = disk["quality"].of

\* The archive is no older than the day.
Covers == \A n \in disk["daily"].of : \E m \in disk["gz"].of : n <= m

Archives ==
    /\ step = "sha" => raw # 0 /\ Exists("gz") /\ disk["gz"].of # {} /\ Covers
    /\ step = "manifest" =>
         /\ Covers
         /\ Exists("gz") =>
              /\ Exists("sha") /\ disk["sha"].of = disk["gz"].of
              /\ kept # Blank /\ kept.of = disk["gz"].of
    /\ step \in {"sha", "manifest"} => \A n \in disk["gz"].of : n <= raw
    /\ step \in {"health", "narrative"} => ArchiveMatches

Ends ==
    step = "idle" =>
      /\ job = "post" /\ answer = "ok" => Done
      /\ deaths = 0 /\ (AlreadyFinalized \/ answer = "skipped") => Done

PlanInv == Inputs /\ Rebuilds /\ Produces /\ Archives /\ Ends

LEMMA PlanInit == Init => PlanInv
BY FileNames, AbsentIsEmpty
   DEF Init, PlanInv, Inputs, Rebuilds, Produces, Publishing, Archives, Ends,
       Exists, AlreadyFinalized

LEMMA MergedOf ==
    \A fs \in SUBSET File :
        Merged({g \in fs : Exists(g)}).of = UNION {disk[g].of : g \in fs}
<1>1. \A fs \in SUBSET File :
        UNION {disk[f].of : f \in {g \in fs : Exists(g)}}
          = UNION {disk[g].of : g \in fs}
  BY DEF Exists, NoFile
<1> QED
  BY <1>1 DEF Merged

LEMMA PlanNext == TypeOK /\ BuildInv /\ PlanInv /\ [Next]_vars => PlanInv'
<1> SUFFICES ASSUME TypeOK, BuildInv, PlanInv, [Next]_vars PROVE PlanInv'
  OBVIOUS
<1> USE FileNames
<1> USE DEF PlanInv, Inputs, Rebuilds, Produces, Publishing, Archives, Ends,
            Exists, AlreadyFinalized
<1>a. /\ disk \in [File -> Content] /\ raw \in Nat
      /\ Exists("daily") => disk["daily"].of # {}
  BY DayConstants DEF BuildInv, DayIsOneBuild, TypeOK
<1>0. CASE UNCHANGED vars
  BY <1>0 DEF vars, Windows, Done, DayIsFinal, ProductsAgree, ArchiveMatches,
              Covers, OfBoth
<1>1. CASE Collect
  <2>1. /\ \A f \in File : disk[f].of \subseteq Nat
        /\ raw' = raw + 1 /\ disk' = disk /\ step' = step /\ kept' = kept
        /\ job' = job /\ answer' = answer /\ deaths' = deaths /\ todo' = todo
    BY <1>1, <1>a DEF Collect, Content
  <2>2. \A f \in File : \A n \in disk[f].of : n <= raw => n <= raw'
    BY <1>a, <2>1
  <2>3. ArchiveMatches => ArchiveMatches'
    BY <2>1, <2>2 DEF ArchiveMatches, Archive
  <2>4. Inputs' /\ Rebuilds' /\ Produces'
    BY <1>a, <2>1 DEF DayIsFinal, OfBoth
  <2>5. Archives'
    BY <1>a, <2>1, <2>2, <2>3 DEF Covers, Archive
  <2>6. Ends'
    BY <2>1, <2>3 DEF Done, DayIsFinal, ProductsAgree
  <2> QED
    BY <2>4, <2>5, <2>6
<1>2. CASE \E j \in Job : Start(j)
  BY <1>2 DEF Start, Done, DayIsFinal, ProductsAgree, ArchiveMatches,
              Covers, OfBoth
<1>3. CASE ScriptSkips
  BY <1>3 DEF ScriptSkips, Done, DayIsFinal, ProductsAgree, ArchiveMatches,
              Covers, OfBoth
<1>4. CASE Die
  <2>1. \A f \in File \ InPlace : disk'[f] = disk[f]
    BY <1>4, <1>a DEF Die, Opened
  <2>2. raw = 0 => disk'["gz"] = disk["gz"] /\ disk'["sha"] = disk["sha"]
    BY <1>4, <1>a DEF Die, Opened, InPlace
  <2>3. step' = "idle" /\ answer' = "died" /\ deaths' # 0 /\ raw' = raw
    BY <1>4, DayConstants DEF Die, Leave, TypeOK
  <2> QED
    BY <2>1, <2>2, <2>3 DEF InPlace, Derived, Archive
<1>5. CASE Normalize
  <2>1. Made({raw}) # NoFile
    BY DEF Made, Blank, NoFile
  <2>2. /\ \A f \in File \ {"normalized"} : disk'[f] = disk[f]
        /\ Exists("normalized") => Exists("normalized")'
        /\ raw = 0 => disk' = disk
    BY <1>5, <1>a, <2>1 DEF Normalize, At, GoTo, Put
  <2>3. step' = "metrics" /\ raw' = raw
    BY <1>5 DEF Normalize, At, GoTo
  <2> QED
    BY <2>2, <2>3, <1>a DEF Derived, Archive
<1>6. CASE Metrics
  BY <1>6, <1>a DEF Metrics, At, GoTo
<1>7. CASE NextWindow
  <2>1. \A f \in File \ Window : disk'[f] = disk[f]
    BY <1>7, <1>a DEF NextWindow, At, Put, TypeOK
  <2>2. step = "windows" /\ step' \in {"windows", "daily"} /\ raw' = raw
    BY <1>7 DEF NextWindow, At
  <2> QED
    BY <2>1, <2>2 DEF Derived, Archive
<1>8. CASE Daily
  <2>1. step = "daily" /\ step' = "quality" /\ raw' = raw
    BY <1>8 DEF Daily, At, GoTo
  <2>2. CASE ~MetricsDir
    BY <1>8, <2>1, <2>2 DEF Daily, MetricsDir
  <2>3. CASE MetricsDir
    <3>1. PICK n \in 1..raw : \A x \in Window : Built(x, {n})
      BY <2>1, <2>3 DEF BuildInv
    <3>2. Merged(Windows).of = {n} /\ Merged(Windows).fin = FALSE
      BY <3>1, MergedWindows DEF Merged
    <3>3. /\ disk'["daily"] = Merged(Windows)
          /\ \A f \in File \ {"daily"} : disk'[f] = disk[f]
      BY <1>8, <1>a, <2>3 DEF Daily, Put
    <3>4. Exists("daily")' /\ ~AlreadyFinalized'
      BY <3>2, <3>3, AbsentIsEmpty
    <3>5. \A x \in Window : Exists(x)' /\ disk'[x].of = disk'["daily"].of
      <4>1. \A x \in Window : disk'[x] = disk[x] /\ disk[x].of = {n}
        BY <3>1, <3>3 DEF Built, Derived
      <4>2. disk'["daily"].of = {n}
        BY <3>2, <3>3
      <4> QED
        BY <4>1, <4>2, AbsentIsEmpty
    <3>6. Exists("normalized")
      BY <2>3 DEF MetricsDir
    <3> QED
      BY <2>1, <3>3, <3>4, <3>5, <3>6 DEF Derived, Archive
  <2> QED
    BY <2>2, <2>3
<1>9. CASE Quality
  <2>1. /\ \A f \in File \ {"quality"} : disk'[f] = disk[f]
        /\ raw' = raw /\ job' = job
    BY <1>9, <1>a DEF Quality, At, Put
  <2>2. /\ step = "quality"
        /\ \/ step' = "finalize"
           \/ step' = "idle" /\ job = "daily" /\ answer' = "ok"
    BY <1>9 DEF Quality, At, GoTo, Leave
  <2> QED
    BY <2>1, <2>2 DEF Derived, Archive
<1>10. CASE Finalize
  <2>1. step = "finalize" /\ UNCHANGED <<disk, raw>>
    BY <1>10 DEF Finalize, At
  <2>2. CASE ~Exists("daily")
    BY <1>10, <2>1, <2>2 DEF Finalize, GoTo, DayIsFinal
  <2>3. CASE Exists("daily")
    <3>1. step' = "marks" /\ kept' = disk["daily"] /\ todo' = Windows
      BY <1>10, <2>1, <2>3 DEF Finalize
    <3>2. Windows = Window
      BY <2>1, <2>3 DEF Windows
    <3> QED
      BY <2>1, <2>3, <3>1, <3>2
  <2> QED
    BY <2>2, <2>3
<1>11. CASE NextMark
  <2>1. step = "marks" /\ raw' = raw /\ kept = disk["daily"] /\ kept.of # {}
        /\ Exists("normalized")
    BY <1>11, <1>a DEF NextMark, At
  <2>2. \A x \in Window : Exists(x) /\ disk[x].of = kept.of
    BY <2>1
  <2>3. \A c \in Content :
          /\ Marked(c) \in Content /\ Marked(c).of = c.of /\ Marked(c).fin
          /\ c.of # {} => Marked(c) # NoFile
    BY MarkingKeeps
  <2>4. CASE todo = {}
    <3>1. /\ disk'["daily"] = Marked(kept) /\ step' = "summary"
          /\ \A f \in File \ {"daily"} : disk'[f] = disk[f]
      BY <1>11, <1>a, <2>4 DEF NextMark, Put
    <3>2. Exists("daily")' /\ disk'["daily"].fin /\ disk'["daily"].of = kept.of
      BY <2>1, <2>3, <3>1 DEF TypeOK
    <3>3. \A x \in Window : disk'[x] = disk[x] /\ disk[x].fin
      BY <2>1, <2>4, <3>1 DEF Derived
    <3> QED
      BY <2>1, <2>2, <3>1, <3>2, <3>3 DEF DayIsFinal, Derived, Archive
  <2>5. ASSUME NEW x \in todo, Put(x, Marked(disk[x])),
               todo' = todo \ {x}, UNCHANGED <<kept, step>>
        PROVE  PlanInv'
    <3>1. x \in Window
      BY <2>5 DEF TypeOK
    <3>2. /\ disk'[x] = Marked(disk[x])
          /\ \A f \in File \ {x} : disk'[f] = disk[f]
      BY <1>a, <2>5, <3>1 DEF Put
    <3>3. Exists(x)' /\ disk'[x].fin /\ disk'[x].of = kept.of
      BY <1>a, <2>1, <2>2, <2>3, <3>1, <3>2
    <3> QED
      BY <2>1, <2>2, <2>5, <3>1, <3>2, <3>3 DEF Derived, Archive
  <2> QED
    BY <1>11, <2>4, <2>5 DEF NextMark
<1>12. CASE Products
  <2>1. {"daily", "quality"} \in SUBSET File /\ Window \in SUBSET File
    OBVIOUS
  <2>2. Merged({g \in {"daily", "quality"} : Exists(g)}).of
          = disk["daily"].of \cup disk["quality"].of
    <3>1. UNION {disk[g].of : g \in {"daily", "quality"}}
            = disk["daily"].of \cup disk["quality"].of
      OBVIOUS
    <3> QED
      BY <2>1, <3>1, MergedOf
  <2>3. CASE Product("summary", {"daily", "quality"}, "timeline")
    <3>1. /\ disk'["summary"].of = disk["daily"].of \cup disk["quality"].of
          /\ \A f \in File \ {"summary"} : disk'[f] = disk[f]
          /\ step = "summary" /\ step' = "timeline" /\ raw' = raw
      BY <1>a, <2>2, <2>3 DEF Product, At, GoTo, Put
    <3> QED
      BY <3>1 DEF OfBoth, DayIsFinal, Derived, Archive
  <2>4. CASE Product("timeline", Window, "features")
    <3>1. step = "timeline"
      BY <2>4 DEF Product, At
    <3>2. UNION {disk[g].of : g \in Window} = disk["daily"].of
      <4>1. CASE Exists("normalized")
        <5>1. \A x \in Window : disk[x].of = disk["daily"].of
          BY <3>1, <4>1
        <5> QED
          BY <5>1, DayConstants
      <4>2. CASE ~Exists("normalized")
        <5>1. /\ \A x \in Window : disk[x].of = {}
              /\ disk["daily"].of = {}
          BY <4>2, AbsentIsEmpty
        <5> QED
          BY <5>1
      <4> QED
        BY <4>1, <4>2
    <3>3. /\ disk'["timeline"].of = disk["daily"].of
          /\ \A f \in File \ {"timeline"} : disk'[f] = disk[f]
          /\ step' = "features" /\ raw' = raw
      BY <1>a, <2>1, <2>4, <3>2, MergedOf DEF Product, At, GoTo, Put
    <3> QED
      BY <3>1, <3>3 DEF OfBoth, DayIsFinal, Derived, Archive
  <2>5. CASE Product("features", {"daily", "quality"}, "gz")
    <3>1. /\ disk'["features"].of = disk["daily"].of \cup disk["quality"].of
          /\ \A f \in File \ {"features"} : disk'[f] = disk[f]
          /\ step = "features" /\ step' = "gz" /\ raw' = raw
      BY <1>a, <2>2, <2>5 DEF Product, At, GoTo, Put
    <3> QED
      BY <3>1 DEF OfBoth, DayIsFinal, Derived, Archive
  <2> QED
    BY <1>12, <2>3, <2>4, <2>5 DEF Products
<1>13. CASE Gzip
  <2>1. step = "gz" /\ raw' = raw
    BY <1>13 DEF Gzip, At
  <2>2. CASE raw = 0
    <3>1. step' = "manifest" /\ disk' = disk /\ kept' = kept
      BY <1>13, <2>2 DEF Gzip, GoTo
    <3>2. disk["daily"].of = {} /\ disk["gz"].of = {}
      BY <2>1, <2>2, AbsentIsEmpty
    <3> QED
      BY <2>1, <2>2, <3>1, <3>2 DEF Covers, OfBoth, DayIsFinal
  <2>3. CASE raw # 0
    <3>1. /\ disk'["gz"] = Made({raw}) /\ step' = "sha"
          /\ \A f \in File \ {"gz"} : disk'[f] = disk[f]
      BY <1>13, <1>a, <2>3 DEF Gzip, Put, GoTo
    <3>2. Made({raw}) # NoFile /\ Made({raw}).of = {raw}
      BY DEF Made, Blank, NoFile
    <3>3. \A n \in disk["daily"].of : n <= raw
      BY <1>a, AbsentIsEmpty DEF BuildInv, DayIsOneBuild
    <3> QED
      <4>1. Archives'
        BY <1>a, <2>1, <2>3, <3>1, <3>2, <3>3 DEF Covers, Derived, Archive
      <4> QED
        BY <2>1, <2>3, <3>1, <3>2, <4>1, ZenonT(30)
        DEF OfBoth, DayIsFinal, Derived, Archive
  <2> QED
    BY <2>2, <2>3
<1>14. CASE Sha
  <2>1. /\ step = "sha" /\ step' = "manifest" /\ raw' = raw
        /\ disk'["sha"] = Made(disk["gz"].of) /\ kept' = Made(disk["gz"].of)
        /\ \A f \in File \ {"sha"} : disk'[f] = disk[f]
    BY <1>14, <1>a DEF Sha, At, Put
  <2>2. /\ Made(disk["gz"].of).of = disk["gz"].of
        /\ Made(disk["gz"].of).fin = FALSE
    BY DEF Made, Blank
  <2>3. Made(disk["gz"].of) # NoFile /\ (disk["gz"].of # {} => kept' # Blank)
    BY <2>1 DEF Made, Blank, NoFile
  <2>4. Archives'
    BY <1>a, <2>1, <2>2, <2>3 DEF Covers, Derived, Archive
  <2> QED
    BY <2>1, <2>2, <2>3, <2>4 DEF OfBoth, DayIsFinal, Derived, Archive
<1>15. CASE Manifest
  <2> DEFINE new == IF kept = Blank THEN Blank ELSE Made(kept.of \cup {raw})
  <2>1. /\ step = "manifest" /\ step' = "health" /\ raw' = raw
        /\ disk'["manifest"] = new
        /\ \A f \in File \ {"manifest"} : disk'[f] = disk[f]
    BY <1>15, <1>a DEF Manifest, At, Put
  <2>2. new # NoFile
    BY DEF Made, Blank, NoFile
  <2>3. kept # Blank => new.of = kept.of \cup {raw}
    BY DEF Made, Blank
  <2>4. \A n \in disk["gz"].of : n \in Nat
    BY <1>a DEF Content, Archive
  <2> HIDE DEF new
  <2>5. /\ Exists("gz") => disk["gz"].of \subseteq new.of
        /\ Exists("gz") => \A m \in new.of \ disk["gz"].of :
              m = raw /\ \A n \in disk["gz"].of : n < m
    BY <1>a, <2>1, <2>3, <2>4
  <2>6. ArchiveMatches'
    BY <1>a, <2>1, <2>2, <2>5 DEF ArchiveMatches, Covers, Derived, Archive
  <2> QED
    BY <2>1, <2>6 DEF OfBoth, DayIsFinal, Derived, Archive
<1>16. CASE Health
  <2>1. Merged({g \in {"quality"} : Exists(g)}).of = disk["quality"].of
    <3>1. UNION {disk[g].of : g \in {"quality"}} = disk["quality"].of
      OBVIOUS
    <3> QED
      BY <3>1, MergedOf
  <2>2. /\ step = "health" /\ step' = "narrative" /\ raw' = raw
        /\ disk'["health"].of = disk["quality"].of
        /\ \A f \in File \ {"health"} : disk'[f] = disk[f]
    BY <1>16, <1>a, <2>1 DEF Health, At, GoTo, Put
  <2> QED
    BY <2>2 DEF ArchiveMatches, OfBoth, DayIsFinal, Derived, Archive
<1>17. CASE Narrative
  <2>1. Merged({g \in {"daily", "quality"} : Exists(g)}).of
          = disk["daily"].of \cup disk["quality"].of
    <3>1. UNION {disk[g].of : g \in {"daily", "quality"}}
            = disk["daily"].of \cup disk["quality"].of
      OBVIOUS
    <3> QED
      BY <3>1, MergedOf
  <2>2. /\ step = "narrative" /\ step' = "idle" /\ raw' = raw
        /\ disk'["narrative"].of \in
             {disk["daily"].of \cup disk["quality"].of, disk["quality"].of}
        /\ \A f \in File \ {"narrative"} : disk'[f] = disk[f]
    <3>1. Merged({"quality"}).of = disk["quality"].of
      BY DEF Merged
    <3> QED
      BY <1>17, <1>a, <2>1, <3>1 DEF Narrative, At, Leave, Put
  <2>3. DayIsFinal' /\ ArchiveMatches'
    BY <2>2 DEF DayIsFinal, ArchiveMatches, Derived, Archive
  <2>4. ProductsAgree'
    BY <2>2 DEF ProductsAgree, OfBoth, Derived
  <2> QED
    BY <2>2, <2>3, <2>4 DEF Done, Derived, Archive
<1> QED
  BY <1>0, <1>1, <1>2, <1>3, <1>4, <1>5, <1>6, <1>7, <1>8, <1>9, <1>10,
     <1>11, <1>12, <1>13, <1>14, <1>15, <1>16, <1>17 DEF Next, Work

\* An answered post-market job leaves a final day, products made of that very
\* day and an archive with its own checksum and manifest, whose size runs ahead
\* of the archive only by what was collected since; whatever jobs died before; so does a script that skips the day, unless a job died
\* (post_market_pipeline.py:26-46, run_post_market.sh:14-18).
THEOREM PostMarketDone == Spec => []PostMarketIsDone
<1>1. PlanInv => PostMarketIsDone
  BY DEF PlanInv, Ends, PostMarketIsDone, Done
<1> QED
  BY <1>1, TypeInit, TypeNext, BuildInit, BuildNext, PlanInit, PlanNext,
     PTL DEF Spec

-----------------------------------------------------------------------------
(* The numbers of the day. *)

LEMMA LeastNatural ==
    ASSUME NEW T \in SUBSET Nat, T # {}
    PROVE  \E m \in T : \A k \in T : m <= k
<1> DEFINE R == OpToRel(<, Nat)
<1>1. IsWellFoundedOn(R, Nat)
  BY NatLessThanWellFounded
<1>2. \A x, y \in Nat : x < y => <<x, y>> \in R
  BY DEF OpToRel
<1> HIDE DEF R
<1>3. PICK m \in T : \A k \in T : ~(<<k, m>> \in R)
  BY <1>1, WFMin
<1>4. \A k \in T : m <= k
  <2> TAKE k \in T
  <2>1. ~(k < m)
    BY <1>2, <1>3
  <2> QED
    BY <2>1
<1> QED
  BY <1>4

\* Induction, of a set of numbers.
LEMMA EveryNatural ==
    ASSUME NEW G, 0 \in G, \A n \in Nat : n \in G => n + 1 \in G
    PROVE  \A n \in Nat : n \in G
<1> DEFINE T == {n \in Nat : n \notin G}
<1> SUFFICES ASSUME T # {} PROVE FALSE
  OBVIOUS
<1>1. T \in SUBSET Nat
  OBVIOUS
<1>2. PICK m \in T : \A k \in T : m <= k
  <2> HIDE DEF T
  <2> QED
    BY <1>1, LeastNatural
<1>3. m \in Nat /\ m # 0 /\ m \notin G
  OBVIOUS
<1>4. m - 1 \in Nat /\ m - 1 \notin T
  BY <1>2, <1>3
<1>5. m - 1 \in G
  BY <1>4
<1>6. (m - 1) + 1 \in G
  BY <1>4, <1>5
<1> QED
  BY <1>3, <1>6

LEMMA OneLess ==
    ASSUME NEW T, IsFiniteSet(T), NEW x \in T
    PROVE  /\ IsFiniteSet(T \ {x}) /\ Cardinality(T \ {x}) = Cardinality(T) - 1
           /\ Cardinality(T) \in Nat /\ Cardinality(T \ {x}) \in Nat
<1>1. IsFiniteSet(T \ {x}) /\ Cardinality(T \ {x}) = Cardinality(T) - 1
  BY FS_RemoveElement
<1> QED
  BY <1>1, FS_CardinalityType

\* Induction, of a set of finite sets.
LEMMA EveryFiniteSet ==
    ASSUME NEW S, IsFiniteSet(S), NEW G, {} \in G,
           \A T \in SUBSET S : \A x \in S \ T : T \in G => T \cup {x} \in G
    PROVE  S \in G
<1> DEFINE N == {n \in Nat : \A T \in SUBSET S : Cardinality(T) = n => T \in G}
<1>1. \A T \in SUBSET S : IsFiniteSet(T) /\ Cardinality(T) \in Nat
  BY FS_Subset, FS_CardinalityType
<1>2. 0 \in N
  BY <1>1, FS_EmptySet
<1>3. ASSUME NEW n \in Nat, n \in N PROVE n + 1 \in N
  <2> SUFFICES ASSUME NEW T \in SUBSET S, Cardinality(T) = n + 1 PROVE T \in G
    OBVIOUS
  <2>1. T # {}
    <3>1. Cardinality({}) = 0
      BY FS_EmptySet
    <3> QED
      BY <3>1
  <2>2. PICK x \in T : TRUE
    BY <2>1
  <2>3. Cardinality(T \ {x}) = n
    <3>1. Cardinality(T \ {x}) = Cardinality(T) - 1
      BY <1>1, <2>2, OneLess
    <3> QED
      BY <3>1
  <2>4. T \ {x} \in SUBSET S /\ x \in S \ (T \ {x})
    BY <2>2
  <2>5. T \ {x} \in G
    BY <1>3, <2>3, <2>4
  <2>6. (T \ {x}) \cup {x} = T
    BY <2>2
  <2> QED
    BY <2>4, <2>5, <2>6
<1>4. \A n \in Nat : n \in N
  <2> HIDE DEF N
  <2> QED
    BY <1>2, <1>3, EveryNatural
<1> QED
  BY <1>1, <1>4

-----------------------------------------------------------------------------
(* Sums. *)

\* A function that sums f over the subsets of S, one element at a time.
Adds(f, S, g) ==
    g = [s \in SUBSET S |->
            IF s = {} THEN 0
            ELSE f[CHOOSE x \in s : TRUE] + g[s \ {CHOOSE x \in s : TRUE}]]

LEMMA SumIsChosen ==
    ASSUME NEW f, NEW S
    PROVE  SumFunctionOnSet(f, S) = (CHOOSE g : Adds(f, S, g))[S]
BY DEF SumFunctionOnSet, FoldFunctionOnSet, MapThenFoldSet, Adds

LEMMA AddsExists ==
    ASSUME NEW S, IsFiniteSet(S), NEW f, \A x \in S : f[x] \in Int
    PROVE  \E g : Adds(f, S, g)
<1> DEFINE pick(s) == CHOOSE x \in s : TRUE
           more(g) == [s \in SUBSET S |-> IF s = {} THEN 0 ELSE f[pick(s)] + g[s \ {pick(s)}]]
           upTo(n) == {s \in SUBSET S : Cardinality(s) <= n}
           N == {n \in Nat : \E g : \A s \in upTo(n) : g[s] = more(g)[s]}
<1>1. \A s \in SUBSET S : IsFiniteSet(s) /\ Cardinality(s) \in Nat
  BY FS_Subset, FS_CardinalityType
<1>2. \A s : s # {} => pick(s) \in s
  OBVIOUS
<1>3. 0 \in N
  <2> DEFINE g == [s \in SUBSET S |-> 0]
  <2>1. \A s \in upTo(0) : s = {}
    BY <1>1, FS_EmptySet
  <2>2. \A s \in upTo(0) : g[s] = more(g)[s]
    BY <2>1
  <2> QED
    BY <2>2
<1>4. ASSUME NEW n \in Nat, n \in N PROVE n + 1 \in N
  <2>1. PICK g : \A s \in upTo(n) : g[s] = more(g)[s]
    BY <1>4
  <2>2. \A s \in upTo(n + 1) : more(g)[s] = more(more(g))[s]
    <3> SUFFICES ASSUME NEW s \in upTo(n + 1), s # {}
                 PROVE  more(g)[s] = more(more(g))[s]
      OBVIOUS
    <3>1. s \ {pick(s)} \in upTo(n)
      <4>1. /\ Cardinality(s \ {pick(s)}) = Cardinality(s) - 1
            /\ Cardinality(s) \in Nat /\ Cardinality(s \ {pick(s)}) \in Nat
        <5>1. IsFiniteSet(s) /\ pick(s) \in s
          BY <1>1, <1>2
        <5> HIDE DEF pick
        <5> QED
          BY <5>1, OneLess
      <4> QED
        BY <4>1
    <3>2. g[s \ {pick(s)}] = more(g)[s \ {pick(s)}]
      BY <2>1, <3>1
    <3> QED
      BY <3>2
  <2>3. \E h : \A s \in upTo(n + 1) : h[s] = more(h)[s]
    <3> HIDE DEF more, upTo
    <3> QED
      BY <2>2
  <2> QED
    <3> HIDE DEF more, upTo
    <3> QED
      BY <2>3
<1>5. \A n \in Nat : n \in N
  <2> HIDE DEF N
  <2> QED
    BY <1>3, <1>4, EveryNatural
<1>6. PICK g : \A s \in upTo(Cardinality(S)) : g[s] = more(g)[s]
  BY <1>1, <1>5
<1>7. \A s \in SUBSET S : s \in upTo(Cardinality(S))
  BY <1>1, FS_Subset
<1>8. \A s \in SUBSET S : more(g)[s] = more(more(g))[s]
  <2> SUFFICES ASSUME NEW s \in SUBSET S, s # {}
               PROVE  more(g)[s] = more(more(g))[s]
    OBVIOUS
  <2>1. s \ {pick(s)} \in SUBSET S
    OBVIOUS
  <2>2. g[s \ {pick(s)}] = more(g)[s \ {pick(s)}]
    BY <1>6, <1>7, <2>1
  <2> QED
    BY <2>2
<1> QED
  BY <1>8, ZenonT(30) DEF Adds

\* Two of them agree on the sets that both sum.
LEMMA AddsAgree ==
    ASSUME NEW S, IsFiniteSet(S), NEW T \in SUBSET S, NEW f, NEW g, NEW h,
           Adds(f, S, g), Adds(f, T, h)
    PROVE  g[T] = h[T]
<1> DEFINE pick(s) == CHOOSE x \in s : TRUE
           N == {n \in Nat : \A s \in SUBSET T : Cardinality(s) = n => g[s] = h[s]}
<1>1. \A s \in SUBSET T : IsFiniteSet(s) /\ Cardinality(s) \in Nat
  BY FS_Subset, FS_CardinalityType
<1>2. \A s : s # {} => pick(s) \in s
  OBVIOUS
<1>3. 0 \in N
  BY <1>1, FS_EmptySet DEF Adds
<1>4. ASSUME NEW n \in Nat, n \in N PROVE n + 1 \in N
  <2> SUFFICES ASSUME NEW s \in SUBSET T, Cardinality(s) = n + 1 PROVE g[s] = h[s]
    OBVIOUS
  <2>1. s # {}
    <3>1. Cardinality({}) = 0
      BY FS_EmptySet
    <3> QED
      BY <3>1
  <2>2. Cardinality(s \ {pick(s)}) = n
    <3>1. IsFiniteSet(s) /\ pick(s) \in s
      BY <1>1, <1>2, <2>1
    <3>2. Cardinality(s \ {pick(s)}) = Cardinality(s) - 1
      <4> HIDE DEF pick
      <4> QED
        BY <3>1, OneLess
    <3> QED
      BY <3>2
  <2>3. g[s \ {pick(s)}] = h[s \ {pick(s)}]
    BY <1>4, <2>2
  <2>4. g[s] = f[pick(s)] + g[s \ {pick(s)}]
    BY <2>1 DEF Adds
  <2>5. h[s] = f[pick(s)] + h[s \ {pick(s)}]
    BY <2>1 DEF Adds
  <2> QED
    BY <2>3, <2>4, <2>5
<1>5. \A n \in Nat : n \in N
  <2> HIDE DEF N
  <2> QED
    BY <1>3, <1>4, EveryNatural
<1> QED
  BY <1>1, <1>5

LEMMA SumOfNone == \A f : SumFunctionOnSet(f, {}) = 0
<1> TAKE f
<1>1. \E g : Adds(f, {}, g)
  <2>1. Adds(f, {}, [s \in {{}} |-> 0])
    BY DEF Adds
  <2> QED
    BY <2>1
<1>2. PICK g : Adds(f, {}, g) /\ SumFunctionOnSet(f, {}) = g[{}]
  BY <1>1, SumIsChosen
<1> QED
  BY <1>2 DEF Adds

\* The sum of a set is that of one of its elements and the rest, whichever it is.
LEMMA SumOfChosen ==
    ASSUME NEW S, IsFiniteSet(S), S # {}, NEW f, \A x \in S : f[x] \in Int
    PROVE  LET c == CHOOSE x \in S : TRUE
           IN  SumFunctionOnSet(f, S) = f[c] + SumFunctionOnSet(f, S \ {c})
<1> DEFINE c == CHOOSE x \in S : TRUE
           T == S \ {c}
<1>1. T \in SUBSET S /\ IsFiniteSet(T) /\ \A x \in T : f[x] \in Int
  BY FS_RemoveElement
<1> HIDE DEF T
<1>2. PICK g : Adds(f, S, g) /\ SumFunctionOnSet(f, S) = g[S]
  BY AddsExists, SumIsChosen
<1>3. PICK h : Adds(f, T, h) /\ SumFunctionOnSet(f, T) = h[T]
  BY <1>1, AddsExists, SumIsChosen
<1>4. g[T] = h[T]
  BY <1>1, <1>2, <1>3, AddsAgree
<1>5. g[S] = f[c] + g[T]
  BY <1>2 DEF Adds, T
<1> QED
  BY <1>2, <1>3, <1>4, <1>5 DEF T

LEMMA SumType ==
    ASSUME NEW S, IsFiniteSet(S), NEW f, \A x \in S : f[x] \in Int
    PROVE  SumFunctionOnSet(f, S) \in Int
<1> DEFINE G == {T \in SUBSET S : SumFunctionOnSet(f, T) \in Int}
           N == {n \in Nat : \A T \in SUBSET S : Cardinality(T) = n => T \in G}
<1>1. \A T \in SUBSET S : IsFiniteSet(T) /\ Cardinality(T) \in Nat
  BY FS_Subset, FS_CardinalityType
<1>2. 0 \in N
  BY <1>1, FS_EmptySet, SumOfNone
<1>3. ASSUME NEW n \in Nat, n \in N PROVE n + 1 \in N
  <2> SUFFICES ASSUME NEW T \in SUBSET S, Cardinality(T) = n + 1
               PROVE  SumFunctionOnSet(f, T) \in Int
    OBVIOUS
  <2> DEFINE c == CHOOSE x \in T : TRUE
  <2>1. T # {}
    <3>1. Cardinality({}) = 0
      BY FS_EmptySet
    <3> QED
      BY <3>1
  <2>2. c \in T
    BY <2>1
  <2>3. SumFunctionOnSet(f, T) = f[c] + SumFunctionOnSet(f, T \ {c})
    BY <1>1, <2>1, SumOfChosen
  <2> HIDE DEF c
  <2>4. Cardinality(T \ {c}) = Cardinality(T) - 1
    BY <1>1, <2>2, OneLess
  <2>5. SumFunctionOnSet(f, T \ {c}) \in Int
    BY <1>3, <2>4
  <2> QED
    BY <2>2, <2>3, <2>5
<1>4. \A n \in Nat : n \in N
  <2> HIDE DEF N
  <2> QED
    BY <1>2, <1>3, EveryNatural
<1> QED
  BY <1>1, <1>4

\* The sum of a set is that of one of its elements and the rest, whichever it is.
LEMMA SumOfOne ==
    ASSUME NEW S, IsFiniteSet(S), NEW f, \A x \in S : f[x] \in Int
    PROVE  \A x \in S : SumFunctionOnSet(f, S) = f[x] + SumFunctionOnSet(f, S \ {x})
<1> DEFINE Splits(T) ==
             \A x \in T : SumFunctionOnSet(f, T) = f[x] + SumFunctionOnSet(f, T \ {x})
           N == {n \in Nat : \A T \in SUBSET S : Cardinality(T) = n => Splits(T)}
<1>1. \A T \in SUBSET S : IsFiniteSet(T) /\ Cardinality(T) \in Nat
  BY FS_Subset, FS_CardinalityType
<1>2. 0 \in N
  BY <1>1, FS_EmptySet
<1>3. ASSUME NEW n \in Nat, n \in N PROVE n + 1 \in N
  <2> SUFFICES ASSUME NEW T \in SUBSET S, Cardinality(T) = n + 1, NEW x \in T
               PROVE  SumFunctionOnSet(f, T) = f[x] + SumFunctionOnSet(f, T \ {x})
    OBVIOUS
  <2> DEFINE c == CHOOSE y \in T : TRUE
  <2>1. c \in T
    OBVIOUS
  <2>2. SumFunctionOnSet(f, T) = f[c] + SumFunctionOnSet(f, T \ {c})
    BY <1>1, SumOfChosen
  <2> HIDE DEF c
  <2>3. CASE x = c
    BY <2>2, <2>3
  <2>4. CASE x # c
    <3>1. Cardinality(T \ {c}) = n /\ Cardinality(T \ {x}) = n
      BY <1>1, <2>1, OneLess
    <3>2. SumFunctionOnSet(f, T \ {c}) = f[x] + SumFunctionOnSet(f, (T \ {c}) \ {x})
      BY <1>3, <2>4, <3>1
    <3>3. SumFunctionOnSet(f, T \ {x}) = f[c] + SumFunctionOnSet(f, (T \ {x}) \ {c})
      BY <1>3, <2>1, <2>4, <3>1
    <3>4. (T \ {c}) \ {x} = (T \ {x}) \ {c}
      OBVIOUS
    <3>5. SumFunctionOnSet(f, (T \ {c}) \ {x}) \in Int
      <4>1. (T \ {c}) \ {x} \in SUBSET S
        OBVIOUS
      <4> QED
        BY <1>1, <4>1, SumType
    <3>6. f[x] \in Int /\ f[c] \in Int
      BY <2>1
    <3> DEFINE rest == SumFunctionOnSet(f, (T \ {c}) \ {x})
    <3>7. SumFunctionOnSet(f, T) = f[c] + (f[x] + rest)
      BY <2>2, <3>2
    <3>8. SumFunctionOnSet(f, T \ {x}) = f[c] + rest
      BY <3>3, <3>4
    <3>9. rest \in Int
      BY <3>5
    <3> HIDE DEF rest
    <3> QED
      BY <3>6, <3>7, <3>8, <3>9
  <2> QED
    BY <2>3, <2>4
<1>4. \A n \in Nat : n \in N
  <2> HIDE DEF N
  <2> QED
    BY <1>2, <1>3, EveryNatural
<1> QED
  BY <1>1, <1>4

LEMMA SumOfOneMore ==
    ASSUME NEW T, NEW x, x \notin T, IsFiniteSet(T \cup {x}),
           NEW f, \A y \in T \cup {x} : f[y] \in Int
    PROVE  SumFunctionOnSet(f, T \cup {x}) = f[x] + SumFunctionOnSet(f, T)
<1> DEFINE S == T \cup {x}
<1>1. S \ {x} = T /\ x \in S
  OBVIOUS
<1>2. \A y \in S : SumFunctionOnSet(f, S) = f[y] + SumFunctionOnSet(f, S \ {y})
  <2>1. IsFiniteSet(S) /\ \A y \in S : f[y] \in Int
    OBVIOUS
  <2> HIDE DEF S
  <2> QED
    BY <2>1, SumOfOne
<1> QED
  BY <1>1, <1>2

LEMMA SumIsMonotonic ==
    ASSUME NEW S, IsFiniteSet(S), NEW f, NEW h, 
           \A x \in S : f[x] \in Int /\ h[x] \in Int /\ f[x] <= h[x]
    PROVE  SumFunctionOnSet(f, S) <= SumFunctionOnSet(h, S)
<1> DEFINE G == {T \in SUBSET S : SumFunctionOnSet(f, T) <= SumFunctionOnSet(h, T)}
<1>1. \A T \in SUBSET S : IsFiniteSet(T)
  BY FS_Subset
<1>2. {} \in G
  BY SumOfNone
<1>3. ASSUME NEW T \in SUBSET S, NEW x \in S \ T, T \in G PROVE T \cup {x} \in G
  <2>1. T \cup {x} \in SUBSET S /\ x \notin T
    OBVIOUS
  <2>2. SumFunctionOnSet(f, T \cup {x}) = f[x] + SumFunctionOnSet(f, T)
    BY <1>1, <2>1, SumOfOneMore
  <2>3. SumFunctionOnSet(h, T \cup {x}) = h[x] + SumFunctionOnSet(h, T)
    BY <1>1, <2>1, SumOfOneMore
  <2>4. SumFunctionOnSet(f, T) \in Int /\ SumFunctionOnSet(h, T) \in Int
    BY <1>1, SumType
  <2>5. SumFunctionOnSet(f, T) <= SumFunctionOnSet(h, T)
    BY <1>3
  <2> QED
    BY <2>1, <2>2, <2>3, <2>4, <2>5
<1>4. S \in G
  <2> HIDE DEF G
  <2> QED
    BY <1>2, <1>3, EveryFiniteSet
<1> QED
  BY <1>4

LEMMA SumOfNats ==
    ASSUME NEW S, IsFiniteSet(S), NEW f, \A x \in S : f[x] \in Nat
    PROVE  SumFunctionOnSet(f, S) \in Nat
<1> DEFINE G == {T \in SUBSET S : SumFunctionOnSet(f, T) \in Nat}
<1>1. \A T \in SUBSET S : IsFiniteSet(T)
  BY FS_Subset
<1>2. {} \in G
  BY SumOfNone
<1>3. ASSUME NEW T \in SUBSET S, NEW x \in S \ T, T \in G PROVE T \cup {x} \in G
  <2>1. T \cup {x} \in SUBSET S /\ x \notin T /\ \A y \in S : f[y] \in Int
    OBVIOUS
  <2>2. SumFunctionOnSet(f, T \cup {x}) = f[x] + SumFunctionOnSet(f, T)
    BY <1>1, <2>1, SumOfOneMore
  <2>3. f[x] \in Nat /\ SumFunctionOnSet(f, T) \in Nat
    BY <1>3
  <2> QED
    BY <2>1, <2>2, <2>3
<1>4. S \in G
  <2> HIDE DEF G
  <2> QED
    BY <1>2, <1>3, EveryFiniteSet
<1> QED
  BY <1>4

-----------------------------------------------------------------------------
(* Lines, and the windows of a day. *)

LEMMA MaxOfIndices ==
    ASSUME NEW n \in Nat, NEW S \in SUBSET (1..n), S # {}
    PROVE  Max(S) \in S /\ \A j \in S : j <= Max(S)
<1> DEFINE T == {n - i : i \in S}
<1>1. T \in SUBSET Nat
  <2>1. ASSUME NEW i \in S PROVE n - i \in Nat
    BY n - i >= 0
  <2> QED
    BY <2>1
<1>2. T # {}
  OBVIOUS
<1>3. \E m \in T : \A k \in T : m <= k
  <2> HIDE DEF T
  <2> QED
    BY <1>1, <1>2, LeastNatural
<1>4. PICK i \in S : \A j \in S : n - i <= n - j
  BY <1>3
<1>5. \A j \in S : i >= j
  BY <1>4
<1>6. Max(S) \in S /\ \A j \in S : Max(S) >= j
  BY <1>5 DEF Max
<1> QED
  BY <1>6

LEMMA MinOfIndices ==
    ASSUME NEW S \in SUBSET Nat, S # {}
    PROVE  Min(S) \in S /\ \A j \in S : Min(S) <= j
BY LeastNatural DEF Min

LEMMA WindowNumbers ==
    /\ Len(Ticks) \in Nat \ {0} /\ DayWindow = 1..Len(Ticks)
    /\ \A w \in DayWindow : Ticks[w] \in Nat \ {0} /\ Expected[w] \in Nat \ {0}
    /\ DOMAIN Expected = DayWindow
    /\ IsFiniteSet(DayWindow)
<1>1. Ticks \in Seq(Nat \ {0}) /\ Expected \in Seq(Nat \ {0})
  BY RowsConstants
<1>2. Len(Ticks) \in Nat \ {0} /\ DayWindow = 1..Len(Ticks)
  BY <1>1, RowsConstants, LenProperties DEF DayWindow
<1>3. DOMAIN Expected = DayWindow
  BY <1>1, <1>2, RowsConstants, LenProperties
<1>4. \A w \in DayWindow : Ticks[w] \in Nat \ {0} /\ Expected[w] \in Nat \ {0}
  BY <1>1, <1>2, RowsConstants, ElementOfSeq
<1>5. IsFiniteSet(DayWindow)
  BY <1>2, FS_Interval
<1> QED
  BY <1>2, <1>3, <1>4, <1>5

LEMMA WindowEnds ==
    /\ End[0] = 0
    /\ \A w \in 0..Len(Ticks) : End[w] \in Nat
    /\ \A w \in DayWindow : End[w] = End[w - 1] + Ticks[w]
<1> USE WindowNumbers
<1>1. \A w \in 0..Len(Ticks) : \A v \in 1..w : Ticks[v] \in Nat
  OBVIOUS
<1>2. \A w \in 0..Len(Ticks) : IsFiniteSet(1..w)
  BY FS_Interval
<1>3. \A w \in 0..Len(Ticks) : End[w] = SumFunctionOnSet(Ticks, 1..w)
  BY DEF End
<1>4. \A w \in 0..Len(Ticks) : End[w] \in Nat
  BY <1>1, <1>2, <1>3, SumOfNats
<1>5. ASSUME NEW w \in DayWindow PROVE End[w] = End[w - 1] + Ticks[w]
  <2>1. /\ w \in 0..Len(Ticks) /\ w - 1 \in 0..Len(Ticks)
        /\ w \notin 1..(w - 1) /\ (1..(w - 1)) \cup {w} = 1..w
    OBVIOUS
  <2>2. \A v \in 1..w : Ticks[v] \in Int
    BY <1>1, <2>1
  <2>3. SumFunctionOnSet(Ticks, (1..(w - 1)) \cup {w})
           = Ticks[w] + SumFunctionOnSet(Ticks, 1..(w - 1))
    <3> DEFINE T == 1..(w - 1)
    <3>1. w \notin T /\ IsFiniteSet(T \cup {w}) /\ \A v \in T \cup {w} : Ticks[v] \in Int
      BY <1>2, <2>1, <2>2
    <3> HIDE DEF T
    <3>2. SumFunctionOnSet(Ticks, T \cup {w}) = Ticks[w] + SumFunctionOnSet(Ticks, T)
      BY <3>1, SumOfOneMore
    <3> QED
      BY <3>2 DEF T
  <2>4. End[w] \in Nat /\ End[w - 1] \in Nat /\ Ticks[w] \in Nat
    BY <1>4, <2>1
  <2>5. End[w] = SumFunctionOnSet(Ticks, 1..w)
    BY <1>3, <2>1
  <2>6. End[w - 1] = SumFunctionOnSet(Ticks, 1..(w - 1))
    BY <1>3, <2>1
  <2>7. End[w] = Ticks[w] + End[w - 1]
    BY <2>1, <2>3, <2>5, <2>6
  <2> QED
    BY <2>4, <2>7
<1>6. End[0] = 0
  <2>1. 1..0 = {} /\ 0 \in 0..Len(Ticks)
    OBVIOUS
  <2> QED
    BY <1>3, <2>1, SumOfNone
<1> QED
  BY <1>4, <1>5, <1>6

LEMMA EndsGrow ==
    \A v, w \in 0..Len(Ticks) : v <= w => End[v] <= End[w]
<1> SUFFICES ASSUME NEW v \in 0..Len(Ticks)
             PROVE  \A w \in 0..Len(Ticks) : v <= w => End[v] <= End[w]
  OBVIOUS
<1> DEFINE G == {w \in Nat : v <= w /\ w <= Len(Ticks) => End[v] <= End[w]}
<1> USE WindowNumbers, WindowEnds
<1>1. 0 \in G
  OBVIOUS
<1>2. ASSUME NEW w \in Nat, w \in G PROVE w + 1 \in G
  <2> SUFFICES ASSUME v <= w + 1, w + 1 <= Len(Ticks) PROVE End[v] <= End[w + 1]
    OBVIOUS
  <2>1. CASE v = w + 1
    BY <2>1
  <2>2. CASE v <= w
    <3>1. End[v] <= End[w]
      BY <1>2, <2>2
    <3>2. w + 1 \in DayWindow /\ (w + 1) - 1 = w /\ w \in 0..Len(Ticks)
      OBVIOUS
    <3>3. End[w + 1] = End[w] + Ticks[w + 1]
      BY <3>2
    <3> QED
      BY <3>1, <3>2, <3>3
  <2> QED
    BY <2>1, <2>2
<1>3. \A w \in Nat : w \in G
  <2> HIDE DEF G
  <2> QED
    BY <1>1, <1>2, EveryNatural
<1> QED
  BY <1>3

\* Windows do not share a tick, and come one after the other.
LEMMA WindowsInOrder ==
    /\ Close \in Nat
    /\ \A w \in DayWindow : TicksOf[w] \in SUBSET (1..Close) /\ IsFiniteSet(TicksOf[w])
    /\ \A v, w \in DayWindow : v < w => \A t \in TicksOf[v], u \in TicksOf[w] : t < u
<1> USE WindowNumbers, WindowEnds, EndsGrow
<1>1. Close \in Nat
  BY DEF Close
<1>2. ASSUME NEW w \in DayWindow
      PROVE  /\ TicksOf[w] = (End[w - 1] + 1)..End[w]
             /\ End[w - 1] \in Nat /\ End[w] \in Nat /\ End[w] <= Close
  <2>1. w \in 0..Len(Ticks) /\ w - 1 \in 0..Len(Ticks) /\ Len(Ticks) \in 0..Len(Ticks)
    OBVIOUS
  <2> QED
    BY <2>1 DEF TicksOf, Close
<1>3. ASSUME NEW w \in DayWindow
      PROVE  TicksOf[w] \in SUBSET (1..Close) /\ IsFiniteSet(TicksOf[w])
  <2>1. End[w - 1] + 1 \in Int /\ End[w] \in Int
    BY <1>2
  <2>2. IsFiniteSet((End[w - 1] + 1)..End[w])
    BY <2>1, FS_Interval
  <2>3. (End[w - 1] + 1)..End[w] \in SUBSET (1..Close)
    BY <1>1, <1>2
  <2> QED
    BY <1>2, <2>2, <2>3
<1>4. ASSUME NEW v \in DayWindow, NEW w \in DayWindow, v < w,
             NEW t \in TicksOf[v], NEW u \in TicksOf[w]
      PROVE  t < u
  <2>1. v \in 0..Len(Ticks) /\ w - 1 \in 0..Len(Ticks) /\ v <= w - 1
    BY <1>4
  <2>2. End[v] <= End[w - 1]
    BY <2>1
  <2>3. t \in (End[v - 1] + 1)..End[v] /\ u \in (End[w - 1] + 1)..End[w]
    BY <1>2, <1>4
  <2> QED
    BY <1>2, <2>2, <2>3
<1> QED
  BY <1>1, <1>3, <1>4

-----------------------------------------------------------------------------
(* Collection. *)

LEMMA LineNumbers ==
    ASSUME lines \in Seq(Line)
    PROVE  /\ Len(lines) \in Nat /\ DOMAIN lines = 1..Len(lines)
           /\ \A i \in DOMAIN lines :
                /\ lines[i] \in Line /\ lines[i].symbol \in Symbol
                /\ lines[i].time \in 0..Close
                /\ lines[i].price \in Nat /\ lines[i].volume \in Nat
<1>1. Len(lines) \in Nat /\ DOMAIN lines = 1..Len(lines)
  BY LenProperties
<1>2. \A i \in 1..Len(lines) : lines[i] \in Line
  BY ElementOfSeq
<1> QED
  BY <1>1, <1>2 DEF Line

LEMMA SymbolNumbers ==
    /\ Len(Symbols) \in Nat \ {0} /\ DOMAIN Symbols = 1..Len(Symbols)
    /\ \A i \in DOMAIN Symbols : Symbols[i] \in Symbol
    /\ \A i, j \in DOMAIN Symbols : Symbols[i] = Symbols[j] => i = j
<1>1. Symbols \in Seq(STRING)
  BY RowsConstants
<1>2. Len(Symbols) \in Nat \ {0} /\ DOMAIN Symbols = 1..Len(Symbols)
  BY <1>1, RowsConstants, LenProperties
<1> QED
  BY <1>2, RowsConstants DEF Symbol, Range, IsInjective

LEMMA LastLineOf ==
    ASSUME lines \in Seq(Line), NEW s, Of(s) # {}
    PROVE  Max(Of(s)) \in Of(s) /\ \A j \in Of(s) : j <= Max(Of(s))
<1>1. Of(s) \in SUBSET (1..Len(lines)) /\ Len(lines) \in Nat
  BY LineNumbers DEF Of
<1> QED
  BY <1>1, MaxOfIndices

LEMMA VolumeType ==
    ASSUME lines \in Seq(Line), NEW s
    PROVE  Volume(s) \in Nat
<1>1. CASE Of(s) = {}
  BY <1>1 DEF Volume
<1>2. CASE Of(s) # {}
  BY <1>2, LastLineOf, LineNumbers DEF Volume, Of
<1> QED
  BY <1>1, <1>2

\* What makes the numbers of a window those of consecutive lines: the lines of a
\* symbol are in the order of their times.
InOrder ==
    \A s \in Symbol : \A i, j \in Timed \cap Of(s) : i < j => lines[i].time <= lines[j].time

RowsInv == RowsTypeOK /\ InOrder

\* Every answer is of its symbol and from the time of the last one or later.
LEMMA AnswersAreLines ==
    ASSUME RowsInv, clock <= Close, NEW s \in Symbol, NEW a \in Ordinary(s) \cup Odd(s)
    PROVE  /\ a \in Line /\ a.symbol = s /\ a.time <= clock
           /\ a.time # NoTime => \A i \in Timed \cap Of(s) : lines[i].time <= a.time
<1> USE WindowsInOrder DEF RowsInv, RowsTypeOK
<1>1. clock \in 1..Close /\ NoTime = 0
  BY DEF NoTime
<1>2. \A i \in DOMAIN lines : lines[i].time <= clock /\ lines[i].time \in Nat
  BY LineNumbers
<1>3. ASSUME NEW q \in Ordinary(s)
      PROVE  /\ q \in Line /\ q.symbol = s /\ q.time = clock
             /\ [q EXCEPT !.price = NoPrice] \in Line
             /\ [q EXCEPT !.time = NoTime] \in Line
             /\ [q EXCEPT !.volume = 0] \in Line
  <2>1. PICK m \in Moves[s] : q = Quote(s, m)
    BY <1>3 DEF Ordinary
  <2>2. m \in [price : Nat \ {0}, trade : Nat]
    BY RowsConstants DEF Symbol
  <2>3. Volume(s) + m.trade \in Nat /\ m.price \in Nat
    BY <2>2, VolumeType
  <2>4. q = [symbol |-> s, time |-> clock, price |-> m.price, volume |-> Volume(s) + m.trade]
    BY <2>1 DEF Quote
  <2>5. /\ [q EXCEPT !.price = NoPrice]
             = [symbol |-> s, time |-> clock, price |-> 0, volume |-> Volume(s) + m.trade]
        /\ [q EXCEPT !.time = NoTime]
             = [symbol |-> s, time |-> 0, price |-> m.price, volume |-> Volume(s) + m.trade]
        /\ [q EXCEPT !.volume = 0]
             = [symbol |-> s, time |-> clock, price |-> m.price, volume |-> 0]
    BY <1>1, <2>4 DEF NoPrice
  <2>6. clock \in 0..Close /\ 0 \in 0..Close /\ 0 \in Nat
    BY <1>1
  <2> QED
    BY <2>3, <2>4, <2>5, <2>6 DEF Line
<1>4. CASE a \in Ordinary(s)
  <2>1. a \in Line /\ a.symbol = s /\ a.time = clock
    BY <1>3, <1>4
  <2> QED
    BY <1>1, <1>2, <2>1 DEF Timed
<1>5. CASE a \in UNION {Spoilt(q) : q \in Ordinary(s)}
  <2>1. PICK q \in Ordinary(s) : a \in Spoilt(q)
    BY <1>5
  <2>2. a \in {[q EXCEPT !.price = NoPrice], [q EXCEPT !.time = NoTime], [q EXCEPT !.volume = 0]}
    BY <2>1 DEF Spoilt
  <2>3. a \in Line /\ a.symbol = s /\ a.time \in {clock, NoTime}
    BY <1>3, <2>2 DEF Line
  <2> QED
    BY <1>1, <1>2, <2>3 DEF Timed
<1>6. CASE Of(s) # {} /\ a = lines[Max(Of(s))]
  <2> DEFINE k == Max(Of(s))
  <2>1. k \in Of(s) /\ \A j \in Of(s) : j <= k
    BY <1>6, LastLineOf
  <2> HIDE DEF k
  <2>2. a = lines[k]
    BY <1>6 DEF k
  <2>3. a \in Line /\ a.symbol = s /\ a.time <= clock /\ k \in DOMAIN lines
    BY <1>2, <2>1, <2>2, LineNumbers DEF Of
  <2>4. ASSUME a.time # NoTime, NEW i \in Timed \cap Of(s) PROVE lines[i].time <= a.time
    <3>1. k \in Timed \cap Of(s)
      BY <2>1, <2>2, <2>3, <2>4 DEF Timed
    <3>2. i < k \/ i = k
      BY <2>1, <2>3, LineNumbers DEF Of
    <3>3. lines[i].time \in Nat
      BY <1>2 DEF Of
    <3> QED
      BY <2>2, <3>1, <3>2, <3>3 DEF InOrder
  <2> QED
    BY <2>3, <2>4
<1>7. \/ a \in Ordinary(s) \/ a \in UNION {Spoilt(q) : q \in Ordinary(s)}
      \/ Of(s) # {} /\ a = lines[Max(Of(s))]
  <2> HIDE DEF RowsInv, RowsTypeOK
  <2> QED
    BY DEF Odd
<1> QED
  BY <1>4, <1>5, <1>6, <1>7

LEMMA Joined ==
    ASSUME NEW s \in Seq(Line), NEW t \in Seq(Line)
    PROVE  /\ s \o t \in Seq(Line) /\ Len(s \o t) = Len(s) + Len(t)
           /\ DOMAIN (s \o t) = 1..(Len(s) + Len(t))
           /\ \A i \in 1..Len(s) : (s \o t)[i] = s[i]
           /\ \A i \in 1..(Len(s) + Len(t)) : i > Len(s) => (s \o t)[i] = t[i - Len(s)]
BY ConcatProperties, LenProperties

LEMMA Written ==
    ASSUME RowsInv, NEW first \in 1..asked, NEW reply,
           \A s \in Asked :
             /\ reply[s] \in Line /\ reply[s].symbol = s /\ reply[s].time <= clock
             /\ reply[s].time # NoTime => \A i \in Timed \cap Of(s) : lines[i].time <= reply[s].time,
           Write(reply, first), NEW c \in Nat, clock <= c
    PROVE  /\ lines' \in Seq(Line) /\ \A i \in DOMAIN lines' : lines'[i].time <= c
           /\ Len(lines') = Len(lines) + first
           /\ \A i \in 1..Len(lines) : lines'[i] = lines[i]
           /\ InOrder'
<1> DEFINE more == [i \in 1..first |-> reply[Symbols[i]]]
<1> USE LineNumbers, SymbolNumbers DEF RowsInv, RowsTypeOK
<1>1. \A i \in 1..first : Symbols[i] \in Asked /\ i \in DOMAIN Symbols
  BY DEF Asked
<1>2. first \in Nat /\ more \in Seq(Line) /\ Len(more) = first
  <2>1. first \in Nat
    OBVIOUS
  <2>2. more \in [1..first -> Line]
    BY <1>1
  <2>3. more \in Seq(Line)
    BY <2>1, <2>2, IsASeq
  <2> QED
    BY <2>1, <2>3, LenProperties
<1>3. lines' = lines \o more
  BY DEF Write
<1> HIDE DEF more
<1>4. /\ lines' \in Seq(Line) /\ Len(lines') = Len(lines) + first
      /\ DOMAIN lines' = 1..(Len(lines) + first)
      /\ \A i \in 1..Len(lines) : lines'[i] = lines[i]
      /\ \A i \in 1..(Len(lines) + first) :
            i > Len(lines) => lines'[i] = more[i - Len(lines)]
  <2>1. lines \in Seq(Line)
    OBVIOUS
  <2>2. /\ lines \o more \in Seq(Line) /\ Len(lines \o more) = Len(lines) + Len(more)
        /\ DOMAIN (lines \o more) = 1..(Len(lines) + Len(more))
        /\ \A i \in 1..Len(lines) : (lines \o more)[i] = lines[i]
        /\ \A i \in 1..(Len(lines) + Len(more)) :
              i > Len(lines) => (lines \o more)[i] = more[i - Len(lines)]
    <3> HIDE DEF RowsInv, RowsTypeOK
    <3>1. more \in Seq(Line)
      BY <1>2
    <3> QED
      BY <2>1, <3>1, Joined
  <2> HIDE DEF RowsInv, RowsTypeOK
  <2> QED
    BY <1>2, <1>3, <2>2
<1>5. \A i \in 1..first : more[i] = reply[Symbols[i]]
  BY DEF more
<1>6. ASSUME NEW i \in DOMAIN lines', i > Len(lines)
      PROVE  /\ i - Len(lines) \in 1..first
             /\ lines'[i] = reply[Symbols[i - Len(lines)]]
             /\ lines'[i].symbol = Symbols[i - Len(lines)]
             /\ Symbols[i - Len(lines)] \in Asked
  <2>1. i - Len(lines) \in 1..first
    BY <1>2, <1>4, <1>6
  <2> QED
    BY <1>1, <1>4, <1>5, <1>6, <2>1
<1>7. ASSUME NEW i \in DOMAIN lines' PROVE lines'[i].time <= c
  <2>1. lines'[i].time <= clock /\ lines'[i].time \in Nat
    <3>1. CASE i \in 1..Len(lines)
      BY <1>4, <3>1
    <3>2. CASE i > Len(lines)
      BY <1>6, <3>2 DEF Line
    <3> QED
      BY <1>4, <3>1, <3>2
  <2> QED
    BY <2>1
<1>8. ASSUME NEW s \in Symbol, NEW i \in (Timed \cap Of(s))', NEW j \in (Timed \cap Of(s))', i < j
      PROVE  lines'[i].time <= lines'[j].time
  <2>1. /\ i \in DOMAIN lines' /\ lines'[i].time # NoTime /\ lines'[i].symbol = s
        /\ j \in DOMAIN lines' /\ lines'[j].time # NoTime /\ lines'[j].symbol = s
    BY <1>8 DEF Timed, Of
  <2>2. CASE j \in 1..Len(lines)
    <3>1. i \in 1..Len(lines)
      BY <1>4, <1>8, <2>1, <2>2
    <3>2. i \in Timed \cap Of(s) /\ j \in Timed \cap Of(s)
      BY <1>4, <2>1, <2>2, <3>1 DEF Timed, Of
    <3> QED
      BY <1>4, <1>8, <2>2, <3>1, <3>2 DEF InOrder
  <2>3. CASE j > Len(lines) /\ i \in 1..Len(lines)
    <3>1. i \in Timed \cap Of(s)
      BY <1>4, <2>1, <2>3 DEF Timed, Of
    <3>2. lines'[j] = reply[s] /\ s \in Asked
      BY <1>6, <2>1, <2>3
    <3> QED
      BY <1>4, <2>1, <2>3, <3>1, <3>2
  <2>4. CASE j > Len(lines) /\ i > Len(lines)
    <3>1. Symbols[i - Len(lines)] = Symbols[j - Len(lines)]
      BY <1>6, <2>1, <2>4
    <3>2. i - Len(lines) \in DOMAIN Symbols /\ j - Len(lines) \in DOMAIN Symbols
      BY <1>1, <1>6, <2>1, <2>4
    <3>3. i - Len(lines) = j - Len(lines)
      BY <3>1, <3>2
    <3> QED
      BY <1>4, <1>8, <2>1, <3>3
  <2> QED
    BY <1>4, <2>1, <2>2, <2>3, <2>4
<1>9. InOrder'
  BY <1>8 DEF InOrder
<1> QED
  BY <1>4, <1>7, <1>9

LEMMA AnswersWritten ==
    ASSUME RowsInv, clock <= Close, NEW odd \in SUBSET Asked, NEW reply \in Answers(odd),
           NEW first \in 1..asked, Write(reply, first), NEW c \in Nat, clock <= c
    PROVE  /\ lines' \in Seq(Line) /\ \A i \in DOMAIN lines' : lines'[i].time <= c
           /\ Len(lines') = Len(lines) + first
           /\ \A i \in 1..Len(lines) : lines'[i] = lines[i]
           /\ InOrder'
<1>1. Asked \in SUBSET Symbol
  BY SymbolNumbers DEF Asked, RowsInv, RowsTypeOK
<1>2. ASSUME NEW s \in Asked PROVE reply[s] \in Ordinary(s) \cup Odd(s)
  BY DEF Answers
<1>3. \A s \in Asked :
         /\ reply[s] \in Line /\ reply[s].symbol = s /\ reply[s].time <= clock
         /\ reply[s].time # NoTime => \A i \in Timed \cap Of(s) : lines[i].time <= reply[s].time
  BY <1>1, <1>2, AnswersAreLines
<1> QED
  BY <1>3, Written

LEMMA RoomForAll ==
    ASSUME NEW n \in Nat, NEW c \in Nat, NEW a \in Nat, NEW f \in Nat, NEW g \in Nat,
           n <= (c - 1 + f) * a
    PROVE  n + a <= ((c + 1) - 1 + (f + g)) * a
<1> DEFINE held == (c - 1 + f) * a
           rest == g * a
<1>1. ((c + 1) - 1 + (f + g)) * a = held + a + rest
  OBVIOUS
<1>2. held \in Int /\ rest \in Nat
  OBVIOUS
<1>3. n <= held
  OBVIOUS
<1>4. n + a <= held + a + rest
  <2> HIDE DEF held, rest
  <2> QED
    BY <1>2, <1>3
<1> QED
  BY <1>1, <1>4

LEMMA RowsTypeInit == RowsInit => RowsInv
<1> SUFFICES ASSUME RowsInit PROVE RowsInv
  OBVIOUS
<1>1. lines \in Seq(Line) /\ DOMAIN lines = {} /\ Len(lines) = 0
  BY EmptySeq DEF RowsInit
<1>2. Close \in Nat /\ MaxFaults \in Nat /\ asked \in Nat
  BY WindowsInOrder, RowsConstants, SymbolNumbers DEF RowsInit
<1>3. RowsTypeOK
  BY <1>1, <1>2 DEF RowsInit, RowsTypeOK
<1>4. InOrder
  BY <1>1 DEF InOrder, Timed
<1> QED
  BY <1>3, <1>4 DEF RowsInv

LEMMA RowsTypeNext == RowsInv /\ [RowsNext]_rowsVars => RowsInv'
<1> SUFFICES ASSUME RowsInv, [RowsNext]_rowsVars PROVE RowsInv'
  OBVIOUS
<1>1. /\ asked \in Nat \ {0} /\ clock \in Nat \ {0} /\ clock <= Close + 1 /\ Close \in Nat
      /\ faults \in Nat /\ faults <= MaxFaults /\ MaxFaults \in Nat
      /\ asked \in DOMAIN Symbols /\ lines \in Seq(Line) /\ Len(lines) \in Nat
      /\ \A i \in DOMAIN lines : lines[i].time <= clock /\ lines[i].time \in Nat
      /\ Len(lines) <= (clock - 1 + faults) * asked
      /\ InOrder
  BY RowsConstants, WindowsInOrder, SymbolNumbers, LineNumbers DEF RowsInv, RowsTypeOK
<1>2. CASE CollectLines
  <2>1. PICK odd \in SUBSET Asked : \E reply \in Answers(odd) :
          /\ faults + Cardinality(odd) <= MaxFaults
          /\ faults' = faults + Cardinality(odd)
          /\ Write(reply, asked)
    BY <1>2 DEF CollectLines
  <2>2. PICK reply \in Answers(odd) :
          /\ faults + Cardinality(odd) <= MaxFaults
          /\ faults' = faults + Cardinality(odd)
          /\ Write(reply, asked)
    BY <2>1
  <2>3. clock <= Close /\ clock' = clock + 1 /\ asked' = asked
    BY <1>2 DEF CollectLines
  <2>4. Cardinality(odd) \in Nat
    <3>1. IsFiniteSet(Asked)
      <4>0. 1 \in Int /\ asked \in Int
        BY <1>1
      <4>1. IsFiniteSet(1..asked)
        BY <4>0, FS_Interval
      <4>2. [i \in 1..asked |-> Symbols[i]] \in Surjection(1..asked, Asked)
        BY DEF Surjection, Asked
      <4> QED
        BY <4>1, <4>2, FS_Surjection
    <3> QED
      BY <3>1, FS_Subset, FS_CardinalityType
  <2>5. asked \in 1..asked /\ clock + 1 \in Nat /\ clock <= clock + 1
    BY <1>1
  <2>6. /\ lines' \in Seq(Line) /\ \A i \in DOMAIN lines' : lines'[i].time <= clock + 1
        /\ Len(lines') = Len(lines) + asked
        /\ InOrder'
    BY <2>2, <2>3, <2>5, AnswersWritten
  <2>7. Len(lines') <= ((clock + 1) - 1 + faults') * asked
    <3>1. Len(lines) + asked <= ((clock + 1) - 1 + (faults + Cardinality(odd))) * asked
      BY <1>1, <2>4, RoomForAll
    <3> QED
      BY <2>2, <2>6, <3>1
  <2>8. clock + 1 \in 1..(Close + 1) /\ faults + Cardinality(odd) \in 0..MaxFaults
    BY <1>1, <2>2, <2>3, <2>4
  <2>9. RowsTypeOK'
    BY <1>1, <2>2, <2>3, <2>6, <2>7, <2>8 DEF RowsTypeOK
  <2> QED
    BY <2>6, <2>9 DEF RowsInv
<1>3. CASE CollectLinesFails
  <2>1. PICK reply \in Answers({}), first \in 1..asked : Write(reply, first)
    BY <1>3 DEF CollectLinesFails
  <2>2. clock <= Close /\ clock' = clock /\ asked' = asked /\ faults < MaxFaults /\ faults' = faults + 1
    BY <1>3 DEF CollectLinesFails
  <2>3. /\ lines' \in Seq(Line) /\ \A i \in DOMAIN lines' : lines'[i].time <= clock
        /\ Len(lines') = Len(lines) + first
        /\ InOrder'
    BY <1>1, <2>1, <2>2, AnswersWritten
  <2>4. Len(lines') <= (clock - 1 + (faults + 1)) * asked
    <3>1. (clock - 1 + faults) * asked + asked = (clock - 1 + (faults + 1)) * asked
      BY <1>1
    <3> QED
      BY <1>1, <2>3, <3>1
  <2>5. faults + 1 \in 0..MaxFaults /\ clock \in 1..(Close + 1)
    BY <1>1, <2>2
  <2>6. RowsTypeOK'
    BY <1>1, <2>2, <2>3, <2>4, <2>5 DEF RowsTypeOK
  <2> QED
    BY <2>3, <2>6 DEF RowsInv
<1>4. CASE Pass
  <2>1. clock <= Close /\ clock' = clock + 1 /\ UNCHANGED <<asked, lines, faults>>
    BY <1>4 DEF Pass
  <2>2. InOrder'
    BY <1>1, <2>1 DEF InOrder, Timed, Of
  <2>3. Len(lines) <= ((clock + 1) - 1 + faults) * asked
    <3>1. (clock - 1 + faults) * asked + asked = ((clock + 1) - 1 + faults) * asked
      BY <1>1
    <3> QED
      BY <1>1, <3>1
  <2>4. \A i \in DOMAIN lines : lines[i].time <= clock + 1
    BY <1>1
  <2>5. clock + 1 \in 1..(Close + 1) /\ faults \in 0..MaxFaults
    BY <1>1, <2>1
  <2>6. RowsTypeOK'
    BY <1>1, <2>1, <2>3, <2>4, <2>5 DEF RowsTypeOK
  <2> QED
    BY <2>2, <2>6 DEF RowsInv
<1>5. CASE UNCHANGED rowsVars
  BY <1>5 DEF RowsInv, RowsTypeOK, InOrder, Timed, Of, rowsVars
<1> QED
  BY <1>2, <1>3, <1>4, <1>5 DEF RowsNext

LEMMA RowsInvariant == RowsSpec => []RowsInv
BY RowsTypeInit, RowsTypeNext, PTL DEF RowsSpec

\* The raw file has a line for each answer, none from a time that has not come.
THEOREM RowsTypeCorrect == RowsSpec => []RowsTypeOK
<1>1. RowsInv => RowsTypeOK
  BY DEF RowsInv
<1> QED
  BY <1>1, RowsInvariant, PTL

-----------------------------------------------------------------------------
(* Rows in order. *)

LEMMA RankNumbers ==
    \A s \in Symbol : Rank(s) \in Nat /\ Rank(s) \in DOMAIN Symbols /\ Symbols[Rank(s)] = s
<1> TAKE s \in Symbol
<1>1. \E i \in DOMAIN Symbols : Symbols[i] = s
  BY DEF Symbol, Range
<1>2. Rank(s) \in DOMAIN Symbols /\ Symbols[Rank(s)] = s
  BY <1>1 DEF Rank
<1> QED
  BY <1>2, SymbolNumbers

LEMMA TimedNumbers ==
    ASSUME RowsInv
    PROVE  /\ Timed \in SUBSET (1..Len(lines)) /\ Len(lines) \in Nat /\ IsFiniteSet(Timed)
           /\ \A i \in Timed :
                /\ i \in Nat /\ lines[i].time \in Nat /\ lines[i].time # NoTime
                /\ lines[i].symbol \in Symbol
                /\ lines[i].volume \in Nat /\ lines[i].price \in Nat
<1>1. lines \in Seq(Line)
  BY DEF RowsInv, RowsTypeOK
<1>2. Timed \in SUBSET (1..Len(lines)) /\ Len(lines) \in Nat
  BY <1>1, LineNumbers DEF Timed
<1>3. IsFiniteSet(Timed)
  <2>1. IsFiniteSet(1..Len(lines))
    BY <1>2, FS_Interval
  <2> QED
    BY <1>2, <2>1, FS_Subset
<1>4. \A i \in Timed : i \in DOMAIN lines /\ i \in Nat /\ lines[i].time # NoTime
  BY <1>1, <1>2, LineNumbers DEF Timed
<1>5. \A i \in DOMAIN lines :
        /\ lines[i].time \in Nat /\ lines[i].symbol \in Symbol
        /\ lines[i].volume \in Nat /\ lines[i].price \in Nat
  BY <1>1, LineNumbers, WindowsInOrder
<1> QED
  BY <1>2, <1>3, <1>4, <1>5

\* The rows of one symbol are in the order of the file.
LEMMA RowsAreInOrder ==
    ASSUME RowsInv, NEW s \in Symbol, NEW i \in Timed \cap Of(s), NEW j \in Timed \cap Of(s)
    PROVE  Precedes(i, j) <=> i < j
<1>1. lines[i].symbol = s /\ lines[j].symbol = s
  BY DEF Of
<1>2. Rank(s) \in Nat
  BY RankNumbers
<1>3. lines[i].time \in Nat /\ lines[j].time \in Nat /\ i \in Nat /\ j \in Nat
  BY TimedNumbers
<1>4. (i < j => lines[i].time <= lines[j].time) /\ (j < i => lines[j].time <= lines[i].time)
  BY DEF RowsInv, InOrder
<1>5. Precedes(i, j) <=> \/ lines[i].time < lines[j].time
                         \/ lines[i].time = lines[j].time /\ i < j
  BY <1>1, <1>2 DEF Precedes
<1> QED
  BY <1>3, <1>4, <1>5

LEMMA EndsOfRows ==
    ASSUME RowsInv, NEW s \in Symbol, NEW R \in SUBSET (Timed \cap Of(s)), R # {}
    PROVE  /\ Earliest(R) \in R /\ \A j \in R : Earliest(R) <= j
           /\ Latest(R) \in R /\ \A j \in R : j <= Latest(R)
<1>1. R \in SUBSET (1..Len(lines)) /\ Len(lines) \in Nat /\ \A i \in R : i \in Nat
  BY TimedNumbers
<1>2. \A i, j \in R : Precedes(i, j) <=> i < j
  BY RowsAreInOrder
<1>3. Earliest(R) \in R /\ \A j \in R \ {Earliest(R)} : Precedes(Earliest(R), j)
  <2>1. R \in SUBSET Nat
    BY <1>1
  <2>2. PICK m \in R : \A j \in R : m <= j
    BY <2>1, LeastNatural
  <2>3. \A j \in R \ {m} : Precedes(m, j)
    BY <1>1, <1>2, <2>2
  <2> QED
    BY <2>2, <2>3 DEF Earliest
<1>4. Latest(R) \in R /\ \A j \in R \ {Latest(R)} : Precedes(j, Latest(R))
  <2>1. PICK m \in R : \A j \in R : j <= m
    BY <1>1, MaxOfIndices
  <2>2. \A j \in R \ {m} : Precedes(j, m)
    BY <1>1, <1>2, <2>1
  <2> QED
    BY <2>1, <2>2 DEF Latest
<1>5. ASSUME NEW j \in R PROVE Earliest(R) <= j /\ j <= Latest(R)
  <2> DEFINE e == Earliest(R)
             l == Latest(R)
  <2>1. e \in R /\ l \in R /\ (j # e => Precedes(e, j)) /\ (j # l => Precedes(j, l))
    BY <1>3, <1>4
  <2> HIDE DEF e, l
  <2>2. e \in Nat /\ l \in Nat /\ j \in Nat
    BY <1>1, <2>1
  <2>3. e <= j /\ j <= l
    BY <1>2, <2>1, <2>2
  <2> QED
    BY <2>3 DEF e, l
<1> QED
  BY <1>3, <1>4, <1>5

\* A window's rows, and which of them are its points.
LEMMA WindowRows ==
    ASSUME RowsInv, NEW s \in Symbol, NEW w \in DayWindow
    PROVE  /\ RowsOf(s, w) \in SUBSET (Timed \cap Of(s))
           /\ Points(RowsOf(s, w)) \in SUBSET RowsOf(s, w)
           /\ \A i \in RowsOf(s, w) : lines[i].time \in TicksOf[w]
           /\ IsFiniteSet(RowsOf(s, w)) /\ IsFiniteSet(Points(RowsOf(s, w)))
           /\ Cardinality(Points(RowsOf(s, w))) \in Nat
<1>1. RowsOf(s, w) \in SUBSET (Timed \cap Of(s)) /\ Points(RowsOf(s, w)) \in SUBSET RowsOf(s, w)
  BY DEF RowsOf, Points
<1>2. IsFiniteSet(RowsOf(s, w))
  BY <1>1, TimedNumbers, FS_Subset
<1>3. IsFiniteSet(Points(RowsOf(s, w)))
  BY <1>1, <1>2, FS_Subset
<1> QED
  <2>1. Cardinality(Points(RowsOf(s, w))) \in Nat
    BY <1>3, FS_CardinalityType
  <2>2. \A i \in RowsOf(s, w) : lines[i].time \in TicksOf[w]
    BY DEF RowsOf
  <2> QED
    BY <1>1, <1>2, <1>3, <2>1, <2>2

LEMMA WindowVolume ==
    ASSUME RowsInv, NEW s \in Symbol, NEW w \in DayWindow
    PROVE  /\ VolumeDelta(Points(RowsOf(s, w))) \in Int
           /\ VolumeDelta(Points(RowsOf(s, w))) > 0 =>
                /\ Points(RowsOf(s, w)) # {}
                /\ VolumeDelta(Points(RowsOf(s, w)))
                     = lines[Latest(Points(RowsOf(s, w)))].volume
                         - lines[Earliest(Points(RowsOf(s, w)))].volume
<1> DEFINE P == Points(RowsOf(s, w))
<1>1. P \in SUBSET (Timed \cap Of(s)) /\ Cardinality(P) \in Nat
  BY WindowRows
<1>2. Cardinality({}) = 0
  BY FS_EmptySet
<1> HIDE DEF P
<1>3. CASE Cardinality(P) < 2
  <2>1. VolumeDelta(P) = 0
    BY <1>3 DEF VolumeDelta
  <2> QED
    BY <2>1 DEF P
<1>4. CASE ~(Cardinality(P) < 2)
  <2>1. P # {}
    BY <1>2, <1>4
  <2>2. VolumeDelta(P) = lines[Latest(P)].volume - lines[Earliest(P)].volume
    BY <1>4 DEF VolumeDelta
  <2>3. Latest(P) \in Timed /\ Earliest(P) \in Timed
    BY <1>1, <2>1, EndsOfRows
  <2>4. lines[Latest(P)].volume \in Nat /\ lines[Earliest(P)].volume \in Nat
    BY <2>3, TimedNumbers
  <2> QED
    BY <2>1, <2>2, <2>4 DEF P
<1> QED
  BY <1>3, <1>4

LEMMA MetricsAre ==
    ASSUME NEW s \in Symbol, NEW w \in DayWindow
    PROVE  /\ DayMetrics[s][w].seen = (RowsOf(s, w) # {})
           /\ DayMetrics[s][w].points = Cardinality(Points(RowsOf(s, w)))
           /\ DayMetrics[s][w].delta = VolumeDelta(Points(RowsOf(s, w)))
           /\ DayMetrics[s][w].grade
                = Grade(Cardinality(Points(RowsOf(s, w))), VolumeDelta(Points(RowsOf(s, w))),
                        Falls(RowsOf(s, w)), Expected[w])
<1>1. DayMetrics[s][w] = Numbers(s, w)
  BY DEF DayMetrics
<1> QED
  BY <1>1 DEF Numbers

-----------------------------------------------------------------------------
(* The day's volume. *)

\* The windows' volumes up to a window add up to no more than was traded from
\* the first line of the symbol to any line after the points of these windows.
LEMMA TradedUpTo ==
    ASSUME RowsInv, NEW s \in Symbol, Of(s) # {}, Steady(s), NEW U \in SUBSET DayWindow,
           NEW D, \A w \in DayWindow : D[w] = VolumeDelta(Points(RowsOf(s, w))),
           \A w \in U : D[w] > 0
    PROVE  \A n \in 0..Len(Ticks) : \A k \in Of(s) :
             (\A w \in U \cap (1..n) : \A i \in Points(RowsOf(s, w)) : i <= k)
               => SumFunctionOnSet(D, U \cap (1..n))
                    <= lines[k].volume - lines[Min(Of(s))].volume
<1> DEFINE first == Min(Of(s))
           P(w) == Points(RowsOf(s, w))
           total(n) == SumFunctionOnSet(D, U \cap (1..n))
           Bounded(n) == \A k \in Of(s) : (\A w \in U \cap (1..n) : \A i \in P(w) : i <= k)
                           => total(n) <= lines[k].volume - lines[first].volume
           G == {n \in Nat : n <= Len(Ticks) => Bounded(n)}
<1>1. lines \in Seq(Line)
  BY DEF RowsInv, RowsTypeOK
<1>2. \A k \in Of(s) : k \in Nat /\ lines[k].volume \in Nat
  BY <1>1, LineNumbers DEF Of
<1>3. first \in Of(s) /\ \A k \in Of(s) : first <= k
  BY <1>2, MinOfIndices
<1>4. \A w \in DayWindow : D[w] \in Int
  BY WindowVolume
<1>5. \A n \in Nat : IsFiniteSet(U \cap (1..n)) /\ U \cap (1..n) \in SUBSET DayWindow
  BY WindowNumbers, FS_Subset
<1>6. \A n \in Nat : total(n) \in Int
  BY <1>4, <1>5, SumType
<1>7. \A i, j \in Of(s) : i < j => lines[i].volume <= lines[j].volume
  BY DEF Steady
<1>8. 0 \in G
  <2>1. U \cap (1..0) = {}
    OBVIOUS
  <2>2. total(0) = 0
    BY <2>1, SumOfNone
  <2>3. \A k \in Of(s) : lines[first].volume <= lines[k].volume
    <3> HIDE DEF first
    <3> QED
      BY <1>2, <1>3, <1>7
  <2> HIDE DEF total, first
  <2> QED
    BY <1>2, <1>3, <2>2, <2>3
<1>9. ASSUME NEW n \in Nat, n \in G PROVE n + 1 \in G
  <2> SUFFICES ASSUME n + 1 <= Len(Ticks) PROVE Bounded(n + 1)
    <3> HIDE DEF Bounded
    <3> QED
      OBVIOUS
  <2> SUFFICES ASSUME NEW k \in Of(s),
                      \A w \in U \cap (1..(n + 1)) : \A i \in P(w) : i <= k
               PROVE  total(n + 1) <= lines[k].volume - lines[first].volume
    <3> HIDE DEF total, first, P
    <3> QED
      OBVIOUS
  <2> DEFINE v == n + 1
  <2>1. v \in DayWindow /\ v \notin U \cap (1..n) /\ n <= Len(Ticks)
    BY WindowNumbers
  <2>2. \A j \in Of(s) : (\A w \in U \cap (1..n) : \A i \in P(w) : i <= j)
                           => total(n) <= lines[j].volume - lines[first].volume
    BY <1>9, <2>1
  <2>3. CASE v \notin U
    <3>1. U \cap (1..v) = U \cap (1..n)
      BY <2>3
    <3>2. total(v) = total(n)
      BY <3>1
    <3> QED
      BY <2>2, <3>1, <3>2
  <2>4. CASE v \in U
    <3>1. P(v) # {} /\ D[v] = lines[Latest(P(v))].volume - lines[Earliest(P(v))].volume
      BY <2>1, <2>4, WindowVolume
    <3>2. P(v) \in SUBSET (Timed \cap Of(s))
      BY <2>1, WindowRows
    <3>3. PICK e : e = Earliest(P(v))
      OBVIOUS
    <3>4. PICK l : l = Latest(P(v))
      OBVIOUS
    <3>5. e \in P(v) /\ l \in P(v)
      BY <3>1, <3>2, <3>3, <3>4, EndsOfRows
    <3>6. total(v) = D[v] + total(n)
      <4> DEFINE T == U \cap (1..n)
      <4>1. U \cap (1..v) = T \cup {v}
        BY <2>4
      <4>2. v \notin T /\ IsFiniteSet(T \cup {v}) /\ \A w \in T \cup {v} : D[w] \in Int
        BY <1>4, <1>5, <2>1, <4>1
      <4> HIDE DEF T
      <4>3. SumFunctionOnSet(D, T \cup {v}) = D[v] + SumFunctionOnSet(D, T)
        BY <4>2, SumOfOneMore
      <4> QED
        BY <4>1, <4>3 DEF T
    <3>7. ASSUME NEW w \in U \cap (1..n), NEW i \in P(w) PROVE i <= e
      <4>1. w \in DayWindow /\ w < v
        BY <2>1, <3>7
      <4>2. lines[i].time \in TicksOf[w] /\ lines[e].time \in TicksOf[v]
        BY <2>1, <3>5, <4>1, WindowRows
      <4>3. lines[i].time < lines[e].time
        BY <2>1, <4>1, <4>2, WindowsInOrder
      <4>4. i \in Timed \cap Of(s) /\ e \in Timed \cap Of(s)
        BY <3>2, <3>5, <3>7, <4>1, WindowRows
      <4>5. e < i => lines[e].time <= lines[i].time
        BY <4>4 DEF RowsInv, InOrder
      <4>6. /\ i \in Nat /\ e \in Nat /\ lines[i].time \in Nat /\ lines[e].time \in Nat
        BY <4>4, TimedNumbers
      <4> QED
        BY <4>3, <4>5, <4>6
    <3>8. e \in Of(s) /\ l \in Of(s)
      BY <3>2, <3>5
    <3>9. total(n) <= lines[e].volume - lines[first].volume
      BY <2>2, <3>7, <3>8
    <3>10. l <= k
      <4>1. v \in U \cap (1..(n + 1))
        BY <2>4
      <4> QED
        BY <3>5, <4>1
    <3>11. lines[l].volume <= lines[k].volume
      BY <1>2, <1>7, <3>8, <3>10
    <3>12. D[v] = lines[l].volume - lines[e].volume
      BY <3>1, <3>3, <3>4
    <3>13. /\ total(n) \in Int /\ lines[first].volume \in Nat
           /\ lines[e].volume \in Nat /\ lines[l].volume \in Nat /\ lines[k].volume \in Nat
      <4> HIDE DEF total, first
      <4> QED
        BY <1>2, <1>3, <1>6, <3>8
    <3> HIDE DEF total, first
    <3> QED
      BY <3>6, <3>9, <3>11, <3>12, <3>13
  <2> QED
    BY <2>3, <2>4
<1>10. \A n \in Nat : n \in G
  <2> HIDE DEF G
  <2> QED
    BY <1>8, <1>9, EveryNatural
<1>11. \A n \in 0..Len(Ticks) : Bounded(n)
  <2> HIDE DEF Bounded
  <2> QED
    BY <1>10, WindowNumbers
<1> QED
  BY <1>11

\* The windows' volumes of a day never add up to more than was traded between
\* the first and the last answer, whatever is repeated, unpriced or missing.
THEOREM VolumeTradedOnce == RowsSpec => []VolumeIsTradedOnce
<1>1. ASSUME RowsInv PROVE VolumeIsTradedOnce
  <2> SUFFICES ASSUME NEW s \in Told, Steady(s)
               PROVE  DailyVolume(DayMetrics, s) <= Volume(s) - lines[Min(Of(s))].volume
    BY DEF VolumeIsTradedOnce
  <2>1. lines \in Seq(Line)
    BY <1>1 DEF RowsInv, RowsTypeOK
  <2>2. s \in Symbol /\ Of(s) # {}
    BY <2>1, LineNumbers DEF Told, Of
  <2> DEFINE D == [w \in DayWindow |-> DayMetrics[s][w].delta]
             U == {w \in Usable(DayMetrics, s) : DayMetrics[s][w].delta > 0}
             k == Max(Of(s))
             n == Len(Ticks)
  <2>3. U \in SUBSET DayWindow /\ \A w \in U : D[w] > 0
    BY DEF Usable
  <2>4. \A w \in DayWindow : D[w] = VolumeDelta(Points(RowsOf(s, w)))
    BY <2>2, MetricsAre
  <2>5. DailyVolume(DayMetrics, s) = SumFunctionOnSet(D, U)
    BY DEF DailyVolume
  <2>6. U \cap (1..n) = U /\ n \in 0..Len(Ticks)
    BY <2>3, WindowNumbers
  <2> HIDE DEF D, U
  <2>7. k \in Of(s) /\ \A j \in Of(s) : j <= k
    BY <2>1, <2>2, LastLineOf
  <2>8. ASSUME NEW w \in U \cap (1..n), NEW i \in Points(RowsOf(s, w)) PROVE i <= k
    <3>1. i \in Of(s)
      BY <1>1, <2>2, <2>3, <2>8, WindowRows
    <3> QED
      BY <2>7, <3>1
  <2>9. Volume(s) = lines[k].volume
    BY <2>2 DEF Volume
  <2> HIDE DEF k
  <2>10. SumFunctionOnSet(D, U \cap (1..n)) <= lines[k].volume - lines[Min(Of(s))].volume
    BY <1>1, <2>2, <2>3, <2>4, <2>6, <2>7, <2>8, TradedUpTo
  <2> QED
    BY <2>5, <2>6, <2>9, <2>10
<1> QED
  BY <1>1, RowsInvariant, PTL

-----------------------------------------------------------------------------
(* The order of all rows. *)

LEMMA OrderOfRows ==
    ASSUME RowsInv
    PROVE  \A i, j \in Timed :
             /\ ~(Precedes(i, j) /\ Precedes(j, i))
             /\ i # j => Precedes(i, j) \/ Precedes(j, i)
             /\ Precedes(i, j) => lines[i].time <= lines[j].time
             /\ lines[i].time < lines[j].time => Precedes(i, j)
<1> TAKE i, j \in Timed
<1>1. /\ i \in Nat /\ j \in Nat /\ lines[i].time \in Nat /\ lines[j].time \in Nat
      /\ lines[i].symbol \in Symbol /\ lines[j].symbol \in Symbol
  BY TimedNumbers
<1>2. /\ Rank(lines[i].symbol) \in Nat /\ Rank(lines[j].symbol) \in Nat
      /\ Rank(lines[i].symbol) = Rank(lines[j].symbol) => lines[i].symbol = lines[j].symbol
  BY <1>1, RankNumbers
<1> QED
  BY <1>1, <1>2 DEF Precedes

LEMMA FirstRow ==
    ASSUME RowsInv, NEW R \in SUBSET Timed, R # {}
    PROVE  \E j \in R : \A k \in R \ {j} : Precedes(j, k)
<1> DEFINE time == {lines[k].time : k \in R}
<1>1. \A k \in R : /\ k \in Nat /\ lines[k].time \in Nat /\ lines[k].symbol \in Symbol
                   /\ Rank(lines[k].symbol) \in Nat
                   /\ Symbols[Rank(lines[k].symbol)] = lines[k].symbol
  BY TimedNumbers, RankNumbers
<1>2. PICK t \in time : \A u \in time : t <= u
  <2>1. time \in SUBSET Nat /\ time # {}
    BY <1>1
  <2> HIDE DEF time
  <2> QED
    BY <2>1, LeastNatural
<1> DEFINE rank == {Rank(lines[k].symbol) : k \in {l \in R : lines[l].time = t}}
<1>3. PICK r \in rank : \A q \in rank : r <= q
  <2>1. rank \in SUBSET Nat /\ rank # {}
    BY <1>1, <1>2
  <2> HIDE DEF rank
  <2> QED
    BY <2>1, LeastNatural
<1> DEFINE row == {k \in R : lines[k].time = t /\ Rank(lines[k].symbol) = r}
<1>4. PICK j \in row : \A k \in row : j <= k
  <2>1. row \in SUBSET Nat /\ row # {}
    BY <1>1, <1>3
  <2> HIDE DEF row
  <2> QED
    BY <2>1, LeastNatural
<1>5. j \in R /\ lines[j].time = t /\ Rank(lines[j].symbol) = r
  BY <1>4
<1>6. ASSUME NEW k \in R \ {j} PROVE Precedes(j, k)
  <2>1. /\ j \in Nat /\ k \in Nat /\ lines[k].time \in Nat /\ lines[j].time \in Nat
        /\ Rank(lines[k].symbol) \in Nat /\ r \in Nat
    BY <1>1, <1>5
  <2>2. lines[j].time <= lines[k].time
    BY <1>2, <1>5
  <2>3. lines[k].time = lines[j].time => r <= Rank(lines[k].symbol)
    BY <1>3, <1>5
  <2>4. lines[k].time = lines[j].time /\ Rank(lines[k].symbol) = r
          => j <= k /\ lines[j].symbol = lines[k].symbol
    BY <1>1, <1>4, <1>5
  <2> QED
    BY <1>5, <2>1, <2>2, <2>3, <2>4 DEF Precedes
<1> QED
  BY <1>5, <1>6

\* A row that is not the last one has a row after it, which no later row precedes.
LEMMA NextRow ==
    ASSUME RowsInv, NEW R \in SUBSET Timed, NEW i \in R, NEW k \in R, Precedes(i, k)
    PROVE  \E j \in R : Follows(R, i, j) /\ lines[j].time <= lines[k].time
<1> DEFINE after == {l \in R : Precedes(i, l)}
<1>1. after \in SUBSET Timed /\ after # {}
  OBVIOUS
<1>2. PICK j \in after : \A l \in after \ {j} : Precedes(j, l)
  <2> HIDE DEF after
  <2> QED
    BY <1>1, FirstRow
<1>3. ASSUME NEW l \in R, Precedes(i, l) PROVE ~Precedes(l, j)
  BY <1>2, <1>3, OrderOfRows
<1>4. k = j \/ Precedes(j, k)
  BY <1>2
<1>5. lines[j].time <= lines[k].time
  BY <1>2, <1>4, OrderOfRows, TimedNumbers
<1> QED
  BY <1>2, <1>3, <1>5 DEF Follows

\* What a time series without a warning promises.
LEMMA QuietTimeSeries ==
    ASSUME RowsInv, ~TimeSeriesWarns
    PROVE  /\ \A i, j \in Timed : lines[i].time = lines[j].time => i = j
           /\ \A i, k \in Timed : lines[i].time < lines[k].time =>
                \E j \in Timed :
                   lines[i].time < lines[j].time /\ lines[j].time <= lines[i].time + Gap
<1>1. \A i, j \in Timed :
        Follows(Timed, i, j) => /\ lines[i].time # lines[j].time
                                /\ lines[j].time - lines[i].time <= Gap
  BY TimedNumbers, RowsConstants DEF TimeSeriesWarns
<1>2. ASSUME NEW i \in Timed, NEW k \in Timed, Precedes(i, k)
      PROVE  \E j \in Timed : /\ lines[i].time < lines[j].time
                              /\ lines[j].time <= lines[i].time + Gap
                              /\ lines[j].time <= lines[k].time
  <2>1. PICK j \in Timed : Follows(Timed, i, j) /\ lines[j].time <= lines[k].time
    BY <1>2, NextRow
  <2>2. lines[i].time <= lines[j].time
    BY <2>1, OrderOfRows DEF Follows
  <2>3. lines[i].time # lines[j].time /\ lines[j].time - lines[i].time <= Gap
    BY <1>1, <2>1
  <2>4. lines[i].time \in Nat /\ lines[j].time \in Nat /\ Gap \in Nat
    BY TimedNumbers, RowsConstants
  <2> QED
    BY <2>1, <2>2, <2>3, <2>4
<1>3. ASSUME NEW i \in Timed, NEW j \in Timed, lines[i].time = lines[j].time, i # j
      PROVE  FALSE
  <2>1. Precedes(i, j) \/ Precedes(j, i)
    BY <1>3, OrderOfRows
  <2>2. lines[i].time \in Nat /\ \A k \in Timed : lines[k].time \in Nat
    BY TimedNumbers
  <2> QED
    BY <1>2, <1>3, <2>1, <2>2
<1>4. ASSUME NEW i \in Timed, NEW k \in Timed, lines[i].time < lines[k].time
      PROVE  \E j \in Timed :
                lines[i].time < lines[j].time /\ lines[j].time <= lines[i].time + Gap
  BY <1>2, <1>4, OrderOfRows
<1> QED
  BY <1>3, <1>4

-----------------------------------------------------------------------------
(* The grade of a day. *)

\* A window counts no point twice: each has a timestamp of its own.
LEMMA PointsHaveStamps ==
    ASSUME RowsInv, NEW s \in Symbol, NEW w \in DayWindow
    PROVE  /\ Cardinality(Points(RowsOf(s, w))) \in Nat /\ Cardinality(Stamps(s, w)) \in Nat
           /\ Cardinality(Points(RowsOf(s, w))) <= Cardinality(Stamps(s, w))
<1> DEFINE P == Points(RowsOf(s, w))
           f == [i \in P |-> lines[i].time]
<1>1. P \in SUBSET (Timed \cap Of(s)) /\ Cardinality(P) \in Nat
  BY WindowRows
<1>2. IsFiniteSet(Stamps(s, w))
  BY WindowsInOrder, FS_Subset DEF Stamps
<1>3. ASSUME NEW i \in P
      PROVE  /\ i \in DOMAIN lines /\ i \in Nat /\ lines[i].symbol = s
             /\ lines[i].time \in Stamps(s, w) /\ Valid(i)
  <2>1. i \in DOMAIN lines /\ lines[i].symbol = s /\ i \in Nat
    BY <1>1, TimedNumbers DEF Timed, Of
  <2>2. lines[i].time \in TicksOf[w] /\ Valid(i)
    BY WindowRows DEF Points
  <2> QED
    BY <2>1, <2>2 DEF Stamps, Valid
<1>4. ASSUME NEW i \in P, NEW j \in P, i < j PROVE lines[i].time # lines[j].time
  <2>1. i \in 1..(j - 1)
    <3>1. i >= 1
      BY <1>1, TimedNumbers
    <3> QED
      BY <1>3, <1>4, <3>1
  <2>2. ~Repeated(j) /\ lines[j].time # NoTime
    BY <1>3 DEF Valid
  <2> QED
    BY <1>3, <2>1, <2>2 DEF Repeated
<1>5. \A i, j \in P : lines[i].time = lines[j].time => i = j
  <2> TAKE i, j \in P
  <2>1. i \in Nat /\ j \in Nat
    BY <1>3
  <2> QED
    BY <1>4, <2>1
<1> HIDE DEF P
<1>6. f \in Injection(P, Stamps(s, w))
  BY <1>3, <1>5 DEF Injection, IsInjective
<1>7. Cardinality(P) <= Cardinality(Stamps(s, w)) /\ Cardinality(Stamps(s, w)) \in Nat
  <2> HIDE DEF f
  <2> QED
    BY <1>2, <1>6, FS_Injection, FS_CardinalityType
<1> QED
  BY <1>1, <1>7 DEF P

LEMMA DayTotals ==
    ASSUME RowsInv, NEW s \in Symbol
    PROVE  /\ ExpectedInAll \in Nat /\ PointsInAll(DayMetrics, s) \in Int
           /\ SumFunction([w \in DayWindow |-> Cardinality(Stamps(s, w))]) \in Int
           /\ PointsInAll(DayMetrics, s)
                <= SumFunction([w \in DayWindow |-> Cardinality(Stamps(s, w))])
<1> DEFINE p == [w \in DayWindow |-> DayMetrics[s][w].points]
           h == [w \in DayWindow |-> Cardinality(Stamps(s, w))]
<1>1. \A w \in DayWindow : p[w] \in Int /\ h[w] \in Int /\ p[w] <= h[w]
  BY MetricsAre, PointsHaveStamps
<1>2. DOMAIN p = DayWindow /\ DOMAIN h = DayWindow
  OBVIOUS
<1>3. ExpectedInAll \in Nat
  BY WindowNumbers, SumOfNats DEF ExpectedInAll, SumFunction
<1>4. PointsInAll(DayMetrics, s) = SumFunctionOnSet(p, DayWindow)
  BY DEF PointsInAll, SumFunction
<1>5. SumFunction(h) = SumFunctionOnSet(h, DayWindow)
  BY DEF SumFunction
<1> HIDE DEF p, h
<1>6. /\ SumFunctionOnSet(p, DayWindow) \in Int /\ SumFunctionOnSet(h, DayWindow) \in Int
      /\ SumFunctionOnSet(p, DayWindow) <= SumFunctionOnSet(h, DayWindow)
  BY <1>1, WindowNumbers, SumType, SumIsMonotonic
<1> QED
  BY <1>3, <1>4, <1>5, <1>6 DEF h

LEMMA RowOfLine ==
    ASSUME RowsInv, NEW w \in DayWindow, NEW i \in DOMAIN lines, lines[i].time \in TicksOf[w]
    PROVE  lines[i].symbol \in Symbol /\ i \in Timed /\ i \in RowsOf(lines[i].symbol, w)
<1>1. lines \in Seq(Line)
  BY DEF RowsInv, RowsTypeOK
<1>2. lines[i].symbol \in Symbol
  BY <1>1, LineNumbers
<1>3. lines[i].time # NoTime
  BY WindowsInOrder DEF NoTime
<1> QED
  BY <1>2, <1>3 DEF RowsOf, Timed, Of

\* A window of which a symbol that was seen has less than three fifths of the
\* points is unusable, and so are the metrics of the symbol in it.
LEMMA ThinWindows ==
    ASSUME RowsInv, NEW w \in DayWindow, NEW i \in DOMAIN lines, lines[i].time \in TicksOf[w],
           5 * Cardinality(Stamps(lines[i].symbol, w)) < 3 * Expected[w]
    PROVE  /\ WindowStatus(DayMetrics, w) = "unusable"
           /\ w \notin Usable(DayMetrics, lines[i].symbol)
<1> DEFINE s == lines[i].symbol
           p == Cardinality(Points(RowsOf(s, w)))
<1>1. s \in Symbol /\ DayMetrics[s][w].seen
  BY RowOfLine, MetricsAre
<1> HIDE DEF s
<1>2. p \in Nat /\ DayMetrics[s][w].points = p /\ Expected[w] \in Nat
  BY <1>1, MetricsAre, PointsHaveStamps, WindowNumbers
<1>3. 5 * p < 3 * Expected[w]
  <2>1. /\ Cardinality(Stamps(s, w)) \in Nat /\ p <= Cardinality(Stamps(s, w))
    BY <1>1, PointsHaveStamps
  <2>2. 5 * Cardinality(Stamps(s, w)) < 3 * Expected[w]
    BY DEF s
  <2> HIDE DEF p
  <2> QED
    BY <1>2, <2>1, <2>2
<1>4. /\ DayMetrics[s][w].grade
           = Grade(p, VolumeDelta(Points(RowsOf(s, w))), Falls(RowsOf(s, w)), Expected[w])
  BY <1>1, MetricsAre
<1> HIDE DEF p
<1>5. 5 * (Expected[w] - p) > 2 * Expected[w] /\ p < Expected[w]
  BY <1>2, <1>3
<1>6. DayMetrics[s][w].grade = "unusable"
  BY <1>4, <1>5 DEF Grade
<1>7. WindowStatus(DayMetrics, w) = "unusable"
  BY <1>1, <1>2, <1>5 DEF WindowStatus
<1> QED
  BY <1>6, <1>7 DEF Usable, s

LEMMA SeenWindows ==
    ASSUME NEW w \in DayWindow, WindowStatus(DayMetrics, w) # "missing"
    PROVE  \E i \in Timed : lines[i].time \in TicksOf[w]
<1>1. PICK s \in Symbol : DayMetrics[s][w].seen
  BY DEF WindowStatus
<1>2. RowsOf(s, w) # {}
  BY <1>1, MetricsAre
<1> QED
  BY <1>2 DEF RowsOf

\* What a day's grade and its ranking promise of the raw file.
THEOREM GradeBacked == RowsSpec => []GradeIsBacked
<1>1. ASSUME RowsInv PROVE GradeIsBacked
  <2> DEFINE has(s) == SumFunction([w \in DayWindow |-> Cardinality(Stamps(s, w))])
             thin == {w \in DayWindow : \E i \in DOMAIN lines :
                        /\ lines[i].time \in TicksOf[w]
                        /\ 5 * Cardinality(Stamps(lines[i].symbol, w)) < 3 * Expected[w]}
             times == {lines[i].time : i \in Timed}
             of(status) == {w \in DayWindow : WindowStatus(DayMetrics, w) = status}
             grade == OverallGrade(DayMetrics)
  <2>1. \A s \in Told : s \in Symbol
    BY <1>1, LineNumbers DEF Told, RowsInv, RowsTypeOK
  <2>2. grade \in {"good", "minor_issue"} =>
          /\ lines # <<>> /\ ~LacksMoreThan(7, DayMetrics)
          /\ ~(Cardinality(of("unusable")) >= 2)
    BY DEF OverallGrade
  <2>3. grade = "good" =>
          /\ of("missing") = {} /\ ~LacksMoreThan(2, DayMetrics) /\ ~TimeSeriesWarns
    BY DEF OverallGrade
  <2>4. Cardinality(thin) <= Cardinality(of("unusable")) /\ Cardinality(thin) \in Nat
        /\ Cardinality(of("unusable")) \in Nat
    <3>1. thin \in SUBSET of("unusable")
      BY <1>1, ThinWindows
    <3>2. of("unusable") \in SUBSET DayWindow
      OBVIOUS
    <3>3. IsFiniteSet(of("unusable"))
      <4> HIDE DEF of
      <4> QED
        BY <3>2, WindowNumbers, FS_Subset
    <3>4. IsFiniteSet(thin)
      <4> HIDE DEF of, thin
      <4> QED
        BY <3>1, <3>3, FS_Subset
    <3> HIDE DEF of, thin
    <3> QED
      BY <3>1, <3>3, <3>4, FS_Subset, FS_CardinalityType
  <2>5. \A s \in Told : /\ ExpectedInAll \in Nat /\ PointsInAll(DayMetrics, s) \in Int
                        /\ has(s) \in Int /\ PointsInAll(DayMetrics, s) <= has(s)
    BY <1>1, <2>1, DayTotals
  <2> HIDE DEF has
  <2>6. \A n \in Nat : ~LacksMoreThan(n, DayMetrics) =>
            \A s \in Told : 10 * has(s) >= (10 - n) * ExpectedInAll
    <3> TAKE n \in Nat
    <3> HAVE ~LacksMoreThan(n, DayMetrics)
    <3> TAKE s \in Told
    <3> DEFINE e == ExpectedInAll
               p == PointsInAll(DayMetrics, s)
               h == has(s)
    <3>1. ~(10 * (e - p) > n * e)
      BY DEF LacksMoreThan
    <3>2. e \in Nat /\ p \in Int /\ h \in Int /\ p <= h
      BY <2>5
    <3> HIDE DEF e, p, h
    <3>3. n * e \in Int /\ (10 - n) * e = 10 * e - n * e
      BY <3>2
    <3>4. 10 * h >= (10 - n) * e
      BY <3>1, <3>2, <3>3
    <3> QED
      BY <3>4 DEF e, h
  <2>7. grade \in {"good", "minor_issue"} =>
          /\ Told # {} /\ \A s \in Told : 10 * has(s) >= 3 * ExpectedInAll
          /\ Cardinality(thin) <= 1
    <3> SUFFICES ASSUME grade \in {"good", "minor_issue"}
                 PROVE  /\ Told # {} /\ \A s \in Told : 10 * has(s) >= 3 * ExpectedInAll
                        /\ Cardinality(thin) <= 1
      OBVIOUS
    <3>1. Told # {}
      <4>1. lines # <<>> /\ lines \in Seq(Line)
        BY <1>1, <2>2 DEF RowsInv, RowsTypeOK
      <4>2. 1 \in DOMAIN lines
        BY <4>1, EmptySeq, LenProperties
      <4> QED
        BY <4>2 DEF Told
    <3>2. \A s \in Told : 10 * has(s) >= (10 - 7) * ExpectedInAll
      BY <2>2, <2>6
    <3>3. Cardinality(thin) <= 1
      <4>1. ~(Cardinality(of("unusable")) >= 2)
        BY <2>2
      <4> HIDE DEF of, thin
      <4> QED
        BY <2>4, <4>1
    <3> QED
      BY <3>1, <3>2, <3>3
  <2>8. grade = "good" =>
          /\ \A s \in Told : 10 * has(s) >= 8 * ExpectedInAll
          /\ \A w \in DayWindow : times \cap TicksOf[w] # {}
          /\ Cardinality(Timed) = Cardinality(times)
          /\ \A t \in times : (\E u \in times : u > t) => \E u \in times : u > t /\ u <= t + Gap
    <3> SUFFICES ASSUME grade = "good"
                 PROVE  /\ \A s \in Told : 10 * has(s) >= 8 * ExpectedInAll
                        /\ \A w \in DayWindow : times \cap TicksOf[w] # {}
                        /\ Cardinality(Timed) = Cardinality(times)
                        /\ \A t \in times : (\E u \in times : u > t)
                             => \E u \in times : u > t /\ u <= t + Gap
      OBVIOUS
    <3>1. \A s \in Told : 10 * has(s) >= (10 - 2) * ExpectedInAll
      BY <2>3, <2>6
    <3>2. ASSUME NEW w \in DayWindow PROVE times \cap TicksOf[w] # {}
      <4>1. WindowStatus(DayMetrics, w) # "missing"
        BY <2>3
      <4> QED
        BY <4>1, SeenWindows
    <3>3. /\ \A i, j \in Timed : lines[i].time = lines[j].time => i = j
          /\ \A i, k \in Timed : lines[i].time < lines[k].time =>
               \E j \in Timed :
                  lines[i].time < lines[j].time /\ lines[j].time <= lines[i].time + Gap
      BY <1>1, <2>3, QuietTimeSeries
    <3>4. Cardinality(Timed) = Cardinality(times)
      <4> DEFINE f == [i \in Timed |-> lines[i].time]
      <4>1. f \in Bijection(Timed, times)
        BY <3>3 DEF Bijection, Injection, Surjection, IsInjective
      <4>2. ExistsBijection(Timed, times) /\ IsFiniteSet(Timed)
        <5> HIDE DEF f, times
        <5> QED
          BY <1>1, <4>1, TimedNumbers DEF ExistsBijection
      <4> HIDE DEF times
      <4> QED
        BY <4>2, FS_Bijection
    <3>5. ASSUME NEW t \in times, NEW v \in times, v > t
          PROVE  \E u \in times : u > t /\ u <= t + Gap
      <4>1. PICK i \in Timed : t = lines[i].time
        OBVIOUS
      <4>2. PICK k \in Timed : v = lines[k].time
        OBVIOUS
      <4>3. lines[i].time < lines[k].time
        BY <1>1, <3>5, <4>1, <4>2, TimedNumbers
      <4>4. PICK j \in Timed :
              lines[i].time < lines[j].time /\ lines[j].time <= lines[i].time + Gap
        BY <3>3, <4>3
      <4>5. lines[i].time \in Nat /\ lines[j].time \in Nat /\ lines[j].time \in times
        BY <1>1, TimedNumbers
      <4> QED
        BY <4>1, <4>4, <4>5
    <3> QED
      BY <3>1, <3>2, <3>4, <3>5
  <2>9. ASSUME NEW s \in Ranked(DayMetrics), NEW w \in DayWindow,
               NEW i \in DOMAIN lines, lines[i].symbol = s, lines[i].time \in TicksOf[w]
        PROVE  5 * Cardinality(Stamps(s, w)) >= 3 * Expected[w]
    <3>1. s \in Symbol /\ i \in RowsOf(s, w)
      BY <1>1, <2>9, RowOfLine
    <3>2. DayMetrics[s][w].seen
      BY <3>1, MetricsAre
    <3>3. w \in Usable(DayMetrics, s)
      BY <2>9, <3>2 DEF Ranked
    <3>4. ~(5 * Cardinality(Stamps(s, w)) < 3 * Expected[w])
      BY <1>1, <2>9, <3>3, ThinWindows
    <3>5. Cardinality(Stamps(s, w)) \in Nat /\ Expected[w] \in Nat
      BY <1>1, <3>1, PointsHaveStamps, WindowNumbers
    <3> QED
      BY <3>4, <3>5
  <2> HIDE DEF thin, times, grade
  <2> QED
    BY <2>7, <2>8, <2>9 DEF GradeIsBacked, has, thin, times, grade
<1> QED
  BY <1>1, RowsInvariant, PTL

-----------------------------------------------------------------------------
(* Lines that the file has already. *)

\* What the numbers of a window take from the order of its rows.
RowFacts ==
    /\ \A s \in Symbol : \A R \in SUBSET (Timed \cap Of(s)) : R # {} =>
         /\ Earliest(R) \in R /\ \A j \in R : Earliest(R) <= j
         /\ Latest(R) \in R /\ \A j \in R : j <= Latest(R)
    /\ \A s \in Symbol, w \in DayWindow :
         IsFiniteSet(RowsOf(s, w)) /\ (Steady(s) => ~Falls(RowsOf(s, w)))

LEMMA FactsOfRows == RowsInv => RowFacts
<1> SUFFICES ASSUME RowsInv PROVE RowFacts
  OBVIOUS
<1>1. ASSUME NEW s \in Symbol, NEW R \in SUBSET (Timed \cap Of(s)), R # {}
      PROVE  /\ Earliest(R) \in R /\ \A j \in R : Earliest(R) <= j
             /\ Latest(R) \in R /\ \A j \in R : j <= Latest(R)
  BY <1>1, EndsOfRows
<1>2. ASSUME NEW s \in Symbol, NEW w \in DayWindow, Steady(s),
             NEW i \in RowsOf(s, w), NEW j \in RowsOf(s, w),
             lines[j].volume < lines[i].volume, Follows(RowsOf(s, w), i, j)
      PROVE  FALSE
  <2>1. i \in Timed \cap Of(s) /\ j \in Timed \cap Of(s)
    BY WindowRows
  <2>2. i < j
    BY <1>2, <2>1, RowsAreInOrder DEF Follows
  <2>3. lines[i].volume <= lines[j].volume
    BY <1>2, <2>1, <2>2 DEF Steady
  <2> QED
    BY <1>2, <2>1, <2>3, TimedNumbers
<1>3. \A s \in Symbol, w \in DayWindow : Steady(s) => ~Falls(RowsOf(s, w))
  BY <1>2 DEF Falls
<1>4. \A s \in Symbol, w \in DayWindow : IsFiniteSet(RowsOf(s, w))
  BY WindowRows
<1> QED
  BY <1>1, <1>3, <1>4 DEF RowFacts

LEMMA LinesAreKept ==
    ASSUME RowsInv, [RowsNext]_rowsVars
    PROVE  /\ Len(lines) <= Len(lines')
           /\ \A i \in 1..Len(lines) : i \in DOMAIN lines' /\ lines'[i] = lines[i]
<1>1. RowsInv' /\ lines \in Seq(Line) /\ lines' \in Seq(Line)
  BY RowsTypeNext DEF RowsInv, RowsTypeOK
<1>2. /\ Len(lines) \in Nat /\ DOMAIN lines = 1..Len(lines)
      /\ Len(lines') \in Nat /\ DOMAIN lines' = 1..Len(lines')
  BY <1>1, LenProperties
<1>3. CASE lines' = lines
  BY <1>2, <1>3
<1>4. /\ asked \in 1..asked /\ {} \in SUBSET Asked /\ clock \in Nat /\ clock <= clock
      /\ clock + 1 \in Nat /\ clock <= clock + 1
  <2>1. asked \in DOMAIN Symbols /\ clock \in 1..(Close + 1)
    BY DEF RowsInv, RowsTypeOK
  <2> QED
    BY <2>1, SymbolNumbers, WindowsInOrder
<1>5. CASE CollectLines
  <2>1. PICK odd \in SUBSET Asked : \E reply \in Answers(odd) : Write(reply, asked)
    BY <1>5 DEF CollectLines
  <2>2. PICK reply \in Answers(odd) : Write(reply, asked)
    BY <2>1
  <2>3. clock <= Close
    BY <1>5 DEF CollectLines
  <2>4. /\ Len(lines') = Len(lines) + asked /\ asked \in Nat
        /\ \A i \in 1..Len(lines) : lines'[i] = lines[i]
    BY <1>4, <2>2, <2>3, AnswersWritten
  <2> QED
    BY <1>2, <2>4
<1>6. CASE CollectLinesFails
  <2>1. PICK reply \in Answers({}), first \in 1..asked : Write(reply, first)
    BY <1>6 DEF CollectLinesFails
  <2>2. clock <= Close
    BY <1>6 DEF CollectLinesFails
  <2>3. /\ Len(lines') = Len(lines) + first /\ first \in Nat
        /\ \A i \in 1..Len(lines) : lines'[i] = lines[i]
    BY <1>4, <2>1, <2>2, AnswersWritten
  <2> QED
    BY <1>2, <2>3
<1> QED
  BY <1>3, <1>5, <1>6 DEF RowsNext, Pass, rowsVars

\* Lines that are added and known change the rows of no window but by themselves,
\* and none of its points.
LEMMA KnownLines ==
    ASSUME RowsInv, RowsInv', Len(lines) <= Len(lines'),
           \A i \in 1..Len(lines) : i \in DOMAIN lines' /\ lines'[i] = lines[i],
           \A i \in (Len(lines) + 1)..Len(lines') : Known(lines'[i]),
           NEW s \in Symbol, NEW w \in DayWindow
    PROVE  /\ RowsOf(s, w) \in SUBSET RowsOf(s, w)'
           /\ \A i \in RowsOf(s, w)' \ RowsOf(s, w) :
                \E j \in RowsOf(s, w) : lines[j].time = lines'[i].time
           /\ RowsOf(s, w) = {} => RowsOf(s, w)' = {}
           /\ Points(RowsOf(s, w))' = Points(RowsOf(s, w))
           /\ Steady(s)' => Steady(s)
<1>1. /\ Len(lines) \in Nat /\ DOMAIN lines = 1..Len(lines)
      /\ Len(lines') \in Nat /\ DOMAIN lines' = 1..Len(lines')
  BY LenProperties DEF RowsInv, RowsTypeOK
<1>2. \A i \in DOMAIN lines : i \in DOMAIN lines' /\ lines'[i] = lines[i]
  BY <1>1
<1>3. ASSUME NEW i \in DOMAIN lines', i \notin DOMAIN lines
      PROVE  /\ i > Len(lines) /\ lines'[i].time # NoTime
             /\ \E j \in DOMAIN lines :
                  lines[j].symbol = lines'[i].symbol /\ lines[j].time = lines'[i].time
  <2>1. i \in (Len(lines) + 1)..Len(lines')
    BY <1>1, <1>3
  <2> QED
    BY <1>1, <2>1 DEF Known
<1>4. ASSUME NEW i \in RowsOf(s, w) PROVE i \in RowsOf(s, w)'
  BY <1>2 DEF RowsOf, Timed, Of
<1>5. ASSUME NEW i \in RowsOf(s, w)', i \in DOMAIN lines PROVE i \in RowsOf(s, w)
  BY <1>2, <1>5 DEF RowsOf, Timed, Of
<1>6. ASSUME NEW i \in RowsOf(s, w)', i \notin DOMAIN lines
      PROVE  /\ Repeated(i)'
             /\ \E j \in RowsOf(s, w) : lines[j].time = lines'[i].time
  <2>1. i \in DOMAIN lines' /\ lines'[i].symbol = s /\ lines'[i].time \in TicksOf[w]
    BY DEF RowsOf, Timed, Of
  <2>2. PICK j \in DOMAIN lines :
          lines[j].symbol = lines'[i].symbol /\ lines[j].time = lines'[i].time
    BY <1>3, <1>6, <2>1
  <2>3. i > Len(lines) /\ lines'[i].time # NoTime
    BY <1>3, <1>6, <2>1
  <2>4. j \in RowsOf(s, w)
    BY <2>1, <2>2, <2>3 DEF RowsOf, Timed, Of
  <2>5. j \in 1..(i - 1) /\ lines'[j].symbol = lines'[i].symbol /\ lines'[j].time = lines'[i].time
    BY <1>1, <1>2, <2>1, <2>2, <2>3
  <2> QED
    BY <2>2, <2>3, <2>4, <2>5 DEF Repeated
<1>7. ASSUME NEW i \in DOMAIN lines PROVE Valid(i)' <=> Valid(i)
  <2>1. \A j \in 1..(i - 1) : j \in DOMAIN lines /\ lines'[j] = lines[j]
    BY <1>1, <1>2
  <2> QED
    BY <1>2, <2>1 DEF Valid, Repeated
<1>8. Points(RowsOf(s, w))' = Points(RowsOf(s, w))
  <2>1. ASSUME NEW i, i \in RowsOf(s, w)', Valid(i)' PROVE i \in RowsOf(s, w) /\ Valid(i)
    <3>1. i \in DOMAIN lines
      BY <1>6, <2>1 DEF Valid
    <3> QED
      BY <1>5, <1>7, <2>1, <3>1
  <2>2. ASSUME NEW i, i \in RowsOf(s, w), Valid(i) PROVE i \in RowsOf(s, w)' /\ Valid(i)'
    <3>1. i \in DOMAIN lines
      BY <2>2 DEF RowsOf, Timed
    <3> QED
      BY <1>4, <1>7, <2>2, <3>1
  <2> QED
    BY <2>1, <2>2 DEF Points
<1>9. Steady(s)' => Steady(s)
  BY <1>2 DEF Steady, Of
<1> QED
  BY <1>4, <1>5, <1>6, <1>8, <1>9

LEMMA NumbersStay ==
    ASSUME RowsInv, RowsInv', RowFacts, RowFacts', Len(lines) <= Len(lines'),
           \A i \in 1..Len(lines) : i \in DOMAIN lines' /\ lines'[i] = lines[i],
           \A i \in (Len(lines) + 1)..Len(lines') : Known(lines'[i]),
           NEW s \in Symbol, NEW w \in DayWindow, Steady(s)'
    PROVE  Numbers(s, w)' = Numbers(s, w)
<1> DEFINE R == RowsOf(s, w)
           P == Points(R)
<1>1. /\ R \in SUBSET R' /\ (R = {} => R' = {}) /\ P' = P /\ Steady(s)
  BY KnownLines
<1>2. /\ R \in SUBSET (Timed \cap Of(s)) /\ P \in SUBSET R
      /\ \A i \in P : i \in DOMAIN lines /\ i \in 1..Len(lines) /\ i \in Nat
  <2>1. R \in SUBSET (Timed \cap Of(s)) /\ P \in SUBSET R
    BY WindowRows
  <2>2. /\ Timed \in SUBSET (1..Len(lines)) /\ DOMAIN lines = 1..Len(lines)
        /\ Len(lines) \in Nat
    BY TimedNumbers, LineNumbers DEF RowsInv, RowsTypeOK
  <2> HIDE DEF R, P
  <2>3. ASSUME NEW i \in P PROVE i \in 1..Len(lines) /\ i \in DOMAIN lines
    BY <2>1, <2>2
  <2>4. ASSUME NEW i \in P PROVE i \in Nat
    BY <2>2, <2>3
  <2> QED
    BY <2>1, <2>3, <2>4
<1>3. R' \in SUBSET (Timed \cap Of(s))' /\ P' \in SUBSET R'
  BY DEF RowsOf, Points
<1>4. \A i \in P : lines'[i] = lines[i]
  BY <1>2
<1>5. ~Falls(R) /\ ~Falls(R)'
  BY <1>1 DEF RowFacts
<1> HIDE DEF R, P
<1>6. VolumeDelta(P)' = VolumeDelta(P)
  <2>1. CASE Cardinality(P) < 2
    BY <1>1, <2>1 DEF VolumeDelta
  <2>2. CASE ~(Cardinality(P) < 2)
    <3>1. P # {}
      <4> SUFFICES ASSUME P = {} PROVE Cardinality(P) < 2
        BY <2>2
      <4>1. Cardinality({}) = 0
        BY FS_EmptySet
      <4>2. Cardinality(P) = 0
        BY <4>1
      <4> QED
        BY <4>2
    <3>2. /\ Earliest(P) \in P /\ \A j \in P : Earliest(P) <= j
          /\ Latest(P) \in P /\ \A j \in P : j <= Latest(P)
      BY <1>2, <3>1 DEF RowFacts
    <3>3. /\ Earliest(P)' \in P' /\ \A j \in P' : Earliest(P)' <= j
          /\ Latest(P)' \in P' /\ \A j \in P' : j <= Latest(P)'
      BY <1>1, <1>3, <3>1 DEF RowFacts
    <3>4. Earliest(P)' = Earliest(P) /\ Latest(P)' = Latest(P)
      BY <1>1, <1>2, <3>2, <3>3
    <3>5. /\ lines'[Earliest(P)'].volume = lines[Earliest(P)].volume
          /\ lines'[Latest(P)'].volume = lines[Latest(P)].volume
      BY <1>4, <3>2, <3>4
    <3> QED
      BY <1>1, <2>2, <3>5 DEF VolumeDelta
  <2> QED
    BY <2>1, <2>2
<1>7. {<<lines[i].time, lines[i].price>> : i \in P}'
        = {<<lines[i].time, lines[i].price>> : i \in P}
  BY <1>1, <1>4
<1>8. (R # {})' = (R # {})
  BY <1>1
<1>9. /\ Numbers(s, w)
            = [seen |-> R # {}, points |-> Cardinality(P),
               prices |-> {<<lines[i].time, lines[i].price>> : i \in P},
               delta |-> VolumeDelta(P),
               grade |-> Grade(Cardinality(P), VolumeDelta(P), Falls(R), Expected[w])]
      /\ Numbers(s, w)'
            = [seen |-> R' # {}, points |-> Cardinality(P'),
               prices |-> {<<lines'[i].time, lines'[i].price>> : i \in P'},
               delta |-> VolumeDelta(P)',
               grade |-> Grade(Cardinality(P'), VolumeDelta(P)', Falls(R)', Expected[w])]
  BY DEF Numbers, R, P
<1>10. Grade(Cardinality(P'), VolumeDelta(P)', Falls(R)', Expected[w])
         = Grade(Cardinality(P), VolumeDelta(P), Falls(R), Expected[w])
  <2> DEFINE n == Cardinality(P)
             d == VolumeDelta(P)
  <2>1. Grade(n, d, Falls(R)', Expected[w]) = Grade(n, d, Falls(R), Expected[w])
    BY <1>5 DEF Grade
  <2> QED
    BY <1>1, <1>6, <2>1
<1>11. {<<lines'[i].time, lines'[i].price>> : i \in P'}
         = {<<lines[i].time, lines[i].price>> : i \in P}
  BY <1>7
<1>12. (R' # {}) = (R # {})
  BY <1>8
<1> QED
  BY <1>1, <1>6, <1>9, <1>10, <1>11, <1>12

\* The window's integrity report counts each of them.
LEMMA IntegrityStays ==
    ASSUME RowsInv, RowsInv', RowFacts, RowFacts', Len(lines) <= Len(lines'),
           \A i \in 1..Len(lines) : i \in DOMAIN lines' /\ lines'[i] = lines[i],
           \A i \in (Len(lines) + 1)..Len(lines') : Known(lines'[i]),
           NEW s \in Symbol, NEW w \in DayWindow, Steady(s)'
    PROVE  LET old == IntegrityReport(RowsOf(s, w))
               new == IntegrityReport(RowsOf(s, w))'
               added == RowsOf(s, w)' \ RowsOf(s, w)
           IN /\ new.duplicates = old.duplicates + Cardinality(added)
              /\ new.gaps = old.gaps /\ new.reset = old.reset
<1> DEFINE R == RowsOf(s, w)
           times == {lines[i].time : i \in R}
           added == R' \ R
<1>1. /\ R \in SUBSET R' /\ Steady(s)
      /\ \A i \in added : \E j \in R : lines[j].time = lines'[i].time
  BY KnownLines
<1>2. \A i \in R : lines'[i] = lines[i]
  <2>1. R \in SUBSET (Timed \cap Of(s))
    BY WindowRows
  <2>2. Timed \in SUBSET (1..Len(lines))
    BY TimedNumbers, LineNumbers DEF RowsInv, RowsTypeOK
  <2> QED
    BY <2>1, <2>2
<1>3. IsFiniteSet(R) /\ IsFiniteSet(R')
  BY DEF RowFacts
<1>4. Falls(R) = FALSE /\ Falls(R)' = FALSE
  BY <1>1 DEF RowFacts
<1> HIDE DEF R
<1>5. times' = times
  BY <1>1, <1>2
<1>6. /\ Cardinality(R') = Cardinality(R) + Cardinality(added)
      /\ Cardinality(R) \in Nat /\ Cardinality(added) \in Nat
  <2>1. IsFiniteSet(added) /\ R' = R \cup added /\ R \cap added = {}
    BY <1>1, <1>3, FS_Subset
  <2> HIDE DEF added
  <2>2. Cardinality(R \cap added) = 0
    BY <2>1, FS_EmptySet
  <2>3. Cardinality(R \cup added) = Cardinality(R) + Cardinality(added) - Cardinality(R \cap added)
    BY <1>3, <2>1, FS_Union
  <2>4. Cardinality(R) \in Nat /\ Cardinality(added) \in Nat
    BY <1>3, <2>1, FS_CardinalityType
  <2> QED
    BY <2>1, <2>2, <2>3, <2>4
<1>7. IsFiniteSet(times) /\ Cardinality(times) \in Nat
  <2>1. times \in SUBSET TicksOf[w]
    BY WindowRows DEF R
  <2>2. IsFiniteSet(TicksOf[w])
    BY WindowsInOrder
  <2> HIDE DEF times
  <2> QED
    BY <2>1, <2>2, FS_Subset, FS_CardinalityType
<1> DEFINE old == IntegrityReport(R)
           gaps(T) == {p \in T \X T :
                         p[2] - p[1] > Gap /\ \A t \in T : t <= p[1] \/ p[2] <= t}
<1>8. /\ old = [duplicates |-> Cardinality(R) - Cardinality(times), gaps |-> gaps(times),
                reset |-> Falls(R), run |-> MaxStaleRun(R)]
      /\ old' = [duplicates |-> Cardinality(R') - Cardinality(times'), gaps |-> gaps(times'),
                 reset |-> Falls(R)', run |-> MaxStaleRun(R)']
  BY DEF IntegrityReport
<1> HIDE DEF old, times, gaps, added
<1>9. /\ old.duplicates = Cardinality(R) - Cardinality(times)
      /\ old'.duplicates = Cardinality(R') - Cardinality(times')
      /\ old.gaps = gaps(times) /\ old'.gaps = gaps(times')
      /\ old.reset = Falls(R) /\ old'.reset = Falls(R)'
  BY <1>8
<1>10. old'.duplicates = old.duplicates + Cardinality(added)
  BY <1>5, <1>6, <1>7, <1>9
<1>11. old'.gaps = old.gaps /\ old'.reset = old.reset
  BY <1>4, <1>5, <1>9
<1> QED
  BY <1>10, <1>11 DEF old, added, R

\* A collection that is repeated after a failure and an answer with an old
\* timestamp are counted as duplicates, one by one, and may change how stale a
\* price looks; they change no price, volume, gap or grade of any window, no
\* ranking by these and not whether the day may be analysed, unless the provider's
\* counter went back.
THEOREM RepeatsAreCounted == RowsSpec => RepeatsAreOnlyCounted
<1>1. ASSUME RowsInv, RowsInv', RowFacts, RowFacts', [RowsNext]_rowsVars,
             lines' # lines, \A i \in (Len(lines) + 1)..Len(lines') : Known(lines'[i]),
             \A s \in Symbol : Steady(s)'
      PROVE  /\ \A s \in Symbol, w \in DayWindow :
                  LET old   == SymbolMetrics(s, w)
                      new   == SymbolMetrics(s, w)'
                      added == RowsOf(s, w)' \ RowsOf(s, w)
                  IN  /\ new.numbers = old.numbers
                      /\ new.integrity.duplicates = old.integrity.duplicates + Cardinality(added)
                      /\ new.integrity.gaps = old.integrity.gaps
                      /\ new.integrity.reset = old.integrity.reset
             /\ Ranked(DayMetrics)' = Ranked(DayMetrics)
             /\ UsableForAnalysis(DayMetrics)' = UsableForAnalysis(DayMetrics)
  <2>1. /\ Len(lines) <= Len(lines')
        /\ \A i \in 1..Len(lines) : i \in DOMAIN lines' /\ lines'[i] = lines[i]
    BY <1>1, LinesAreKept
  <2>2. \A s \in Symbol, w \in DayWindow : Numbers(s, w)' = Numbers(s, w)
    BY <1>1, <2>1, NumbersStay
  <2>3. DayMetrics' = DayMetrics
    BY <2>2 DEF DayMetrics
  <2>14. ASSUME NEW s \in Symbol, NEW w \in DayWindow
         PROVE  LET old   == SymbolMetrics(s, w)
                    new   == SymbolMetrics(s, w)'
                    added == RowsOf(s, w)' \ RowsOf(s, w)
                IN  /\ new.numbers = old.numbers
                    /\ new.integrity.duplicates
                         = old.integrity.duplicates + Cardinality(added)
                    /\ new.integrity.gaps = old.integrity.gaps
                    /\ new.integrity.reset = old.integrity.reset
    <3> DEFINE report == IntegrityReport(RowsOf(s, w))
    <3>1. /\ SymbolMetrics(s, w).numbers = Numbers(s, w)
          /\ SymbolMetrics(s, w).integrity = report
          /\ SymbolMetrics(s, w)'.numbers = Numbers(s, w)'
          /\ SymbolMetrics(s, w)'.integrity = report'
      BY DEF SymbolMetrics
    <3>2. /\ report'.duplicates
               = report.duplicates + Cardinality(RowsOf(s, w)' \ RowsOf(s, w))
          /\ report'.gaps = report.gaps /\ report'.reset = report.reset
      BY <1>1, <2>1, IntegrityStays
    <3> HIDE DEF report
    <3> QED
      BY <2>2, <3>1, <3>2
  <2>4. Ranked(DayMetrics)' = Ranked(DayMetrics)
    BY <2>3 DEF Ranked, Usable
  <2>5. /\ lines \in Seq(Line) /\ lines' \in Seq(Line)
        /\ Len(lines) \in Nat /\ DOMAIN lines = 1..Len(lines)
        /\ Len(lines') \in Nat /\ DOMAIN lines' = 1..Len(lines')
    BY <1>1, LenProperties DEF RowsInv, RowsTypeOK
  <2>6. Told' = Told
    <3>1. ASSUME NEW i \in DOMAIN lines PROVE i \in DOMAIN lines' /\ lines'[i] = lines[i]
      BY <2>1, <2>5
    <3>2. ASSUME NEW i \in DOMAIN lines'
          PROVE  \E j \in DOMAIN lines : lines[j].symbol = lines'[i].symbol
      <4>1. CASE i \in DOMAIN lines
        BY <3>1, <4>1
      <4>2. CASE i \in (Len(lines) + 1)..Len(lines')
        BY <1>1, <4>2 DEF Known
      <4> QED
        BY <2>5, <4>1, <4>2
    <3> QED
      BY <3>1, <3>2 DEF Told
  <2>7. lines # <<>> /\ lines' # <<>>
    <3>1. Len(lines) # 0
      <4> SUFFICES ASSUME Len(lines) = 0 PROVE FALSE
        OBVIOUS
      <4>1. Len(lines') # 0
        BY <1>1, <2>5, EmptySeq
      <4>2. Known(lines'[1])
        BY <1>1, <2>5, <4>1
      <4> QED
        BY <2>5, <4>2 DEF Known
    <3>2. Len(lines') # 0
      BY <2>1, <2>5, <3>1
    <3>3. Len(<<>>) = 0
      BY EmptySeq
    <3> QED
      BY <3>1, <3>2, <3>3
  <2> DEFINE unusable == {w \in DayWindow : WindowStatus(DayMetrics, w) = "unusable"}
  <2>8. unusable' = unusable
    BY <2>3 DEF WindowStatus
  <2>9. LacksMoreThan(7, DayMetrics)' <=> LacksMoreThan(7, DayMetrics)
    BY <2>3, <2>6 DEF LacksMoreThan, PointsInAll
  <2>10. UsableForAnalysis(DayMetrics)
           <=> ~LacksMoreThan(7, DayMetrics) /\ ~(Cardinality(unusable) >= 2)
    BY <2>7 DEF UsableForAnalysis, OverallGrade
  <2>11. UsableForAnalysis(DayMetrics)'
           <=> ~LacksMoreThan(7, DayMetrics)' /\ ~(Cardinality(unusable') >= 2)
    BY <2>7 DEF UsableForAnalysis, OverallGrade
  <2>12. /\ UsableForAnalysis(DayMetrics) \in BOOLEAN
         /\ UsableForAnalysis(DayMetrics)' \in BOOLEAN
    BY DEF UsableForAnalysis
  <2> HIDE DEF unusable
  <2>13. UsableForAnalysis(DayMetrics)' <=> UsableForAnalysis(DayMetrics)
    BY <2>8, <2>9, <2>10, <2>11
  <2> QED
    BY <2>4, <2>12, <2>13, <2>14
<1>2. RowsInv /\ RowsInv' /\ RowFacts /\ RowFacts' /\ [RowsNext]_rowsVars =>
        [(/\ lines' # lines
          /\ \A i \in (Len(lines) + 1)..Len(lines') : Known(lines'[i])
          /\ \A s \in Symbol : Steady(s)')
         => /\ \A s \in Symbol, w \in DayWindow :
                  LET old   == SymbolMetrics(s, w)
                      new   == SymbolMetrics(s, w)'
                      added == RowsOf(s, w)' \ RowsOf(s, w)
                  IN  /\ new.numbers = old.numbers
                      /\ new.integrity.duplicates = old.integrity.duplicates + Cardinality(added)
                      /\ new.integrity.gaps = old.integrity.gaps
                      /\ new.integrity.reset = old.integrity.reset
            /\ Ranked(DayMetrics)' = Ranked(DayMetrics)
            /\ UsableForAnalysis(DayMetrics)' = UsableForAnalysis(DayMetrics)]_rowsVars
  BY <1>1
<1> QED
  BY <1>2, RowsInvariant, FactsOfRows, PTL DEF RowsSpec, RepeatsAreOnlyCounted
=============================================================================
