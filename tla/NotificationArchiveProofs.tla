----------------------- MODULE NotificationArchiveProofs -----------------------
(* What NotificationArchive promises for any number of calls of notify(), on a *)
(* file of any length.                                                         *)
EXTENDS NotificationArchive, SequenceTheorems, WellFoundedInduction, TLAPS

-----------------------------------------------------------------------------
(* The last of some lines. *)

LEMMA LeastNatural ==
    ASSUME NEW T \in SUBSET Nat, T # {}
    PROVE  \E m \in T : \A k \in T : m <= k
<1> DEFINE R == OpToRel(<, Nat)
<1>1. IsWellFoundedOn(R, Nat)
  BY NatLessThanWellFounded
<1>2. \A x, y \in Nat : x < y => <<x, y>> \in R
  BY DEF OpToRel
<1> HIDE DEF R
<1>3. PICK m \in T : \A k \in T : ~(<<k, m>> \in R)
  BY <1>1, WFMin
<1>4. \A k \in T : m <= k
  <2> TAKE k \in T
  <2>1. ~(k < m)
    BY <1>2, <1>3
  <2> QED
    BY <2>1
<1> QED
  BY <1>4

\* LastOf is meant for positions of a sequence, and finds one.
LEMMA LastOfPositions ==
    ASSUME NEW n \in Nat, NEW S \in SUBSET (1..n), S # {}
    PROVE  LastOf(S) \in S /\ \A j \in S : j <= LastOf(S)
<1> DEFINE T == {n - i : i \in S}
<1>1. T \in SUBSET Nat
  <2>1. ASSUME NEW i \in S PROVE n - i \in Nat
    BY n - i >= 0
  <2> QED
    BY <2>1
<1>2. T # {}
  OBVIOUS
<1>3. \E m \in T : \A k \in T : m <= k
  <2> HIDE DEF T
  <2> QED
    BY <1>1, <1>2, LeastNatural
<1>4. PICK i \in S : \A j \in S : n - i <= n - j
  BY <1>3
<1>5. \A j \in S : j <= i
  BY <1>4
<1> QED
  BY <1>5 DEF LastOf

-----------------------------------------------------------------------------
(* Lines of a file. *)

LEMMA Positions ==
    ASSUME NEW s \in Seq(Line)
    PROVE  /\ Len(s) \in Nat /\ DOMAIN s = 1..Len(s)
           /\ \A i \in DOMAIN s :
                /\ s[i] \in Line /\ s[i].results \in Call \cup {"none"}
                /\ s[i] \notin Scrap <=> s[i].by \in Call
                /\ s[i] \in Scrap => s[i].results = "none"
<1>1. Len(s) \in Nat /\ DOMAIN s = 1..Len(s)
  BY LenProperties
<1>2. \A i \in 1..Len(s) : s[i] \in Line
  BY ElementOfSeq
<1>3. ASSUME NEW line \in Line
      PROVE  /\ line.results \in Call \cup {"none"}
             /\ line \notin Scrap <=> line.by \in Call
             /\ line \in Scrap => line.results = "none"
  BY ArchiveConstants DEF Line, Scrap, Torn, Broken
<1> QED
  BY <1>1, <1>2, <1>3

LEMMA ScrapLines ==
    ASSUME NEW x \in Scrap
    PROVE  x \in Line /\ x.results = "none" /\ x.by \notin Call
BY ArchiveConstants DEF Line, Scrap, Torn, Broken

LEMMA NewLine ==
    ASSUME NEW c \in Call
    PROVE  /\ New(c) \in Line /\ New(c) \notin Scrap
           /\ New(c).by = c /\ New(c).results = "none"
BY ArchiveConstants DEF New, Line, Scrap, Torn, Broken

LEMMA OneMoreLine ==
    ASSUME NEW s \in Seq(Line), NEW line \in Line
    PROVE  LET t == Append(s, line)
           IN  /\ t \in Seq(Line) /\ DOMAIN t = 1..(Len(s) + 1)
               /\ Len(t) = Len(s) + 1
               /\ \A i \in DOMAIN s : t[i] = s[i]
               /\ t[Len(s) + 1] = line
BY Positions, AppendProperties, LenProperties

\* The last line gives way to scrap.
Scrapped(s, x) == [s EXCEPT ![Len(s)] = x]

LEMMA ScrappedLines ==
    ASSUME NEW s \in Seq(Line), s # <<>>, NEW x \in Scrap
    PROVE  /\ Scrapped(s, x) \in Seq(Line) /\ DOMAIN Scrapped(s, x) = DOMAIN s
           /\ Len(Scrapped(s, x)) = Len(s) /\ Len(s) \in DOMAIN s
           /\ \A i \in DOMAIN s :
                Scrapped(s, x)[i] = IF i = Len(s) THEN x ELSE s[i]
<1>1. Len(s) \in Nat /\ DOMAIN s = 1..Len(s) /\ Len(s) # 0
  BY Positions, EmptySeq
<1>2. x \in Line /\ Len(s) \in 1..Len(s)
  BY <1>1, ScrapLines
<1>3. Scrapped(s, x) \in Seq(Line) /\ Len(Scrapped(s, x)) = Len(s)
  BY <1>1, <1>2, ExceptSeq DEF Scrapped
<1> QED
  BY <1>1, <1>2, <1>3 DEF Scrapped

LEMMA LandedLines ==
    ASSUME TypeOK, NEW line \in Line
    PROVE  /\ ~Unfinished => Landed(line) = Append(archive, line)
           /\ Unfinished => \E x \in Scrap : Landed(line) = Scrapped(archive, x)
           /\ Landed(line) \in Seq(Line)
           /\ \A i \in DOMAIN Landed(line) :
                \/ Landed(line)[i] \in Scrap \cup {line}
                \/ \E j \in DOMAIN archive : Landed(line)[i] = archive[j]
<1>1. archive \in Seq(Line)
  BY DEF TypeOK
<1>2. CASE ~Unfinished
  <2>1. Landed(line) = Append(archive, line)
    BY <1>2 DEF Landed
  <2>2. \A i \in 1..(Len(archive) + 1) :
          i \in DOMAIN archive \/ i = Len(archive) + 1
    BY <1>1, Positions
  <2> QED
    BY <1>1, <1>2, <2>1, <2>2, OneMoreLine
<1>3. CASE Unfinished
  <2>1. PICK x \in Scrap : Landed(line) = Scrapped(archive, x)
    BY <1>3 DEF Landed, Scrapped, Scrap
  <2>2. archive # <<>>
    BY <1>3 DEF Unfinished
  <2> QED
    BY <1>1, <1>3, <2>1, <2>2, ScrappedLines
<1> QED
  BY <1>2, <1>3

LEMMA ResultsPutIn ==
    ASSUME NEW s \in Seq(Line), NEW i \in DOMAIN s, s[i].by \in Call,
           NEW c \in Call
    PROVE  LET t == [s EXCEPT ![i].results = c]
           IN  /\ t \in Seq(Line) /\ DOMAIN t = DOMAIN s
               /\ \A j \in DOMAIN s :
                    /\ t[j].by = s[j].by
                    /\ t[j].results = IF j = i THEN c ELSE s[j].results
<1> DEFINE line == [s[i] EXCEPT !.results = c]
           t    == [s EXCEPT ![i] = line]
<1>1. s[i] \in Line /\ s[i] \notin Scrap /\ i \in 1..Len(s)
  BY Positions
<1>2. line \in Line /\ line.by = s[i].by /\ line.results = c
  BY <1>1 DEF Line
<1>3. t \in Seq(Line) /\ DOMAIN t = DOMAIN s
  <2> HIDE DEF line
  <2> QED
    BY <1>1, <1>2, ExceptSeq
<1>4. \A j \in DOMAIN s : t[j] = IF j = i THEN line ELSE s[j]
  OBVIOUS
<1> HIDE DEF t, line
<1>5. \A j \in DOMAIN s :
        t[j].by = s[j].by /\ t[j].results = IF j = i THEN c ELSE s[j].results
  BY <1>2, <1>4
<1>6. t = [s EXCEPT ![i].results = c]
  BY DEF t, line
<1> QED
  BY <1>3, <1>5, <1>6

LEMMA SomeLines ==
    ASSUME NEW s \in Seq(Line), NEW t \in Prefixes(s) \cup Suffixes(s) \cup {<<>>}
    PROVE  /\ t \in Seq(Line)
           /\ \A i \in DOMAIN t : \E j \in DOMAIN s : t[i] = s[j]
<1>1. ASSUME NEW m \in Nat, NEW n \in Nat, 1 <= m, n <= Len(s),
             t = SubSeq(s, m, n)
      PROVE  /\ t \in Seq(Line)
             /\ \A i \in DOMAIN t : \E j \in DOMAIN s : t[i] = s[j]
  <2>1. \A i \in m..n : i \in DOMAIN s /\ s[i] \in Line
    BY <1>1, Positions
  <2>2. /\ t \in Seq(Line) /\ Len(t) = IF m <= n THEN n - m + 1 ELSE 0
        /\ \A i \in 1..(n - m + 1) : t[i] = s[m + i - 1]
    BY <1>1, <2>1, SubSeqProperties
  <2>3. DOMAIN t = 1..Len(t)
    BY <2>2, LenProperties
  <2>4. ASSUME NEW i \in DOMAIN t PROVE \E j \in DOMAIN s : t[i] = s[j]
    <3>1. i \in 1..(n - m + 1) /\ m + i - 1 \in m..n
      BY <2>2, <2>3
    <3> QED
      BY <2>1, <2>2, <3>1
  <2> QED
    BY <2>2, <2>4
<1>2. CASE t = <<>>
  BY <1>2
<1>3. CASE t \in Prefixes(s)
  <2>1. PICK n \in 0..Len(s) : t = SubSeq(s, 1, n)
    BY <1>3 DEF Prefixes
  <2> QED
    BY <1>1, <2>1, Positions
<1>4. CASE t \in Suffixes(s) /\ t # <<>>
  <2>1. PICK m \in 1..Len(s) : t = SubSeq(s, m, Len(s))
    BY <1>4 DEF Suffixes
  <2>2. m \in Nat /\ Len(s) \in Nat /\ 1 <= m
    BY Positions
  <2> QED
    BY <1>1, <2>1, <2>2
<1> QED
  BY <1>2, <1>3, <1>4

LEMMA NoSuffix == Suffixes(<<>>) = {<<>>}
BY DEF Suffixes

LEMMA Joined ==
    ASSUME NEW s \in Seq(Line), NEW t \in Seq(Line)
    PROVE  /\ s \o t \in Seq(Line)
           /\ \A i \in DOMAIN (s \o t) :
                \/ \E j \in DOMAIN s : (s \o t)[i] = s[j]
                \/ \E j \in DOMAIN t : (s \o t)[i] = t[j]
<1>1. /\ s \o t \in Seq(Line) /\ Len(s \o t) = Len(s) + Len(t)
      /\ \A i \in 1..(Len(s) + Len(t)) :
           (s \o t)[i] = IF i <= Len(s) THEN s[i] ELSE t[i - Len(s)]
  BY ConcatProperties
<1>2. DOMAIN (s \o t) = 1..(Len(s) + Len(t))
  BY <1>1, LenProperties
<1>3. ASSUME NEW i \in 1..(Len(s) + Len(t))
      PROVE  \/ \E j \in DOMAIN s : (s \o t)[i] = s[j]
             \/ \E j \in DOMAIN t : (s \o t)[i] = t[j]
  <2>1. Len(s) \in Nat /\ DOMAIN s = 1..Len(s) /\ Len(t) \in Nat /\ DOMAIN t = 1..Len(t)
    BY Positions
  <2>2. CASE i <= Len(s)
    BY <1>1, <2>1, <2>2
  <2>3. CASE i > Len(s)
    <3>1. i - Len(s) \in DOMAIN t
      BY <2>1, <2>3
    <3> QED
      BY <1>1, <2>1, <2>3, <3>1
  <2> QED
    BY <2>1, <2>2, <2>3
<1> QED
  BY <1>1, <1>2, <1>3

\* What stays of the file behind a text written over it.
LEMMA BeyondLines ==
    ASSUME TypeOK, NEW rest \in Beyond
    PROVE  /\ rest \in Seq(Line)
           /\ \A i \in DOMAIN rest :
                rest[i] \in Scrap \/ \E j \in DOMAIN archive : rest[i] = archive[j]
<1>1. PICK piece \in {<<>>} \cup {<<x>> : x \in Scrap},
           lines \in {<<>>} \cup Suffixes(archive) : rest = piece \o lines
  BY DEF Beyond
<1>2. archive \in Seq(Line)
  BY DEF TypeOK
<1>3. piece \in Seq(Line) /\ \A i \in DOMAIN piece : piece[i] \in Scrap
  <2>1. CASE piece = <<>>
    BY <2>1
  <2>2. ASSUME NEW x \in Scrap, piece = <<x>>
        PROVE  piece \in Seq(Line) /\ \A i \in DOMAIN piece : piece[i] \in Scrap
    BY <2>2, ScrapLines
  <2> QED
    BY <1>1, <2>1, <2>2
<1>4. lines \in Seq(Line) /\ \A i \in DOMAIN lines : \E j \in DOMAIN archive :
                                                     lines[i] = archive[j]
  BY <1>1, <1>2, SomeLines
<1>5. /\ piece \o lines \in Seq(Line)
      /\ \A i \in DOMAIN (piece \o lines) :
           \/ \E j \in DOMAIN piece : (piece \o lines)[i] = piece[j]
           \/ \E j \in DOMAIN lines : (piece \o lines)[i] = lines[j]
  BY <1>3, <1>4, Joined
<1> QED
  BY <1>1, <1>3, <1>4, <1>5

LEMMA CutLines ==
    ASSUME TypeOK, NEW c \in Call, CutShort(c)
    PROVE  /\ archive' \in Seq(Line)
           /\ \A i \in DOMAIN archive' :
                \/ archive'[i] \in Scrap
                \/ \E j \in DOMAIN archive : archive'[i] = archive[j]
                \/ \E j \in DOMAIN text[c] : archive'[i] = text[c][j]
<1>1. PICK some \in Prefixes(text[c]), rest \in Beyond : archive' = some \o rest
  BY DEF CutShort
<1>2. text[c] \in Seq(Line)
  BY DEF TypeOK
<1>3. some \in Seq(Line) /\ \A i \in DOMAIN some : \E j \in DOMAIN text[c] :
                                                   some[i] = text[c][j]
  BY <1>1, <1>2, SomeLines
<1>4. /\ rest \in Seq(Line)
      /\ \A i \in DOMAIN rest :
           rest[i] \in Scrap \/ \E j \in DOMAIN archive : rest[i] = archive[j]
  BY BeyondLines
<1>5. /\ some \o rest \in Seq(Line)
      /\ \A i \in DOMAIN (some \o rest) :
           \/ \E j \in DOMAIN some : (some \o rest)[i] = some[j]
           \/ \E j \in DOMAIN rest : (some \o rest)[i] = rest[j]
  BY <1>3, <1>4, Joined
<1> QED
  BY <1>1, <1>3, <1>4, <1>5

-----------------------------------------------------------------------------
(* Types. *)

\* A call that rewrites the file was asked to, and has sent its e-mail.
Progress ==
    \A c \in Call :
        /\ pc[c] = "start" => c \notin appended
        /\ pc[c] = "read" => c \in selected /\ c \in mailed

LEMMA OwnPositions ==
    ASSUME TypeOK, NEW c \in Call, Own(c) # {}
    PROVE  /\ LastOf(Own(c)) \in DOMAIN archive
           /\ archive[LastOf(Own(c))].by \in Call
           /\ id[archive[LastOf(Own(c))].by] = id[c]
           /\ \A i \in Own(c) : i <= LastOf(Own(c))
<1>1. Len(archive) \in Nat /\ Own(c) \in SUBSET (1..Len(archive))
  BY Positions DEF Own, TypeOK
<1>2. LastOf(Own(c)) \in Own(c) /\ \A i \in Own(c) : i <= LastOf(Own(c))
  BY <1>1, LastOfPositions
<1> QED
  BY <1>2, Positions DEF Own, TypeOK

LEMMA TypeInit == Init => TypeOK /\ Progress
<1> SUFFICES ASSUME Init PROVE TypeOK /\ Progress
  OBVIOUS
<1>1. archive \in Seq(Line) /\ text \in [Call -> Seq(Line)]
  BY DEF Init
<1>2. ended \in BOOLEAN /\ raced \in BOOLEAN /\ cut \in BOOLEAN
  BY DEF Init
<1>3. /\ pc \in [Call -> PC] /\ mailed = {} /\ id \in [Call -> Id]
      /\ selected \subseteq Call /\ appended = {} /\ faults \in 0..MaxFaults
  BY ArchiveConstants DEF Init, PC
<1>4. Rewriting = {} /\ \A c \in Call : pc[c] = "start"
  BY DEF Init, Rewriting
<1> QED
  BY <1>1, <1>2, <1>3, <1>4 DEF TypeOK, Progress

\* The flags.
LEMMA FlagsNext ==
    ASSUME TypeOK, [Next]_vars
    PROVE  /\ ended' \in BOOLEAN /\ raced' \in BOOLEAN /\ cut' \in BOOLEAN
           /\ faults' \in 0..MaxFaults
<1>1. ended \in BOOLEAN /\ raced \in BOOLEAN /\ cut \in BOOLEAN
  BY DEF TypeOK
<1>2. ended' \in BOOLEAN
  BY <1>1, Zenon DEF Next, vars, file, WriteArchive, AppendLine, AppendPart,
     Send, Read, ReadRaises, GiveUp, Open, Write, WriteFails, CutShort, Die
<1>3. raced' \in BOOLEAN
  BY <1>1, Zenon DEF Next, vars, WriteArchive, AppendLine, AppendPart, Touch,
     Send, Read, ReadRaises, GiveUp, Open, Write, WriteFails, CutShort, Die
<1>4. cut' \in BOOLEAN
  BY <1>1, Zenon DEF Next, vars, WriteArchive, AppendLine, AppendPart,
     Send, Read, ReadRaises, GiveUp, Open, Write, WriteFails, CutShort, Die
<1>5. faults' \in 0..MaxFaults
  <2>1. faults' = faults \/ Fault
    BY Zenon DEF Next, vars, WriteArchive, AppendLine, Send, Read, ReadRaises,
       GiveUp, Open, Write, WriteFails, Die
  <2> QED
    BY <2>1, ArchiveConstants DEF TypeOK, Fault
<1> QED
  BY <1>2, <1>3, <1>4, <1>5

LEMMA TextNext ==
    ASSUME TypeOK, [Next]_vars PROVE text' \in [Call -> Seq(Line)]
<1>1. text \in [Call -> Seq(Line)] /\ <<>> \in Seq(Line)
  BY DEF TypeOK
<1>2. ASSUME NEW c \in Call, Read(c) PROVE text' \in [Call -> Seq(Line)]
  <2>1. text'[c] \in Seq(Line)
    <3>1. CASE Own(c) = {}
      BY <1>1, <1>2, <3>1 DEF Read
    <3>2. CASE Own(c) # {}
      BY <1>1, <1>2, <3>2, OwnPositions, ResultsPutIn DEF Read, TypeOK
    <3> QED
      BY <3>1, <3>2
  <2> QED
    BY <1>1, <1>2, <2>1 DEF Read
<1>3. ASSUME NEW c \in Call, Drop(c) PROVE text' \in [Call -> Seq(Line)]
  BY <1>1, <1>3 DEF Drop
<1>4. CASE text' = text
  BY <1>1, <1>4
<1> QED
  BY <1>2, <1>3, <1>4
  DEF Next, vars, call, WriteArchive, Send, ReadRaises, GiveUp, Open, Write,
      WriteFails, Die

LEMMA AppendTypes ==
    ASSUME TypeOK, NEW c \in Call, AppendLine(c) \/ AppendPart(c)
    PROVE  archive' \in Seq(Line)
<1>1. New(c) \in Line /\ Scrap \subseteq Line
  BY NewLine, ScrapLines
<1>2. \A line \in {New(c)} \cup Scrap : Landed(line) \in Seq(Line)
  BY <1>1, LandedLines
<1> QED
  BY <1>2 DEF AppendLine, AppendPart, Scrap

LEMMA TypeNext == TypeOK /\ Progress /\ [Next]_vars => TypeOK' /\ Progress'
<1> SUFFICES ASSUME TypeOK, Progress, [Next]_vars PROVE TypeOK' /\ Progress'
  OBVIOUS
<1>a. /\ ended' \in BOOLEAN /\ raced' \in BOOLEAN /\ cut' \in BOOLEAN
      /\ faults' \in 0..MaxFaults /\ text' \in [Call -> Seq(Line)]
  BY FlagsNext, TextNext
<1>b. /\ archive \in Seq(Line) /\ pc \in [Call -> PC] /\ id \in [Call -> Id]
      /\ mailed \subseteq Call /\ selected \subseteq Call /\ appended \subseteq Call
      /\ Rewriting \subseteq selected \cap mailed
  BY DEF TypeOK
<1> DEFINE Rest == /\ archive \in Seq(Line) /\ pc \in [Call -> PC]
                   /\ id \in [Call -> Id] /\ mailed \subseteq Call
                   /\ selected \subseteq Call /\ appended \subseteq Call
                   /\ Rewriting \subseteq selected \cap mailed
<1> SUFFICES Rest' /\ Progress'
  BY <1>a DEF TypeOK
<1> USE DEF Progress, PC, Rewriting, At
<1>1. CASE UNCHANGED vars
  BY <1>b, <1>1 DEF vars, call, file
<1>2. ASSUME NEW c \in Call, WriteArchive(c) PROVE Rest' /\ Progress'
  <2>1. /\ pc[c] = "start" /\ pc' = [pc EXCEPT ![c] = "send"]
        /\ UNCHANGED <<id, mailed, selected>>
        /\ AppendLine(c) \/ AppendPart(c) \/ UNCHANGED <<file, appended, raced>>
    BY <1>2 DEF WriteArchive
  <2>2. archive' \in Seq(Line)
    BY <1>b, <2>1, AppendTypes DEF file
  <2>3. appended' \subseteq appended \cup {c}
    BY <2>1 DEF AppendLine, AppendPart
  <2> QED
    BY <1>b, <2>1, <2>2, <2>3
<1>3. ASSUME NEW c \in Call, Send(c) PROVE Rest' /\ Progress'
  BY <1>b, <1>3 DEF Send, file
<1>4. ASSUME NEW c \in Call, Read(c) PROVE Rest' /\ Progress'
  BY <1>b, <1>4 DEF Read, file
<1>5. ASSUME NEW c \in Call, ReadRaises(c) \/ GiveUp(c) PROVE Rest' /\ Progress'
  BY <1>b, <1>5 DEF ReadRaises, GiveUp, file
<1>6. ASSUME NEW c \in Call, Open(c) PROVE Rest' /\ Progress'
  BY <1>b, <1>6 DEF Open
<1>7. ASSUME NEW c \in Call, Write(c) PROVE Rest' /\ Progress'
  <2>1. archive' \in Seq(Line)
    <3>1. PICK rest \in {<<>>} \cup Beyond : archive' = text[c] \o rest
      BY <1>7 DEF Write
    <3>2. rest \in Seq(Line) /\ text[c] \in Seq(Line)
      <4>1. rest \in Beyond => rest \in Seq(Line)
        BY BeyondLines
      <4>2. text[c] \in Seq(Line) /\ <<>> \in Seq(Line)
        BY DEF TypeOK
      <4> QED
        BY <3>1, <4>1, <4>2
    <3>3. text[c] \o rest \in Seq(Line)
      BY <3>2, Joined
    <3> QED
      BY <3>1, <3>3
  <2> QED
    BY <1>b, <1>7, <2>1 DEF Write
<1>8. ASSUME NEW c \in Call, WriteFails(c) PROVE Rest' /\ Progress'
  BY <1>b, <1>8, CutLines DEF WriteFails, CutShort
<1>9. ASSUME NEW c \in Call, Die(c) PROVE Rest' /\ Progress'
  <2>1. archive' \in Seq(Line) /\ appended' = appended
    BY <1>b, <1>9, AppendTypes, CutLines DEF Die, AppendPart, CutShort, file
  <2> QED
    BY <1>b, <1>9, <2>1 DEF Die
<1> QED
  BY <1>1, <1>2, <1>3, <1>4, <1>5, <1>6, <1>7, <1>8, <1>9 DEF Next

\* Every line of the file is one that a call wrote, or what is left of one, and
\* only a call that was asked for the archive and has its results rewrites it
\* (notify, core/notification.py).
THEOREM ArchiveTypeCorrect == Spec => []TypeOK
BY TypeInit, TypeNext, PTL DEF Spec
-----------------------------------------------------------------------------
(* Results.  The lines of the file, and those that a call has in hand to      *)
(* write, were all lines of the file before, or were given the results of a   *)
(* call that had them; the others are new, or scrap.                          *)

HonestLine ==
    {line \in Line :
        /\ line.by \in Call => pc[line.by] # "start"
        /\ line.results # "none" =>
             id[line.results] = id[line.by] /\ line.results \in mailed}

OwnInv ==
    /\ \A i \in DOMAIN archive : archive[i] \in HonestLine
    /\ \A c \in Call : \A i \in DOMAIN text[c] : text[c][i] \in HonestLine

LEMMA OwnInit == Init => OwnInv
BY DEF Init, OwnInv

LEMMA HonestStays ==
    ASSUME TypeOK, [Next]_vars PROVE HonestLine \subseteq HonestLine'
<1>1. id' = id
  BY DEF Next, vars, call, WriteArchive, Send, Read, ReadRaises, GiveUp, Open,
         Write, WriteFails, Die
<1>2. mailed \subseteq mailed'
  BY DEF Next, vars, call, WriteArchive, Send, Read, ReadRaises, GiveUp, Open,
         Write, WriteFails, Die
<1>3. \A c \in Call : pc[c] # "start" => pc'[c] # "start"
  BY DEF Next, vars, call, WriteArchive, Send, Read, ReadRaises, GiveUp, Open,
         Write, WriteFails, Die, At, TypeOK
<1> QED
  BY <1>1, <1>2, <1>3 DEF HonestLine

\* Where the lines of the file come from.
LEMMA FileLines ==
    ASSUME TypeOK, [Next]_vars
    PROVE  \A i \in DOMAIN archive' :
             \/ archive'[i] \in Scrap
             \/ \E j \in DOMAIN archive : archive'[i] = archive[j]
             \/ \E c \in Call : \E j \in DOMAIN text[c] : archive'[i] = text[c][j]
             \/ \E c \in Call : archive'[i] = New(c) /\ pc'[c] # "start"
<1>1. CASE archive' = archive \/ archive' = <<>>
  BY <1>1
<1>2. ASSUME NEW c \in Call, AppendLine(c) \/ AppendPart(c), pc'[c] # "start"
      PROVE  \A i \in DOMAIN archive' :
               \/ archive'[i] \in Scrap
               \/ \E j \in DOMAIN archive : archive'[i] = archive[j]
               \/ \E d \in Call : archive'[i] = New(d) /\ pc'[d] # "start"
  <2>1. PICK line \in {New(c)} \cup Scrap : archive' = Landed(line)
    BY <1>2 DEF AppendLine, AppendPart, Scrap
  <2>2. line \in Line
    BY NewLine, ScrapLines
  <2>3. \A i \in DOMAIN Landed(line) :
          \/ Landed(line)[i] \in Scrap \cup {line}
          \/ \E j \in DOMAIN archive : Landed(line)[i] = archive[j]
    BY <2>2, LandedLines
  <2> QED
    BY <1>2, <2>1, <2>3
<1>3. ASSUME NEW c \in Call, Write(c)
      PROVE  \A i \in DOMAIN archive' :
               \/ archive'[i] \in Scrap
               \/ \E j \in DOMAIN archive : archive'[i] = archive[j]
               \/ \E j \in DOMAIN text[c] : archive'[i] = text[c][j]
  <2>1. PICK rest \in {<<>>} \cup Beyond : archive' = text[c] \o rest
    BY <1>3 DEF Write
  <2>2. /\ text[c] \in Seq(Line) /\ rest \in Seq(Line)
        /\ \A i \in DOMAIN rest :
             rest[i] \in Scrap \/ \E j \in DOMAIN archive : rest[i] = archive[j]
    <3>1. CASE rest = <<>>
      BY <3>1 DEF TypeOK
    <3>2. CASE rest \in Beyond
      BY <3>2, BeyondLines DEF TypeOK
    <3> QED
      BY <2>1, <3>1, <3>2
  <2>3. \A i \in DOMAIN (text[c] \o rest) :
          \/ \E j \in DOMAIN text[c] : (text[c] \o rest)[i] = text[c][j]
          \/ \E j \in DOMAIN rest : (text[c] \o rest)[i] = rest[j]
    BY <2>2, Joined
  <2> QED
    BY <2>1, <2>2, <2>3
<1>4. ASSUME NEW c \in Call, CutShort(c)
      PROVE  \A i \in DOMAIN archive' :
               \/ archive'[i] \in Scrap
               \/ \E j \in DOMAIN archive : archive'[i] = archive[j]
               \/ \E j \in DOMAIN text[c] : archive'[i] = text[c][j]
  BY <1>4, CutLines
<1>5. ASSUME NEW c \in Call, WriteArchive(c) \/ Die(c) PROVE pc'[c] # "start"
  BY <1>5 DEF WriteArchive, At, Die, TypeOK
<1>6. \/ archive' = archive \/ archive' = <<>>
      \/ \E c \in Call : /\ WriteArchive(c) \/ Die(c)
                         /\ AppendLine(c) \/ AppendPart(c)
      \/ \E c \in Call : Write(c) \/ CutShort(c)
  BY DEF Next, vars, file, WriteArchive, Send, Read, ReadRaises, GiveUp, Open,
         WriteFails, Die
<1> QED
  BY <1>1, <1>2, <1>3, <1>4, <1>5, <1>6

LEMMA OwnNext ==
    TypeOK /\ Progress /\ OwnInv /\ [Next]_vars => OwnInv'
<1> SUFFICES ASSUME TypeOK, Progress, OwnInv, [Next]_vars PROVE OwnInv'
  OBVIOUS
<1>1. /\ archive \in Seq(Line) /\ \A i \in DOMAIN archive : archive[i] \in Line
  BY Positions DEF TypeOK
<1>2. HonestLine \subseteq HonestLine'
  BY HonestStays
<1>3. \A x \in Scrap : x \in HonestLine'
  BY ScrapLines DEF HonestLine
<1>4. \A c \in Call : pc'[c] # "start" => New(c) \in HonestLine'
  BY NewLine DEF HonestLine
<1>5. \A i \in DOMAIN archive' : archive'[i] \in HonestLine'
  BY <1>2, <1>3, <1>4, FileLines DEF OwnInv
<1>6. CASE text' = text
  BY <1>2, <1>5, <1>6 DEF OwnInv
<1>7. ASSUME NEW c \in Call, Drop(c) PROVE OwnInv'
  <2>1. \A d \in Call : text'[d] = IF d = c THEN <<>> ELSE text[d]
    BY <1>7 DEF Drop, TypeOK
  <2>2. \A d \in Call : \A i \in DOMAIN text'[d] : text'[d][i] \in HonestLine'
    BY <1>2, <2>1 DEF OwnInv
  <2> QED
    BY <1>5, <2>2 DEF OwnInv
<1>8. ASSUME NEW c \in Call, Read(c) PROVE OwnInv'
  <2>1. archive' = archive /\ id' = id /\ mailed' = mailed /\ c \in mailed
    BY <1>8 DEF Read, At, Progress, file
  <2>2. \A i \in DOMAIN text'[c] : text'[c][i] \in HonestLine'
    <3>1. CASE Own(c) = {}
      BY <1>8, <3>1 DEF Read, TypeOK
    <3>2. CASE Own(c) # {}
      <4> DEFINE l == LastOf(Own(c))
                 t == [archive EXCEPT ![l].results = c]
      <4>1. l \in DOMAIN archive /\ id[archive[l].by] = id[c] /\ archive[l].by \in Call
        BY <3>2, OwnPositions
      <4>2. /\ DOMAIN t = DOMAIN archive
            /\ t \in Seq(Line)
            /\ \A i \in DOMAIN archive :
                 /\ t[i].by = archive[i].by
                 /\ t[i].results = IF i = l THEN c ELSE archive[i].results
        <5> HIDE DEF l
        <5> QED
          BY <1>1, <4>1, ResultsPutIn
      <4>3. text'[c] = t
        BY <1>8, <3>2 DEF Read, TypeOK
      <4> HIDE DEF l, t
      <4>4. \A i \in DOMAIN archive : t[i] \in Line
        BY <4>2, Positions
      <4>5. ASSUME NEW i \in DOMAIN archive PROVE t[i] \in HonestLine'
        <5>1. archive[i] \in HonestLine'
          BY <1>2 DEF OwnInv
        <5>2. CASE i = l
          BY <2>1, <4>1, <4>2, <4>4, <5>1, <5>2 DEF HonestLine
        <5>3. CASE i # l
          BY <2>1, <4>2, <4>4, <5>1, <5>3 DEF HonestLine
        <5> QED
          BY <5>2, <5>3
      <4> QED
        BY <4>2, <4>3, <4>5
    <3> QED
      BY <3>1, <3>2
  <2>3. \A d \in Call \ {c} : text'[d] = text[d]
    BY <1>8 DEF Read, TypeOK
  <2> QED
    BY <1>2, <2>1, <2>2, <2>3 DEF OwnInv
<1> QED
  BY <1>6, <1>7, <1>8
  DEF Next, vars, call, WriteArchive, Send, ReadRaises, GiveUp, Open, Write,
      WriteFails, Die

\* Whatever calls overlap and whatever fails or dies, no line shows the results of a
\* notification other than its own, or an equal one (update_archive_results,
\* core/notification.py).
THEOREM ResultsStayOwn == Spec => []ResultsAreItsOwn
<1>1. OwnInv => ResultsAreItsOwn
  BY DEF OwnInv, HonestLine, ResultsAreItsOwn
<1> QED
  BY <1>1, TypeInit, TypeNext, OwnInit, OwnNext, PTL DEF Spec
-----------------------------------------------------------------------------
(* Whole texts, whoever holds them: who gives the id of a call, wrote are the *)
(* calls whose line was written, and back those that returned and had asked   *)
(* for their results to be put in.                                            *)

Newest(s, who, i) ==
    \A j \in DOMAIN s :
        s[j].by \in Call /\ who[s[j].by] = who[s[i].by] => j <= i

\* The calls that wrote a line have it, and the newest one of an id has results
\* once the call that wrote it is back.
Whole(s, who, wrote, back) ==
    /\ \A c \in wrote : \E i \in DOMAIN s : {j \in DOMAIN s : s[j].by = c} = {i}
    /\ \A i \in DOMAIN s :
         s[i].by \in back /\ Newest(s, who, i) => s[i].results # "none"

\* The newest line of its id has the results of the call.
Told(s, who, c) ==
    \A i \in DOMAIN s :
        s[i].by \in Call /\ who[s[i].by] = who[c] /\ Newest(s, who, i)
            => s[i].results = c

LEMMA WholeWithNewLine ==
    ASSUME NEW s \in Seq(Line), NEW who, NEW wrote, NEW back \in SUBSET Call,
           Whole(s, who, wrote, back), NEW line \in Line, line.by \notin wrote,
           line.by \notin back, line.by \in Call => \A i \in DOMAIN s : s[i].by # line.by
    PROVE  /\ Whole(Append(s, line), who, wrote, back)
           /\ line.by \in Call =>
                Whole(Append(s, line), who, wrote \cup {line.by}, back)
<1> DEFINE t == Append(s, line)
           n == Len(s) + 1
<1>1. Len(s) \in Nat /\ DOMAIN s = 1..Len(s)
  BY Positions
<1>2. /\ DOMAIN t = 1..n /\ t[n] = line
      /\ \A i \in DOMAIN s : t[i] = s[i]
  BY OneMoreLine
<1> HIDE DEF t
<1>3. /\ DOMAIN t = DOMAIN s \cup {n} /\ n \notin DOMAIN s
      /\ \A i \in DOMAIN s : i < n
  BY <1>1, <1>2
<1>4. ASSUME NEW d \in wrote
      PROVE  \E i \in DOMAIN t : {j \in DOMAIN t : t[j].by = d} = {i}
  <2>1. PICK i \in DOMAIN s : {j \in DOMAIN s : s[j].by = d} = {i}
    BY DEF Whole
  <2>2. {j \in DOMAIN t : t[j].by = d} = {i}
    BY <1>2, <1>3, <2>1
  <2> QED
    BY <1>3, <2>1, <2>2
<1>5. line.by \in Call =>
        \E i \in DOMAIN t : {j \in DOMAIN t : t[j].by = line.by} = {i}
  <2>1. line.by \in Call => {j \in DOMAIN t : t[j].by = line.by} = {n}
    BY <1>2, <1>3
  <2> QED
    BY <1>3, <2>1
<1>6. ASSUME NEW i \in DOMAIN t, t[i].by \in back, Newest(t, who, i)
      PROVE  t[i].results # "none"
  <2>1. i \in DOMAIN s /\ t[i] = s[i]
    BY <1>2, <1>3, <1>6
  <2>2. Newest(s, who, i)
    BY <1>2, <1>3, <1>6, <2>1 DEF Newest
  <2> QED
    BY <1>6, <2>1, <2>2 DEF Whole
<1>7. Whole(t, who, wrote, back)
  BY <1>4, <1>6 DEF Whole
<1>8. line.by \in Call => Whole(t, who, wrote \cup {line.by}, back)
  BY <1>4, <1>5, <1>6 DEF Whole
<1> QED
  BY <1>7, <1>8 DEF t

LEMMA WholeWithResults ==
    ASSUME NEW s \in Seq(Line), NEW who, NEW wrote, NEW back,
           Whole(s, who, wrote, back), NEW c \in Call,
           NEW i \in DOMAIN s, s[i].by \in Call, who[s[i].by] = who[c],
           \A j \in DOMAIN s : s[j].by \in Call /\ who[s[j].by] = who[c] => j <= i
    PROVE  /\ Whole([s EXCEPT ![i].results = c], who, wrote, back)
           /\ Told([s EXCEPT ![i].results = c], who, c)
<1> DEFINE t == [s EXCEPT ![i].results = c]
<1>1. /\ DOMAIN t = DOMAIN s
      /\ \A j \in DOMAIN s :
           /\ t[j].by = s[j].by
           /\ t[j].results = IF j = i THEN c ELSE s[j].results
  BY ResultsPutIn
<1>2. c # "none" /\ DOMAIN s = 1..Len(s) /\ Len(s) \in Nat
  BY ArchiveConstants, Positions
<1> HIDE DEF t
<1>3. \A j \in DOMAIN s : Newest(t, who, j) <=> Newest(s, who, j)
  BY <1>1 DEF Newest
<1>4. ASSUME NEW d \in wrote
      PROVE  \E j \in DOMAIN t : {k \in DOMAIN t : t[k].by = d} = {j}
  <2>1. {k \in DOMAIN t : t[k].by = d} = {k \in DOMAIN s : s[k].by = d}
    BY <1>1
  <2> QED
    BY <1>1, <2>1 DEF Whole
<1>5. Whole(t, who, wrote, back)
  BY <1>1, <1>2, <1>3, <1>4 DEF Whole
<1>6. ASSUME NEW j \in DOMAIN s, s[j].by \in Call, who[s[j].by] = who[c],
             Newest(s, who, j)
      PROVE  j = i
  <2>1. i <= j /\ j <= i
    BY <1>6 DEF Newest
  <2> QED
    BY <1>2, <2>1
<1>7. Told(t, who, c)
  BY <1>1, <1>3, <1>6 DEF Told
<1> QED
  BY <1>5, <1>7 DEF t

LEMMA WholeWhenBack ==
    ASSUME NEW s \in Seq(Line), NEW who, NEW wrote, NEW back,
           Whole(s, who, wrote, back), NEW c \in Call,
           Told(s, who, c) \/ \A i \in DOMAIN s : s[i].by # c
    PROVE  Whole(s, who, wrote, back \cup {c})
<1>1. c # "none"
  BY ArchiveConstants
<1>2. ASSUME NEW i \in DOMAIN s, Newest(s, who, i), s[i].by \in back \cup {c}
      PROVE  s[i].results # "none"
  <2>1. CASE s[i].by = c
    BY <1>1, <1>2, <2>1 DEF Told
  <2>2. CASE s[i].by \in back
    BY <1>2, <2>2 DEF Whole
  <2> QED
    BY <1>2, <2>1, <2>2
<1> QED
  BY <1>2 DEF Whole

-----------------------------------------------------------------------------
(* Quiet days.  As long as no call touched the file while another rewrote it, *)
(* and no rewriting ended half way, one call at most rewrites it, and what it *)
(* has in hand is the file with its results put in.  So all lines are in the  *)
(* file, or, while it is empty, in the hand of that call.  A last line        *)
(* without its end may go to scrap, and the file is whole then, too.          *)

Back == {c \in selected : pc[c] = "done"}
Good(s) == Whole(s, id, appended, Back)

GoodFile ==
    /\ Good(archive)
    /\ Unfinished => \A x \in Scrap : Good(Scrapped(archive, x))

QuietInv ==
    ~raced /\ ~cut =>
        /\ \A c, d \in Rewriting : c = d
        /\ (\A c \in Call : pc[c] # "write") => GoodFile
        /\ \A c \in Call :
            /\ pc[c] = "open" =>
                /\ Own(c) # {}
                /\ text[c] = [archive EXCEPT ![LastOf(Own(c))].results = c]
            /\ pc[c] = "write" =>
                archive = <<>> /\ Good(text[c]) /\ Told(text[c], id, c)

LEMMA QuietInit == Init => QuietInv
BY DEF Init, QuietInv, Rewriting, Whole, Good, GoodFile, Unfinished

\* A line, or a part of it, that comes to the end of a good file.
LEMMA GoodAfterAppend ==
    ASSUME TypeOK, Progress, OwnInv, GoodFile, NEW c \in Call, pc[c] = "start",
           AppendLine(c) \/ AppendPart(c), Back' = Back, id' = id
    PROVE  GoodFile'
<1>1. /\ archive \in Seq(Line) /\ appended \subseteq Call /\ Back \subseteq Call
      /\ c \notin appended /\ c \notin Back
  BY DEF TypeOK, Progress, Back
<1>2. PICK line \in {New(c)} \cup Scrap : archive' = Landed(line)
  BY DEF AppendLine, AppendPart, Scrap
<1>3. /\ line \in Line /\ line.by \notin appended /\ line.by \notin Back
      /\ line.by \in Call => \A i \in DOMAIN archive : archive[i].by # line.by
  <2>1. \A i \in DOMAIN archive : archive[i].by # c
    BY DEF OwnInv, HonestLine
  <2> QED
    BY <1>1, <2>1, NewLine, ScrapLines
<1>4. CASE Unfinished
  <2>1. PICK x \in Scrap : archive' = Scrapped(archive, x)
    BY <1>2, <1>3, <1>4, LandedLines
  <2>2. appended' = appended
    BY <1>4 DEF AppendLine, AppendPart
  <2>3. Good(archive)'
    BY <1>4, <2>1, <2>2 DEF GoodFile, Good
  <2>4. \A y \in Scrap : Scrapped(archive', y) = Scrapped(archive, y)
    <3>1. archive # <<>>
      BY <1>4 DEF Unfinished
    <3>2. Len(archive') = Len(archive) /\ Len(archive) \in DOMAIN archive
      BY <1>1, <2>1, <3>1, ScrappedLines
    <3> QED
      BY <2>1, <3>2 DEF Scrapped
  <2> QED
    BY <1>4, <2>2, <2>3, <2>4 DEF GoodFile, Good
<1>5. CASE ~Unfinished
  <2>1. archive' = Append(archive, line)
    BY <1>2, <1>3, <1>5, LandedLines
  <2>2. \/ appended' = appended
        \/ /\ line.by \in Call /\ appended' = appended \cup {line.by}
           /\ ended' = TRUE
    <3>1. CASE appended' = appended
      BY <3>1
    <3>2. CASE appended' # appended
      <4>1. /\ archive' = Landed(New(c)) /\ appended' = appended \cup {c}
            /\ ended' = TRUE
        BY <1>5, <3>2 DEF AppendLine, AppendPart
      <4>2. archive' = Append(archive, New(c))
        BY <1>5, <4>1 DEF Landed
      <4>3. line = New(c)
        <5>1. Append(archive, line)[Len(archive) + 1] = line
          BY <1>1, <1>3, OneMoreLine
        <5>2. Append(archive, New(c))[Len(archive) + 1] = New(c)
          BY <1>1, NewLine, OneMoreLine
        <5> QED
          BY <2>1, <4>2, <5>1, <5>2
      <4> QED
        BY <4>1, <4>3, NewLine
    <3> QED
      BY <3>1, <3>2
  <2>3. Whole(archive, id, appended, Back)
    BY DEF GoodFile, Good
  <2>4. /\ Whole(Append(archive, line), id, appended, Back)
        /\ line.by \in Call =>
             Whole(Append(archive, line), id, appended \cup {line.by}, Back)
    BY <1>1, <1>3, <2>3, WholeWithNewLine
  <2>5. Good(archive)'
    BY <2>1, <2>2, <2>4 DEF Good
  <2>6. ASSUME Unfinished', NEW x \in Scrap PROVE Good(Scrapped(archive, x))'
    <3>1. appended' = appended
      BY <2>2, <2>6, Zenon DEF Unfinished
    <3>2. Whole(Append(archive, x), id, appended, Back)
      BY <1>1, <2>3, ScrapLines, WholeWithNewLine
    <3>3. Scrapped(archive', x) = Append(archive, x)
      <4>1. /\ Append(archive, line) \in Seq(Line)
            /\ Len(Append(archive, line)) = Len(archive) + 1
            /\ DOMAIN Append(archive, line) = 1..(Len(archive) + 1)
            /\ \A i \in DOMAIN archive : Append(archive, line)[i] = archive[i]
        BY <1>1, <1>3, OneMoreLine
      <4>2. /\ Append(archive, x) \in Seq(Line)
            /\ DOMAIN Append(archive, x) = 1..(Len(archive) + 1)
            /\ \A i \in DOMAIN archive : Append(archive, x)[i] = archive[i]
            /\ Append(archive, x)[Len(archive) + 1] = x
        BY <1>1, ScrapLines, OneMoreLine
      <4>3. \A i \in 1..(Len(archive) + 1) :
              (i \in DOMAIN archive /\ i # Len(archive) + 1) \/ i = Len(archive) + 1
        BY <1>1, Positions
      <4>4. archive' # <<>>
        BY <2>6 DEF Unfinished
      <4>5. /\ Scrapped(archive', x) \in Seq(Line)
            /\ DOMAIN Scrapped(archive', x) = 1..(Len(archive) + 1)
            /\ \A i \in 1..(Len(archive) + 1) :
                 Scrapped(archive', x)[i] =
                   IF i = Len(archive) + 1 THEN x ELSE archive'[i]
        <5>1. /\ archive' \in Seq(Line) /\ Len(archive') = Len(archive) + 1
              /\ DOMAIN archive' = 1..(Len(archive) + 1)
          BY <2>1, <4>1
        <5>2. /\ Scrapped(archive', x) \in Seq(Line)
              /\ DOMAIN Scrapped(archive', x) = DOMAIN archive'
              /\ \A i \in DOMAIN archive' :
                   Scrapped(archive', x)[i] =
                     IF i = Len(archive') THEN x ELSE archive'[i]
          BY <4>4, <5>1, ScrappedLines
        <5> QED
          BY <5>1, <5>2
      <4>6. \A i \in 1..(Len(archive) + 1) :
              Scrapped(archive', x)[i] = Append(archive, x)[i]
        BY <2>1, <4>1, <4>2, <4>3, <4>5
      <4>7. Len(Scrapped(archive', x)) = Len(Append(archive, x))
        BY <4>2, <4>5, <1>1, LenProperties
      <4> QED
        BY <4>2, <4>5, <4>6, <4>7, SeqEqual
    <3> QED
      BY <3>1, <3>2, <3>3 DEF Good
  <2> QED
    BY <2>5, <2>6 DEF GoodFile
<1> QED
  BY <1>4, <1>5

LEMMA QuietNext ==
    TypeOK /\ Progress /\ OwnInv /\ QuietInv /\ [Next]_vars => QuietInv'
<1> SUFFICES ASSUME TypeOK, Progress, OwnInv, QuietInv, [Next]_vars,
                    ~raced', ~cut'
             PROVE  QuietInv'
  BY DEF QuietInv
<1> USE DEF Rewriting
<1>1. id' = id /\ selected' = selected /\ archive \in Seq(Line)
      /\ \A c \in Call : text[c] \in Seq(Line)
  BY DEF TypeOK, Next, vars, call, WriteArchive, Send, Read, ReadRaises, GiveUp,
         Open, Write, WriteFails, Die
<1>2. CASE UNCHANGED vars
  BY <1>2, ZenonT(30) DEF vars, file, call, QuietInv, GoodFile, Good, Unfinished, Back, Own
\* A step of a call that is nowhere near the file, and leaves it alone.
<1>a. ASSUME NEW c \in Call, NEW next \in PC \ {"open", "write"},
             pc' = [pc EXCEPT ![c] = next], pc[c] # "write",
             Back' = Back, \A d \in Call \ {c} : text'[d] = text[d],
             UNCHANGED <<file, appended, raced, cut>>
      PROVE  QuietInv'
  <2>1. \A d \in Call : \/ d # c /\ pc'[d] = pc[d]
                        \/ pc'[d] \notin {"open", "write"} /\ pc[d] # "write"
    BY <1>a DEF TypeOK
  <2>2. \A d \in Call : Own(d)' = Own(d)
    BY <1>1, <1>a DEF Own, file
  <2>3. GoodFile => GoodFile'
    BY <1>1, <1>a DEF GoodFile, Good, Unfinished, file
  <2>4. \A d \in Call : Good(text[d])' <=> Good(text'[d])
    BY <1>1, <1>a DEF Good
  <2> QED
    BY <1>1, <1>a, <2>1, <2>2, <2>3, <2>4 DEF QuietInv, Good, file
\* A line comes to the end of the file.
<1>b. ASSUME NEW c \in Call, NEW next \in PC \ {"open", "write"},
             pc' = [pc EXCEPT ![c] = next], pc[c] = "start", next # "done",
             AppendLine(c) \/ AppendPart(c), cut' = cut
      PROVE  QuietInv'
  <2>1. Rewriting' = Rewriting /\ Back' = Back /\ c \notin Rewriting
    BY <1>1, <1>b DEF Back, TypeOK
  <2>2. ~raced /\ ~cut /\ Rewriting = {}
    BY <1>b, <2>1 DEF AppendLine, AppendPart, Touch
  <2>3. GoodFile
    BY <2>2 DEF QuietInv
  <2>4. GoodFile'
    BY <1>1, <1>b, <2>1, <2>3, GoodAfterAppend
  <2> QED
    BY <2>1, <2>2, <2>4 DEF QuietInv
<1>3. ASSUME NEW c \in Call, WriteArchive(c) PROVE QuietInv'
  <2>1. /\ pc[c] = "start" /\ pc' = [pc EXCEPT ![c] = "send"] /\ cut' = cut
        /\ text' = text
    BY <1>3 DEF WriteArchive, At
  <2>2. "send" \in PC \ {"open", "write"} /\ Back' = Back
    BY <1>1, <2>1 DEF PC, Back, TypeOK
  <2>3. \/ AppendLine(c) \/ AppendPart(c)
        \/ UNCHANGED <<file, appended, raced>>
    BY <1>3 DEF WriteArchive
  <2> QED
    BY <1>a, <1>b, <2>1, <2>2, <2>3
<1>4. ASSUME NEW c \in Call, Send(c) PROVE QuietInv'
  <2> DEFINE next == IF c \in selected THEN "read" ELSE "done"
  <2>1. /\ pc[c] = "send" /\ pc' = [pc EXCEPT ![c] = next]
        /\ UNCHANGED <<file, text, appended, raced, cut>>
    BY <1>4 DEF Send, At
  <2>2. next \in PC \ {"open", "write"} /\ Back' = Back
    BY <1>1, <2>1 DEF PC, Back, TypeOK
  <2> QED
    BY <1>a, <2>1, <2>2
<1>5. ASSUME NEW c \in Call, Read(c) PROVE QuietInv'
  <2>1. /\ pc[c] = "read" /\ Touch(c) /\ c \in selected
        /\ pc' = [pc EXCEPT ![c] = IF Own(c) = {} THEN "done" ELSE "open"]
        /\ UNCHANGED <<file, selected, appended, cut>>
    BY <1>5 DEF Read, At, Progress
  <2>2. ~raced /\ ~cut /\ Rewriting = {}
    BY <2>1 DEF Touch
  <2>3. GoodFile
    BY <2>2 DEF QuietInv
  <2>4. \A d \in Call : Own(d)' = Own(d)
    BY <1>1, <2>1 DEF Own, file
  <2>5. \A d \in Call \ {c} : pc'[d] = pc[d] /\ pc[d] \notin {"open", "write"}
    BY <2>1, <2>2 DEF TypeOK
  <2>6. CASE Own(c) = {}
    <3>1. pc'[c] = "done" /\ Back' = Back \cup {c}
      BY <2>1, <2>6 DEF Back, TypeOK
    <3>2. \A i \in DOMAIN archive : archive[i].by # c
      BY <1>1, <2>6, Positions DEF Own
    <3>3. Whole(archive, id, appended, Back \cup {c})
      BY <1>1, <2>3, <3>2, WholeWhenBack DEF GoodFile, Good
    <3>4. ASSUME Unfinished, NEW x \in Scrap
          PROVE  Whole(Scrapped(archive, x), id, appended, Back \cup {c})
      <4>1. archive # <<>>
        BY <3>4 DEF Unfinished
      <4>2. /\ Scrapped(archive, x) \in Seq(Line)
            /\ \A i \in DOMAIN Scrapped(archive, x) : Scrapped(archive, x)[i].by # c
        BY <1>1, <3>2, <4>1, ScrappedLines, ScrapLines
      <4>3. Whole(Scrapped(archive, x), id, appended, Back)
        BY <2>3, <3>4 DEF GoodFile, Good
      <4> QED
        BY <4>2, <4>3, WholeWhenBack
    <3>5. GoodFile'
      BY <1>1, <2>1, <3>1, <3>3, <3>4 DEF GoodFile, Good, Unfinished, file
    <3> QED
      BY <2>5, <3>1, <3>5 DEF QuietInv
  <2>7. CASE Own(c) # {}
    <3>1. pc'[c] = "open" /\ Back' = Back
      BY <2>1, <2>7 DEF Back, TypeOK
    <3>2. text'[c] = [archive EXCEPT ![LastOf(Own(c))].results = c]
      BY <1>5, <2>7 DEF Read, TypeOK
    <3>3. GoodFile'
      BY <1>1, <2>1, <2>3, <3>1 DEF GoodFile, Good, Unfinished, file
    <3> QED
      BY <2>1, <2>4, <2>5, <2>7, <3>1, <3>2, <3>3 DEF QuietInv, file
  <2> QED
    BY <2>6, <2>7
<1>6. ASSUME NEW c \in Call, ReadRaises(c) \/ GiveUp(c) PROVE QuietInv'
  <2>1. PICK next \in {"gave_up", "raised"} :
          /\ pc[c] \in {"read", "open"} /\ pc' = [pc EXCEPT ![c] = next]
          /\ UNCHANGED <<file, appended, raced, cut>>
          /\ text' = text \/ Drop(c)
    BY <1>6 DEF ReadRaises, GiveUp, At
  <2>2. next \in PC \ {"open", "write"} /\ Back' = Back
    BY <1>1, <2>1 DEF PC, Back, TypeOK
  <2>3. \A d \in Call \ {c} : text'[d] = text[d]
    BY <2>1 DEF Drop, TypeOK
  <2> QED
    BY <1>a, <2>1, <2>2, <2>3
<1>7. ASSUME NEW c \in Call, Open(c) PROVE QuietInv'
  <2>1. /\ pc[c] = "open" /\ Touch(c) /\ pc' = [pc EXCEPT ![c] = "write"]
        /\ archive' = <<>> /\ UNCHANGED <<text, appended, cut>>
    BY <1>7 DEF Open, At
  <2>2. ~raced /\ ~cut /\ Rewriting = {c}
    BY <2>1 DEF Touch
  <2>3. \A d \in Call : pc[d] # "write"
    BY <2>1, <2>2
  <2>4. Good(archive) /\ Own(c) # {}
        /\ text[c] = [archive EXCEPT ![LastOf(Own(c))].results = c]
    BY <2>1, <2>2, <2>3 DEF QuietInv, GoodFile
  <2> DEFINE l == LastOf(Own(c))
  <2>5. /\ l \in DOMAIN archive /\ archive[l].by \in Call
        /\ id[archive[l].by] = id[c]
        /\ \A j \in DOMAIN archive :
             archive[j].by \in Call /\ id[archive[j].by] = id[c] => j <= l
    <3>1. \A j \in DOMAIN archive :
            archive[j].by \in Call /\ id[archive[j].by] = id[c] => j \in Own(c)
      BY <1>1, Positions DEF Own
    <3> QED
      BY <2>4, <3>1, OwnPositions
  <2>6. text[c] = [archive EXCEPT ![l].results = c]
    BY <2>4
  <2> HIDE DEF l
  <2>7. Good(text[c]) /\ Told(text[c], id, c)
    BY <1>1, <2>4, <2>5, <2>6, WholeWithResults DEF Good
  <2>8. Rewriting' = {c} /\ Back' = Back /\ pc'[c] = "write"
    BY <1>1, <2>1, <2>2 DEF Back, TypeOK
  <2>9. Good(text[c])'
    BY <1>1, <2>1, <2>7, <2>8 DEF Good
  <2> QED
    BY <1>1, <2>1, <2>7, <2>8, <2>9 DEF QuietInv
<1>8. ASSUME NEW c \in Call, Write(c) PROVE QuietInv'
  <2>1. /\ pc[c] = "write" /\ Touch(c) /\ pc' = [pc EXCEPT ![c] = "done"]
        /\ UNCHANGED <<appended, cut>>
    BY <1>8 DEF Write, At
  <2>2. ~raced /\ ~cut /\ Rewriting = {c} /\ c \in selected
    BY <2>1 DEF Touch, TypeOK
  <2>3. archive = <<>> /\ Good(text[c]) /\ Told(text[c], id, c)
    BY <2>1, <2>2 DEF QuietInv
  <2>4. archive' = text[c] /\ ~Unfinished'
    <3>1. archive' = text[c] \o <<>> /\ ended'
      BY <1>8, <2>3 DEF Write
    <3>2. text[c] \in Seq(Line)
      BY <1>1
    <3> QED
      BY <3>1, <3>2, ConcatEmptySeq DEF Unfinished
  <2>5. Back' = Back \cup {c} /\ Rewriting' = {}
    BY <1>1, <2>1, <2>2 DEF Back, TypeOK
  <2>6. Whole(text[c], id, appended, Back \cup {c})
    BY <1>1, <2>3, WholeWhenBack DEF Good
  <2>7. GoodFile'
    BY <1>1, <2>1, <2>4, <2>5, <2>6 DEF GoodFile, Good
  <2> QED
    BY <2>5, <2>7 DEF QuietInv
<1>9. ASSUME NEW c \in Call, WriteFails(c) PROVE QuietInv'
  BY <1>9 DEF WriteFails, CutShort
<1>10. ASSUME NEW c \in Call, Die(c) PROVE QuietInv'
  <2>1. /\ pc[c] \notin {"done", "write"} /\ pc' = [pc EXCEPT ![c] = "dead"]
        /\ cut' = cut /\ Drop(c)
        /\ \/ pc[c] = "start" /\ AppendPart(c)
           \/ UNCHANGED <<file, appended, raced>>
    BY <1>10 DEF Die, CutShort, Over
  <2>2. "dead" \in PC \ {"open", "write"} /\ Back' = Back
    BY <1>1, <2>1 DEF PC, Back, TypeOK
  <2>3. \A d \in Call \ {c} : text'[d] = text[d]
    BY <2>1 DEF Drop, TypeOK
  <2> QED
    BY <1>a, <1>b, <2>1, <2>2, <2>3
<1> QED
  BY <1>2, <1>3, <1>4, <1>5, <1>6, <1>7, <1>8, <1>9, <1>10 DEF Next

\* On a day on which no call touches the file while another rewrites it, and no
\* rewriting ends half way, every notification that was written whole, on a line
\* of its own, has its line, once, whatever else failed or died and however many
\* lines are torn; and the results of the calls that returned and did not give
\* up are where they belong (write_archive and update_archive_results,
\* core/notification.py:89-115).
THEOREM QuietArchive == Spec => []QuietArchiveIsWhole
<1>1. ASSUME TypeOK, OwnInv, QuietInv PROVE QuietArchiveIsWhole
  <2> SUFFICES ASSUME ~raced, ~cut, \A c \in Call : pc[c] # "write"
               PROVE  LinesSurvive /\ ResultsReachTheLine
    BY DEF QuietArchiveIsWhole
  <2>1. Whole(archive, id, appended, Back)
    BY <1>1 DEF QuietInv, GoodFile, Good
  <2>2. LinesSurvive
    BY <2>1 DEF Whole, LinesSurvive, LinesOf
  <2>3. ASSUME NEW c \in appended \cap selected,
               \A d \in {e \in Call : id[e] = id[c]} :
                 d \in selected /\ pc[d] = "done"
        PROVE  archive[LastOf(Own(c))].results \in {e \in Call : id[e] = id[c]}
    <3> DEFINE l == LastOf(Own(c))
               author == archive[l].by
    <3>1. c \in Call /\ archive \in Seq(Line)
      BY <1>1 DEF TypeOK
    <3>a. \A j \in DOMAIN archive :
            archive[j].by \in Call /\ id[archive[j].by] = id[c] => j \in Own(c)
      BY <3>1, Positions DEF Own
    <3>2. Own(c) # {}
      BY <2>2, <3>1, <3>a DEF LinesSurvive, LinesOf
    <3>3. /\ l \in DOMAIN archive /\ author \in Call /\ id[author] = id[c]
          /\ \A j \in DOMAIN archive :
               archive[j].by \in Call /\ id[archive[j].by] = id[c] => j <= l
      BY <1>1, <3>1, <3>2, <3>a, OwnPositions
    <3>4. archive[l].results \in Call \cup {"none"}
      BY <3>1, <3>3, Positions
    <3> HIDE DEF l
    <3>5. author \in Back /\ Newest(archive, id, l)
      BY <2>3, <3>3, <3>4 DEF Back, Newest
    <3>6. archive[l].results # "none"
      BY <2>1, <3>3, <3>5 DEF Whole
    <3>7. id[archive[l].results] = id[author]
      BY <1>1, <3>3, <3>6 DEF OwnInv, HonestLine
    <3> QED
      BY <3>3, <3>4, <3>6, <3>7 DEF l
  <2>4. ResultsReachTheLine
    BY <2>3 DEF ResultsReachTheLine
  <2> QED
    BY <2>2, <2>4
<1> QED
  BY <1>1, TypeInit, TypeNext, OwnInit, OwnNext, QuietInit, QuietNext,
     PTL DEF Spec
=============================================================================
