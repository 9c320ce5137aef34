------------------------- MODULE RuntimeStateProofs -------------------------
(* What AtomicFile promises for any writers, payloads and inodes, and, on top *)
(* of it, what RuntimeState promises for any requests and any number of marks.*)
EXTENDS RuntimeState, TLAPS

-----------------------------------------------------------------------------
(* Types.  An inode is new only if there is one that nothing names, which    *)
(* Open checks, so no fact about the number of inodes is needed.             *)

LEMMA NewInodes ==
    ASSUME NEW name \in Inode \cup {None}, Free # {}, NEW i \in New(name)
    PROVE  i \in Inode /\ (name # None => i = name) /\ (name = None => i \in Free)
<1> DEFINE c == CHOOSE j \in Inode : j \in Free
<1>1. \E j \in Inode : j \in Free
  BY DEF Free
<1>2. c \in Inode /\ c \in Free
  BY <1>1
<1> QED
  BY <1>2 DEF New

LEMMA TypeInit == Init => TypeOK
BY FileConstants DEF Init, TypeOK, PC, Text

LEMMA TypeNext == TypeOK /\ [Next]_vars => TypeOK'
<1> SUFFICES ASSUME TypeOK, [Next]_vars PROVE TypeOK'
  OBVIOUS
<1> USE FileConstants DEF TypeOK, PC, Text
<1>1. CASE UNCHANGED vars
  BY <1>1 DEF vars, file, writer
<1>2. ASSUME NEW w \in Writer, Call(w) PROVE TypeOK'
  BY <1>2 DEF Call, Idle, file
<1>3. ASSUME NEW w \in Writer, Open(w) PROVE TypeOK'
  <2>1. PICK i \in New(tmp) :
          /\ tmp' = i /\ fd' = [fd EXCEPT ![w] = i]
          /\ content' = [content EXCEPT ![i] = Torn]
    BY <1>3 DEF Open
  <2>2. i \in Inode
    BY <1>3, NewInodes DEF Open
  <2> QED
    BY <1>3, <2>1, <2>2 DEF Open
<1>4. ASSUME NEW w \in Writer, Write(w) PROVE TypeOK'
  <2>1. PICK c \in Left(w) : content' = [content EXCEPT ![fd[w]] = c]
    BY <1>4 DEF Write
  <2>2. c \in Text
    BY DEF Left
  <2> QED
    BY <1>4, <2>1, <2>2 DEF Write
<1>5. ASSUME NEW w \in Writer, Replace(w) PROVE TypeOK'
  BY <1>5 DEF Replace, Return
<1>6. ASSUME NEW w \in Writer, Die(w) PROVE TypeOK'
  BY <1>6 DEF Die, Return, Idle, file
<1> QED
  BY <1>1, <1>2, <1>3, <1>4, <1>5, <1>6 DEF Next, Step

\* Names, inodes and open files are always the ones of files (AtomicFile's
\* write_json_atomic leaves no file open).
THEOREM FileTypeCorrect == Spec => []TypeOK
BY TypeInit, TypeNext, PTL DEF Spec

-----------------------------------------------------------------------------
(* Calls that do not overlap.  The inode under the file's own name is whole   *)
(* and is not the one under the temporary name; the writer that is under way, *)
(* if any, is the only one, holds the temporary file open while it writes,    *)
(* and finds its text there when it renames.                                  *)

OneWriter == \A w, x \in Writer : ~Idle(w) /\ ~Idle(x) => w = x

SerialInv ==
    ~overlapped =>
        /\ OneWriter
        /\ pub # None => content[pub] \in Payload /\ pub # tmp
        /\ \A w \in Writer :
             /\ pc[w] = "write" => fd[w] = tmp /\ content[tmp] = Torn
             /\ pc[w] = "replace" => tmp # None /\ content[tmp] = val[w]
             /\ answer[w] # "error"
             /\ ~Idle(w) => answer[w] = "none"

LEMMA SerialInit == Init => SerialInv
BY DEF Init, SerialInv, OneWriter, Idle

LEMMA SerialNext == TypeOK /\ SerialInv /\ [Next]_vars => SerialInv'
<1> SUFFICES ASSUME TypeOK, SerialInv, [Next]_vars, ~overlapped'
             PROVE  SerialInv'
  BY DEF SerialInv
<1> USE FileConstants DEF TypeOK, SerialInv, OneWriter, Idle
<1>1. CASE UNCHANGED vars
  BY <1>1 DEF vars, file, writer
<1>2. ASSUME NEW w \in Writer, Call(w) PROVE SerialInv'
  BY <1>2 DEF Call, file
<1>3. ASSUME NEW w \in Writer, Open(w) PROVE SerialInv'
  <2>1. PICK i \in New(tmp) :
          /\ tmp' = i /\ fd' = [fd EXCEPT ![w] = i]
          /\ content' = [content EXCEPT ![i] = Torn]
    BY <1>3 DEF Open
  <2>2. /\ i \in Inode /\ (tmp # None => i = tmp)
        /\ tmp = None => i \in Free
    BY <1>3, NewInodes DEF Open
  <2>3. ~overlapped /\ i # pub
    BY <1>3, <2>2 DEF Open, Free
  <2> QED
    BY <1>3, <2>1, <2>2, <2>3 DEF Open
<1>4. ASSUME NEW w \in Writer, Write(w) PROVE SerialInv'
  <2>1. ~overlapped /\ fd[w] = tmp /\ content[tmp] = Torn /\ tmp \in Inode
    BY <1>4 DEF Write
  <2>2. \A x \in Writer \ {w} : fd[x] = None
    BY <1>4, <2>1 DEF Write
  <2>3. content' = [content EXCEPT ![tmp] = val[w]]
    BY <1>4, <2>1, <2>2 DEF Write, Left
  <2> QED
    BY <1>4, <2>1, <2>3 DEF Write
<1>5. ASSUME NEW w \in Writer, Replace(w) PROVE SerialInv'
  BY <1>5 DEF Replace, Return
<1>6. ASSUME NEW w \in Writer, Die(w) PROVE SerialInv'
  BY <1>6 DEF Die, Return, file
<1> QED
  BY <1>1, <1>2, <1>3, <1>4, <1>5, <1>6 DEF Next, Step

LEMMA SerialInvariant == Spec => [](TypeOK /\ SerialInv)
BY TypeInit, TypeNext, SerialInit, SerialNext, PTL DEF Spec

-----------------------------------------------------------------------------
\* While calls do not overlap, the file is written atomically: readers see one
\* payload after another, each of a call that is answered by that very step,
\* whatever writers die on the way (write_json_atomic,
\* core/data_pipeline.py:91).
THEOREM SerialAtomicity == Spec => SerialWritesAreAtomic
<1> DEFINE Atomic ==
      ~overlapped' =>
         \A w \in Writer :
           /\ answer'[w] # "error"
           /\ answer'[w] = "ok" /\ answer[w] # "ok" => Reading' = val[w]
           /\ Reading' # Reading =>
                \E x \in Writer : answer[x] # "ok" /\ answer'[x] = "ok"
<1>1. ASSUME TypeOK, SerialInv, [Next]_vars PROVE [Atomic]_vars
  <2> SUFFICES ASSUME Next, ~overlapped', NEW w \in Writer
               PROVE  /\ answer'[w] # "error"
                      /\ answer'[w] = "ok" /\ answer[w] # "ok" => Reading' = val[w]
                      /\ Reading' # Reading =>
                           \E x \in Writer : answer[x] # "ok" /\ answer'[x] = "ok"
    BY <1>1
  <2> USE <1>1, FileConstants DEF TypeOK, SerialInv, OneWriter, Idle, Reading
  <2> PICK x \in Writer : Step(x)
    BY DEF Next
  <2>1. CASE Call(x)
    BY <2>1 DEF Call, file
  <2>2. CASE Open(x)
    <3>1. PICK i \in New(tmp) :
            /\ tmp' = i /\ fd' = [fd EXCEPT ![x] = i]
            /\ content' = [content EXCEPT ![i] = Torn]
      BY <2>2 DEF Open
    <3>2. i \in Inode /\ i # pub
      BY <2>2, <3>1, NewInodes DEF Open, Free
    <3> QED
      BY <2>2, <3>1, <3>2 DEF Open
  <2>3. CASE Write(x)
    BY <2>3 DEF Write
  <2>4. CASE Replace(x)
    <3>1. /\ answer[x] = "none" /\ tmp # None /\ content[tmp] = val[x]
          /\ ~overlapped
      BY <2>4 DEF Replace
    <3>2. /\ pub' = tmp /\ content' = content
          /\ answer' = [answer EXCEPT ![x] = "ok"]
      BY <2>4, <3>1 DEF Replace, Return
    <3>3. Reading' = val[x] /\ answer'[x] = "ok"
      BY <3>1, <3>2
    <3> QED
      BY <3>1, <3>2, <3>3
  <2>5. CASE Die(x)
    BY <2>5 DEF Die, Return, file
  <2> QED
    BY <2>1, <2>2, <2>3, <2>4, <2>5 DEF Step
<1> QED
  BY <1>1, SerialInvariant, PTL DEF Spec, SerialWritesAreAtomic

-----------------------------------------------------------------------------
(* Calls that overlap.  A writer between opening and renaming needs the       *)
(* temporary name to be there.  When there are more of them than names to     *)
(* rename, one of them will fail, and nothing but a failure, or a death, ends *)
(* that; when there are not, the only one is alone with its text.             *)

Past == {w \in Writer : pc[w] \in {"write", "replace"}}

Contended ==
    \/ tmp = None /\ Past # {}
    \/ \E w, x \in Past : w # x

Alone(w) ==
    /\ pc[w] = "write" => fd[w] = tmp /\ content[tmp] = Torn
    /\ pc[w] = "replace" => content[tmp] = val[w]

AnnounceInv ==
    /\ pub = None \/ pub # tmp
    /\ ~torn =>
        /\ tmp # None => Past # {}
        /\ ~Contended => \A w \in Past : Alone(w)
        /\ BrokenIsAnnounced

LEMMA AnnounceInit == Init => AnnounceInv
BY DEF Init, AnnounceInv, Past, Contended, BrokenIsAnnounced, PublishedIsWhole,
       Reading

LEMMA WriteAlone ==
    ASSUME TypeOK, NEW w \in Writer, Write(w), Past = {w}, Alone(w)
    PROVE  content' = [content EXCEPT ![tmp] = val[w]]
<1>1. fd[w] = tmp /\ content[tmp] = Torn /\ fd[w] # None
  BY DEF Write, Alone, TypeOK
<1>2. \A x \in Writer \ {w} : fd[x] = None
  BY DEF TypeOK, Past
<1> QED
  BY <1>1, <1>2 DEF Write, Left

LEMMA AnnounceNext == TypeOK /\ AnnounceInv /\ [Next]_vars => AnnounceInv'
<1> SUFFICES ASSUME TypeOK, AnnounceInv, [Next]_vars PROVE AnnounceInv'
  OBVIOUS
<1> USE FileConstants
<1>1. CASE UNCHANGED vars
  BY <1>1 DEF vars, file, writer, AnnounceInv, Past, Contended, Alone,
              BrokenIsAnnounced, PublishedIsWhole, Reading, Idle
<1>2. ASSUME NEW w \in Writer, Call(w) PROVE AnnounceInv'
  <2>1. /\ UNCHANGED <<pub, tmp, content, fd, torn>>
        /\ pc' = [pc EXCEPT ![w] = "open"] /\ pc[w] = "idle"
        /\ \A x \in Writer \ {w} : val'[x] = val[x]
    BY <1>2 DEF Call, file, Idle, TypeOK
  <2>2. Past' = Past /\ ~Idle(w)' /\ Contended' = Contended /\ w \notin Past
    BY <2>1 DEF Past, Idle, TypeOK, Contended
  <2>3. \A x \in Past : Alone(x) => Alone(x)'
    BY <2>1, <2>2 DEF Alone, TypeOK, Past
  <2> QED
    BY <2>1, <2>2, <2>3 DEF AnnounceInv, BrokenIsAnnounced
<1>3. ASSUME NEW w \in Writer, Open(w) PROVE AnnounceInv'
  <2>1. PICK i \in New(tmp) :
          /\ tmp' = i /\ fd' = [fd EXCEPT ![w] = i]
          /\ content' = [content EXCEPT ![i] = Torn]
    BY <1>3 DEF Open
  <2>2. i \in Inode /\ (tmp # None => i = tmp) /\ (tmp = None => i \in Free)
    BY <1>3, NewInodes DEF Open, TypeOK
  <2>3. pub = None \/ i # pub
    BY <2>2 DEF Free, AnnounceInv
  <2>4. pc' = [pc EXCEPT ![w] = "write"] /\ UNCHANGED <<pub, val, torn>>
    BY <1>3 DEF Open
  <2>5. Past' = Past \cup {w} /\ w \notin Past /\ ~Idle(w)'
    BY <1>3, <2>4 DEF Open, Past, Idle, TypeOK
  <2>6. fd'[w] = tmp' /\ content'[tmp'] = Torn /\ pc'[w] = "write"
    BY <2>1, <2>2, <2>4 DEF TypeOK
  <2>7. ASSUME ~torn, ~Contended' PROVE \A x \in Past' : Alone(x)'
    <3>1. Past' = {w}
      BY <2>5, <2>7 DEF Contended
    <3> QED
      BY <3>1, <2>6 DEF Alone
  <2> QED
    BY <2>1, <2>3, <2>4, <2>5, <2>7 DEF AnnounceInv, BrokenIsAnnounced
<1>4. ASSUME NEW w \in Writer, Write(w) PROVE AnnounceInv'
  <2>1. /\ pc' = [pc EXCEPT ![w] = "replace"] /\ pc[w] = "write"
        /\ UNCHANGED <<pub, tmp, val, torn>>
    BY <1>4 DEF Write
  <2>2. Past' = Past /\ w \in Past /\ ~Idle(w)' /\ Contended' = Contended
    BY <2>1 DEF Past, Idle, TypeOK, Contended
  <2>3. ASSUME ~torn, ~Contended PROVE \A x \in Past' : Alone(x)'
    <3>1. Past = {w} /\ tmp # None /\ Alone(w)
      BY <2>2, <2>3 DEF Contended, AnnounceInv
    <3>2. content' = [content EXCEPT ![tmp] = val[w]]
      BY <1>4, <3>1, WriteAlone
    <3> QED
      BY <2>1, <2>2, <3>1, <3>2 DEF Alone, TypeOK
  <2> QED
    BY <2>1, <2>2, <2>3 DEF AnnounceInv, BrokenIsAnnounced
<1>5. ASSUME NEW w \in Writer, Replace(w) PROVE AnnounceInv'
  <2>1. /\ pc' = [pc EXCEPT ![w] = "idle"] /\ pc[w] = "replace"
        /\ UNCHANGED <<content, val, fd, torn>>
    BY <1>5 DEF Replace, Return
  <2>2. Past' = Past \ {w} /\ w \in Past
    BY <2>1 DEF Past, TypeOK
  <2>3. CASE tmp = None
    <3>1. tmp' = None /\ pub' = pub /\ answer'[w] = "error"
      BY <1>5, <2>3 DEF Replace, Return, TypeOK
    <3> QED
      BY <2>1, <3>1 DEF AnnounceInv, BrokenIsAnnounced, Contended
  <2>4. CASE tmp # None
    <3>1. tmp' = None /\ pub' = tmp /\ tmp \in Inode
      BY <1>5, <2>4 DEF Replace, TypeOK
    <3>2. ASSUME ~torn, \A x \in Writer : Idle(x)' PROVE PublishedIsWhole'
      <4>1. Past = {w}
        BY <2>1, <2>2, <3>2 DEF Past, Idle, TypeOK
      <4>2. content[tmp] = val[w]
        BY <2>1, <2>4, <3>2, <4>1 DEF AnnounceInv, Contended, Alone
      <4> QED
        BY <2>1, <3>1, <4>2 DEF PublishedIsWhole, Reading, TypeOK
    <3> QED
      BY <2>1, <3>1, <3>2 DEF AnnounceInv, BrokenIsAnnounced, Contended
  <2> QED
    BY <2>3, <2>4
<1>6. ASSUME NEW w \in Writer, Die(w) PROVE AnnounceInv'
  <2>1. torn' /\ UNCHANGED <<pub, tmp>>
    BY <1>6 DEF Die, file
  <2> QED
    BY <2>1 DEF AnnounceInv
<1> QED
  BY <1>1, <1>2, <1>3, <1>4, <1>5, <1>6 DEF Next, Step

\* When all calls have returned and no writer died in one, a file in pieces
\* means that a call could not rename and raised (os.replace in
\* write_json_atomic, core/data_pipeline.py:91).
THEOREM BrokenFileIsAnnounced == Spec => []BrokenIsAnnounced
<1>1. AnnounceInv => BrokenIsAnnounced
  BY DEF AnnounceInv, BrokenIsAnnounced
<1> QED
  BY <1>1, TypeInit, TypeNext, AnnounceInit, AnnounceNext, PTL DEF Spec

-----------------------------------------------------------------------------
(* The requests use the file as AtomicFile says.                             *)

LEMMA StartsAsFile == StateInit => Init
BY DEF StateInit

LEMMA StepsAsFile == [StateNext]_stateVars => [Next]_vars
<1> SUFFICES ASSUME [StateNext]_stateVars PROVE [Next]_vars
  OBVIOUS
<1>1. CASE UNCHANGED stateVars
  BY <1>1 DEF stateVars
<1>2. ASSUME NEW w \in Writer,
             Load(w) \/ MarkAndSave(w) \/ Saving(w) \/ EndSave(w)
               \/ Answered(w) \/ Fails(w)
      PROVE  [Next]_vars
  BY <1>2 DEF Load, MarkAndSave, Saving, EndSave, Answered, Fails, Next, Step
<1> QED
  BY <1>1, <1>2 DEF StateNext

LEMMA FileInvariant == StateSpec => [](TypeOK /\ SerialInv)
<1>1. StateInit => TypeOK /\ SerialInv
  BY StartsAsFile, TypeInit, SerialInit
<1>2. TypeOK /\ SerialInv /\ [StateNext]_stateVars => (TypeOK /\ SerialInv)'
  BY StepsAsFile, TypeNext, SerialNext
<1> QED
  BY <1>1, <1>2, PTL DEF StateSpec

-----------------------------------------------------------------------------
(* Types. *)

LEMMA LoadedIsState == Loaded \in SUBSET Mark
BY StateConstants DEF Loaded

LEMMA StateTypeInit == StateInit => RequestsOK
BY DEF StateInit, Init, RequestsOK, Phase, Idle, Holding

LEMMA StateTypeNext ==
    TypeOK /\ RequestsOK /\ [StateNext]_stateVars => RequestsOK'
<1> SUFFICES ASSUME TypeOK, RequestsOK, [StateNext]_stateVars
             PROVE  RequestsOK'
  OBVIOUS
<1> USE StateConstants DEF RequestsOK, Phase, Idle, Holding, state
<1>1. CASE UNCHANGED stateVars
  BY <1>1 DEF stateVars, vars, writer
<1>2. ASSUME NEW w \in Writer, Load(w) PROVE RequestsOK'
  BY <1>2, LoadedIsState DEF Load, vars, writer
<1>3. ASSUME NEW w \in Writer, MarkAndSave(w) PROVE RequestsOK'
  <2>1. MarksOf(w) \subseteq Mark
    BY DEF Mark
  <2>2. /\ data' \in [Writer -> SUBSET Mark]
        /\ \A x \in Writer \ {w} : data'[x] = data[x]
    BY <1>3, <2>1 DEF MarkAndSave
  <2>3. /\ val'[w] = data'[w]
        /\ \A x \in Writer \ {w} : val'[x] = val[x] /\ pc'[x] = pc[x]
    BY <1>3 DEF MarkAndSave, Call, TypeOK
  <2>4. UNCHANGED <<phase, saved, mixed>> /\ phase[w] = "holding"
    BY <1>3 DEF MarkAndSave
  <2> QED
    BY <2>2, <2>3, <2>4
<1>4. ASSUME NEW w \in Writer, Saving(w) PROVE RequestsOK'
  BY <1>4 DEF Saving, Open, Write, TypeOK
<1>5. ASSUME NEW w \in Writer, EndSave(w) PROVE RequestsOK'
  <2>1. MarksOf(w) \subseteq Mark
    BY DEF Mark
  <2>2. /\ pc' = [pc EXCEPT ![w] = "idle"] /\ UNCHANGED <<val, data, mixed>>
        /\ saved' \subseteq Mark
        /\ phase' \in {phase, [phase EXCEPT ![w] = "failed"]}
    BY <1>5, <2>1 DEF EndSave, Replace, Return
  <2> QED
    BY <2>2 DEF TypeOK
<1>6. ASSUME NEW w \in Writer, Answered(w) PROVE RequestsOK'
  BY <1>6 DEF Answered, vars, writer
<1>7. ASSUME NEW w \in Writer, Fails(w) PROVE RequestsOK'
  <2>1. /\ phase' = [phase EXCEPT ![w] = "failed"]
        /\ UNCHANGED <<val, data, saved, mixed>>
        /\ pc' = [pc EXCEPT ![w] = "idle"]
    BY <1>7 DEF Fails, Die, Return, vars, writer, TypeOK
  <2> QED
    BY <2>1 DEF TypeOK
<1> QED
  BY <1>1, <1>2, <1>3, <1>4, <1>5, <1>6, <1>7 DEF StateNext

\* What a request writes is the state it has in hand, and requests that have
\* one in hand together are known to be mixed (RuntimeState.save,
\* runtime_support.py:86).
THEOREM StateTypeCorrect == StateSpec => []StateTypeOK
<1>1. TypeOK /\ RequestsOK => StateTypeOK
  BY DEF StateTypeOK
<1> QED
  BY <1>1, FileInvariant, StateTypeInit, StateTypeNext, PTL DEF StateSpec

-----------------------------------------------------------------------------
(* Marks.  Whoever has the state in hand has every mark that is owed in it,   *)
(* because it loaded it from the file, which had it, or made it itself; a     *)
(* request that ended between the load and the save of another is mixed and   *)
(* is owed nothing.                                                           *)

KeptInv ==
    ~overlapped =>
        /\ Owed \subseteq Loaded
        /\ \A w \in Holding : Owed \subseteq data[w]

LEMMA KeptInit == StateInit => KeptInv
BY DEF StateInit, KeptInv, Owed, Holding

LEMMA ReadingKept ==
    ASSUME TypeOK, SerialInv, NEW w \in Writer, Open(w) \/ Write(w) \/ Die(w),
           ~overlapped'
    PROVE  Loaded' = Loaded
<1> USE FileConstants DEF TypeOK, SerialInv
<1>1. CASE Open(w)
  <2>1. PICK i \in New(tmp) :
          tmp' = i /\ content' = [content EXCEPT ![i] = Torn]
    BY <1>1 DEF Open
  <2>2. i \in Inode /\ (tmp # None => i = tmp) /\ (tmp = None => i \in Free)
    BY <1>1, NewInodes DEF Open
  <2>3. ~overlapped /\ i # pub /\ pub' = pub
    BY <1>1, <2>2 DEF Open, Free
  <2> QED
    BY <2>1, <2>2, <2>3 DEF Loaded, Reading
<1>2. CASE Write(w)
  <2>1. ~overlapped /\ fd[w] = tmp /\ pub # fd[w] /\ pub' = pub
    BY <1>2 DEF Write
  <2>2. \A i \in Inode \ {fd[w]} : content'[i] = content[i]
    BY <1>2 DEF Write
  <2> QED
    BY <2>1, <2>2 DEF Loaded, Reading
<1>3. CASE Die(w)
  BY <1>3 DEF Die, file, Loaded, Reading
<1> QED
  BY <1>1, <1>2, <1>3

LEMMA KeptNext ==
    TypeOK /\ SerialInv /\ RequestsOK /\ KeptInv /\ [StateNext]_stateVars
      => KeptInv'
<1> SUFFICES ASSUME TypeOK, SerialInv, RequestsOK, KeptInv,
                    [StateNext]_stateVars, ~overlapped'
             PROVE  (/\ Owed \subseteq Loaded
                     /\ \A w \in Holding : Owed \subseteq data[w])'
  BY DEF KeptInv
<1> USE DEF Owed, Holding
<1> DEFINE Kept == /\ Owed \subseteq Loaded
                   /\ \A w \in Holding : Owed \subseteq data[w]
<1>1. CASE UNCHANGED stateVars
  BY <1>1 DEF stateVars, vars, state, file, Loaded, Reading, KeptInv
<1>2. ASSUME NEW w \in Writer, Load(w) PROVE Kept'
  <2>1. ~overlapped /\ Loaded' = Loaded /\ saved' = saved /\ mixed \subseteq mixed'
    BY <1>2 DEF Load, vars, file, Loaded, Reading
  <2>2. data' = [data EXCEPT ![w] = Loaded]
        /\ phase' = [phase EXCEPT ![w] = "holding"]
    BY <1>2 DEF Load
  <2> QED
    BY <2>1, <2>2 DEF KeptInv, RequestsOK
<1>3. ASSUME NEW w \in Writer, MarkAndSave(w) PROVE Kept'
  <2>1. ~overlapped /\ Loaded' = Loaded /\ UNCHANGED <<phase, saved, mixed>>
    BY <1>3 DEF MarkAndSave, Call, file, Loaded, Reading
  <2>2. \A x \in Writer : data[x] \subseteq data'[x]
    BY <1>3 DEF MarkAndSave, RequestsOK
  <2> QED
    BY <2>1, <2>2 DEF KeptInv
<1>4. ASSUME NEW w \in Writer, Saving(w) PROVE Kept'
  <2>1. ~overlapped /\ Loaded' = Loaded /\ UNCHANGED state
    BY <1>4, ReadingKept DEF Saving, Open, Write
  <2> QED
    BY <2>1 DEF KeptInv, state
<1>5. ASSUME NEW w \in Writer, EndSave(w) PROVE Kept'
  <2>1. /\ ~overlapped /\ tmp # None /\ content[tmp] = val[w]
        /\ phase[w] = "holding" /\ val[w] = data[w]
    BY <1>5 DEF EndSave, Replace, SerialInv, RequestsOK, Idle
  <2>2. /\ pub' = tmp /\ content' = content /\ answer'[w] = "ok"
        /\ UNCHANGED <<data, mixed>>
    BY <1>5, <2>1 DEF EndSave, Replace, Return, TypeOK
  <2>3. saved' = saved \cup (data[w] \cap MarksOf(w)) /\ phase' = phase
    BY <1>5, <2>2 DEF EndSave
  <2>4. Loaded' = data[w]
    BY <2>1, <2>2 DEF Loaded, Reading, TypeOK
  <2>5. Owed \subseteq data[w]
    BY <2>1 DEF KeptInv
  <2>6. \A m \in MarksOf(w) : m[1] = w
    BY DEF MarksOf
  <2>7. \A x \in Holding \ {w} : w \in mixed
    BY <2>1 DEF RequestsOK
  <2>8. ASSUME NEW x \in Holding PROVE Owed' \subseteq data[x]
    BY <2>1, <2>2, <2>3, <2>5, <2>6, <2>7, <2>8 DEF KeptInv
  <2> QED
    BY <2>1, <2>2, <2>3, <2>4, <2>5, <2>8
<1>6. ASSUME NEW w \in Writer, Answered(w) PROVE Kept'
  BY <1>6 DEF Answered, vars, file, Loaded, Reading, KeptInv, RequestsOK
<1>7. ASSUME NEW w \in Writer, Fails(w) PROVE Kept'
  <2>1. ~overlapped /\ Loaded' = Loaded
    BY <1>7 DEF Fails, Die, vars, file, Loaded, Reading
  <2>2. /\ phase' = [phase EXCEPT ![w] = "failed"]
        /\ UNCHANGED <<data, saved, mixed>>
    BY <1>7 DEF Fails
  <2> QED
    BY <2>1, <2>2 DEF KeptInv, RequestsOK
<1> QED
  BY <1>1, <1>2, <1>3, <1>4, <1>5, <1>6, <1>7 DEF StateNext

\* A request that had the status file to itself keeps its marks for ever, as
\* long as no two saves overlapped, however others mixed theirs up
\* (runtime_support.py:86-108).
THEOREM MarksAreKept == StateSpec => []MarksKept
<1>1. KeptInv => MarksKept
  BY DEF KeptInv, MarksKept
<1> QED
  BY <1>1, FileInvariant, StateTypeInit, StateTypeNext, KeptInit, KeptNext,
     PTL DEF StateSpec
-----------------------------------------------------------------------------
(* Losses.  As long as no request failed and no two renames compete, the      *)
(* file is whole, it has every mark that is owed, and so has every request    *)
(* with the state in hand.  Once renames compete, a request will fail.        *)

NoneFailed == \A w \in Writer : phase[w] # "failed"

LossInv ==
    NoneFailed =>
        /\ ~torn /\ \A w \in Writer : answer[w] # "error"
        /\ ~Contended =>
            /\ PublishedIsWhole
            /\ Owed \subseteq Loaded
            /\ \A w \in Holding : Owed \subseteq data[w]

LEMMA LossInit == StateInit => LossInv
BY DEF StateInit, Init, LossInv, PublishedIsWhole, Reading, Owed, Holding

\* A competition for the temporary name ends with a failure.
LEMMA ContendedStays ==
    ASSUME TypeOK, RequestsOK, LossInv, [StateNext]_stateVars,
           NoneFailed, NoneFailed', Contended
    PROVE  Contended'
<1>1. CASE UNCHANGED stateVars
  BY <1>1 DEF stateVars, vars, file, writer, Contended, Past
<1>2. ASSUME NEW w \in Writer,
             Load(w) \/ MarkAndSave(w) \/ Answered(w) \/ Write(w)
      PROVE  Contended'
  <2>1. Past' = Past /\ tmp' = tmp
    BY <1>2 DEF Load, MarkAndSave, Call, Answered, Write, vars, file, writer,
                Past, Idle, TypeOK
  <2> QED
    BY <2>1 DEF Contended
<1>3. ASSUME NEW w \in Writer, Open(w) PROVE Contended'
  <2>1. Past' = Past \cup {w} /\ w \notin Past
    BY <1>3 DEF Open, Past, TypeOK
  <2> QED
    BY <2>1 DEF Contended
<1>4. ASSUME NEW w \in Writer, EndSave(w) PROVE Contended'
  <2>1. /\ pc' = [pc EXCEPT ![w] = "idle"] /\ pc[w] = "replace"
        /\ phase[w] # "failed" /\ phase'[w] # "failed"
    BY <1>4 DEF EndSave, Replace, Return, NoneFailed
  <2>2. answer'[w] = "ok"
    BY <1>4, <2>1 DEF EndSave, RequestsOK
  <2>3. tmp # None /\ tmp' = None
    BY <1>4, <2>2 DEF EndSave, Replace, Return, TypeOK
  <2>4. Past' = Past \ {w}
    BY <2>1 DEF Past, TypeOK
  <2> QED
    BY <2>3, <2>4 DEF Contended
<1>5. ASSUME NEW w \in Writer, Fails(w) PROVE FALSE
  BY <1>5 DEF Fails, NoneFailed, RequestsOK
<1> QED
  BY <1>1, <1>2, <1>3, <1>4, <1>5 DEF StateNext, Saving

\* Without one, nobody but the last step of a save changes what is read.
LEMMA ReadingAlone ==
    ASSUME TypeOK, AnnounceInv, ~torn, ~Contended,
           NEW w \in Writer, Open(w) \/ Write(w)
    PROVE  Reading' = Reading
<1> USE FileConstants
<1>1. CASE Open(w)
  <2>1. PICK i \in New(tmp) :
          tmp' = i /\ content' = [content EXCEPT ![i] = Torn]
    BY <1>1 DEF Open
  <2>2. i \in Inode /\ (tmp # None => i = tmp) /\ (tmp = None => i \in Free)
    BY <1>1, NewInodes DEF Open, TypeOK
  <2>3. (pub = None \/ i # pub) /\ pub' = pub
    BY <1>1, <2>2 DEF Open, Free, AnnounceInv
  <2> QED
    BY <2>1, <2>2, <2>3 DEF Reading, TypeOK
<1>2. CASE Write(w)
  <2>1. Past = {w} /\ Alone(w) /\ (pub = None \/ pub # tmp) /\ pub' = pub
    BY <1>2 DEF Write, Past, Contended, AnnounceInv
  <2>2. content' = [content EXCEPT ![tmp] = val[w]]
    BY <1>2, <2>1, WriteAlone
  <2> QED
    BY <2>1, <2>2 DEF Reading, TypeOK
<1> QED
  BY <1>1, <1>2

LEMMA LossNext ==
    TypeOK /\ AnnounceInv /\ RequestsOK /\ LossInv /\ [StateNext]_stateVars
      => LossInv'
<1> SUFFICES ASSUME TypeOK, AnnounceInv, RequestsOK, LossInv,
                    [StateNext]_stateVars, NoneFailed'
             PROVE  (/\ ~torn /\ \A w \in Writer : answer[w] # "error"
                     /\ ~Contended =>
                          /\ PublishedIsWhole
                          /\ Owed \subseteq Loaded
                          /\ \A w \in Holding : Owed \subseteq data[w])'
  BY DEF LossInv
<1> DEFINE Calm == ~torn /\ \A w \in Writer : answer[w] # "error"
           Kept == /\ PublishedIsWhole
                   /\ Owed \subseteq Loaded
                   /\ \A w \in Holding : Owed \subseteq data[w]
<1>1. NoneFailed
  <2>1. \A w \in Writer : phase[w] = "failed" => phase'[w] = "failed"
    BY DEF StateNext, stateVars, Load, MarkAndSave, Saving, EndSave, Answered,
           Fails, state, RequestsOK
  <2> QED
    BY <2>1 DEF NoneFailed
<1>2. Calm /\ (~Contended => Kept)
  BY <1>1 DEF LossInv
<1>3. Calm'
  <2>1. CASE UNCHANGED stateVars
    BY <1>2, <2>1 DEF stateVars, vars, writer
  <2>2. ASSUME NEW w \in Writer,
               Load(w) \/ MarkAndSave(w) \/ Saving(w) \/ Answered(w)
        PROVE  Calm'
    BY <1>2, <2>2 DEF Load, MarkAndSave, Call, Saving, Open, Write, Answered,
                      vars, writer, TypeOK
  <2>3. ASSUME NEW w \in Writer, EndSave(w) PROVE Calm'
    <3>1. phase'[w] # "failed"
      BY DEF NoneFailed
    <3>2. answer'[w] = "ok"
      BY <2>3, <3>1 DEF EndSave, RequestsOK
    <3>3. answer' \in {[answer EXCEPT ![w] = "ok"], [answer EXCEPT ![w] = "error"]}
          /\ torn' = torn
      BY <2>3 DEF EndSave, Replace, Return
    <3> QED
      BY <1>2, <3>2, <3>3 DEF TypeOK
  <2>4. ASSUME NEW w \in Writer, Fails(w) PROVE FALSE
    BY <2>4 DEF Fails, NoneFailed, RequestsOK
  <2> QED
    BY <2>1, <2>2, <2>3, <2>4 DEF StateNext
<1>4. ASSUME ~Contended' PROVE Kept'
  <2>1. ~Contended /\ ~torn /\ Kept
    BY <1>1, <1>2, <1>4, ContendedStays
  <2> USE DEF Owed, Holding
  <2>2. CASE UNCHANGED stateVars
    BY <2>1, <2>2 DEF stateVars, vars, state, file, Loaded, Reading,
                      PublishedIsWhole
  <2>3. ASSUME NEW w \in Writer, Load(w) PROVE Kept'
    <3>1. Reading' = Reading /\ saved' = saved /\ mixed \subseteq mixed'
      BY <2>3 DEF Load, vars, file, Reading
    <3>2. data' = [data EXCEPT ![w] = Loaded]
          /\ phase' = [phase EXCEPT ![w] = "holding"]
      BY <2>3 DEF Load
    <3> QED
      BY <2>1, <3>1, <3>2 DEF Loaded, PublishedIsWhole, RequestsOK
  <2>4. ASSUME NEW w \in Writer, MarkAndSave(w) PROVE Kept'
    <3>1. Reading' = Reading /\ UNCHANGED <<phase, saved, mixed>>
      BY <2>4 DEF MarkAndSave, Call, file, Reading
    <3>2. \A x \in Writer : data[x] \subseteq data'[x]
      BY <2>4 DEF MarkAndSave, RequestsOK
    <3> QED
      BY <2>1, <3>1, <3>2 DEF Loaded, PublishedIsWhole
  <2>5. ASSUME NEW w \in Writer, Saving(w) PROVE Kept'
    <3>1. Reading' = Reading /\ UNCHANGED state
      BY <2>1, <2>5, ReadingAlone DEF Saving
    <3> QED
      BY <2>1, <3>1 DEF Loaded, PublishedIsWhole, state
  <2>6. ASSUME NEW w \in Writer, EndSave(w) PROVE Kept'
    <3>1. /\ pc[w] = "replace" /\ phase[w] = "holding" /\ val[w] = data[w]
          /\ phase'[w] # "failed" /\ w \in Past
      BY <2>6 DEF EndSave, Replace, RequestsOK, Idle, NoneFailed, Past
    <3>2. /\ tmp # None /\ pub' = tmp /\ content' = content
          /\ UNCHANGED <<data, mixed>> /\ phase' = phase
          /\ saved' = saved \cup (data[w] \cap MarksOf(w))
      BY <2>6, <3>1 DEF EndSave, Replace, Return, TypeOK, RequestsOK
    <3>3. content[tmp] = data[w]
      BY <2>1, <3>1, <3>2 DEF AnnounceInv, Alone
    <3>4. Reading' = data[w] /\ data[w] \in Payload
      BY <3>1, <3>2, <3>3, FileConstants DEF Reading, TypeOK
    <3>5. Loaded' = data[w] /\ PublishedIsWhole'
      BY <3>4 DEF Loaded, PublishedIsWhole
    <3>6. \A m \in MarksOf(w) : m[1] = w
      BY DEF MarksOf
    <3>7. \A x \in Holding \ {w} : w \in mixed
      BY <3>1 DEF RequestsOK
    <3>8. ASSUME NEW x \in Holding PROVE Owed' \subseteq data[x]
      BY <2>1, <3>1, <3>2, <3>6, <3>7, <3>8
    <3> QED
      BY <3>1, <3>2, <3>5, <3>8
  <2>7. ASSUME NEW w \in Writer, Answered(w) PROVE Kept'
    BY <2>1, <2>7 DEF Answered, vars, file, Loaded, Reading, PublishedIsWhole,
                      RequestsOK
  <2>8. ASSUME NEW w \in Writer, Fails(w) PROVE FALSE
    BY <2>8 DEF Fails, NoneFailed, RequestsOK
  <2> QED
    BY <2>2, <2>3, <2>4, <2>5, <2>6, <2>7, <2>8 DEF StateNext
<1> QED
  BY <1>3, <1>4

\* However saves overlap: when all requests are back and none of them failed,
\* the file has the marks of every request that had it to itself, and a file in
\* pieces was told to one of them (RuntimeState, runtime_support.py:86-108; a
\* broken file is read as the default, load_json_file, runtime_support.py:32).
THEOREM LossesAreAnnounced == StateSpec => []LossIsAnnounced
<1>1. ASSUME AnnounceInv, RequestsOK, LossInv PROVE LossIsAnnounced
  <2>1. BrokenIsAnnounced
    BY <1>1 DEF AnnounceInv, BrokenIsAnnounced
  <2>2. ASSUME \A w \in Writer : phase[w] \in {"work", "done"}
        PROVE  Owed \subseteq Loaded
    <3>1. NoneFailed /\ \A w \in Writer : Idle(w)
      BY <1>1, <2>2 DEF NoneFailed, RequestsOK
    <3>2. Past = {} /\ ~torn
      BY <1>1, <3>1 DEF Past, Idle, LossInv
    <3>3. ~Contended
      BY <3>2 DEF Contended
    <3> QED
      BY <1>1, <3>1, <3>3 DEF LossInv
  <2> QED
    BY <2>1, <2>2 DEF LossIsAnnounced
<1>2. StateInit => TypeOK /\ AnnounceInv
  BY StartsAsFile, TypeInit, AnnounceInit
<1>3. TypeOK /\ AnnounceInv /\ [StateNext]_stateVars => (TypeOK /\ AnnounceInv)'
  BY StepsAsFile, TypeNext, AnnounceNext
<1> QED
  BY <1>1, <1>2, <1>3, StateTypeInit, StateTypeNext, LossInit, LossNext,
     PTL DEF StateSpec
=============================================================================
