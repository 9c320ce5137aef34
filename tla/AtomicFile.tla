----------------------------- MODULE AtomicFile -----------------------------
(***************************************************************************)
(* write_json_atomic (core/data_pipeline.py, core/post_market/common.py)   *)
(* for one file and the writers that may write it: threads of the API, the *)
(* pipelines and the post-market script.  The text goes to a temporary     *)
(* name, which is then renamed.  All writers use the same temporary name,  *)
(* so names, inodes and open files are kept apart.                         *)
(***************************************************************************)
EXTENDS Naturals, FiniteSets

CONSTANTS
    Writer,         \* the threads and processes that write the file
    Payload,        \* what they write
    Inode,          \* bound on the inodes: two names, and one per open file
    Torn,           \* what an inode holds that is cut off or a mixture
    None            \* no inode; and what a missing file is read as

ASSUME FileConstants ==
    /\ IsFiniteSet(Inode) /\ IsFiniteSet(Writer)
    /\ Cardinality(Inode) >= Cardinality(Writer) + 2
    /\ Torn \notin Payload /\ None \notin Payload \cup Inode /\ Torn # None

VARIABLES
    pub, tmp,       \* the inode of the file and of its temporary name
    content,        \* what each inode holds
    pc, val, fd,    \* the writers: progress, payload, open inode
    answer,         \* how the last call of each writer ended
    overlapped,     \* a call was made while another was under way
    torn            \* a writer died between opening and renaming

file   == <<pub, tmp, content>>
writer == <<pc, val, fd, answer>>
vars   == <<file, writer, overlapped, torn>>

Text  == Payload \cup {Torn}
PC    == {"idle", "open", "write", "replace"}

\* What a reader of the file gets.
Reading == IF pub = None THEN None ELSE content[pub]

Idle(w) == pc[w] = "idle"

Init ==
    /\ pub = None /\ tmp = None
    /\ content = [i \in Inode |-> Torn]
    /\ pc = [w \in Writer |-> "idle"] /\ fd = [w \in Writer |-> None]
    /\ val \in [Writer -> Payload]
    /\ answer = [w \in Writer |-> "none"]
    /\ overlapped = FALSE /\ torn = FALSE

-----------------------------------------------------------------------------
Call(w) ==
    /\ Idle(w)
    /\ \E p \in Payload : val' = [val EXCEPT ![w] = p]
    /\ pc' = [pc EXCEPT ![w] = "open"]
    /\ answer' = [answer EXCEPT ![w] = "none"]
    /\ overlapped' = (overlapped \/ \E x \in Writer \ {w} : ~Idle(x))
    /\ UNCHANGED <<file, fd, torn>>

\* Which inode a new file gets does not matter; one is free, since a writer
\* that opens has none.
Free == Inode \ ({pub, tmp} \cup {fd[w] : w \in Writer})
New(name) == IF name # None THEN {name} ELSE {CHOOSE i \in Inode : i \in Free}

\* Mutant: the text is written under the name of the file.
Open_InPlace(w) ==
    /\ pc[w] = "open"
    /\ Free # {}
    /\ \E i \in New(pub) :
         /\ pub' = i /\ tmp' = i /\ fd' = [fd EXCEPT ![w] = i]
         /\ content' = [content EXCEPT ![i] = Torn]
    /\ pc' = [pc EXCEPT ![w] = "write"]
    /\ UNCHANGED <<val, answer, overlapped, torn>>

\* write_text opens the temporary name: its file is emptied, or made.
Open(w) ==
    /\ pc[w] = "open"
    /\ Free # {}
    /\ \E i \in New(tmp) :
         /\ tmp' = i /\ fd' = [fd EXCEPT ![w] = i]
         /\ content' = [content EXCEPT ![i] = Torn]
    /\ pc' = [pc EXCEPT ![w] = "write"]
    /\ UNCHANGED <<pub, val, answer, overlapped, torn>>

\* What the writer leaves in the file it has open: where another one has it
\* open too, or filled it since, perhaps a mixture of both texts.
Left(w) ==
    {val[w]} \cup {c \in {Torn} : \/ content[fd[w]] # Torn
                                 \/ \E x \in Writer \ {w} : fd[x] = fd[w]}

\* The text is written and the file closed.
Write(w) ==
    /\ pc[w] = "write"
    /\ \E c \in Left(w) : content' = [content EXCEPT ![fd[w]] = c]
    /\ pc' = [pc EXCEPT ![w] = "replace"]
    /\ fd' = [fd EXCEPT ![w] = None]
    /\ UNCHANGED <<pub, tmp, val, answer, overlapped, torn>>

Return(w, how) ==
    /\ pc' = [pc EXCEPT ![w] = "idle"]
    /\ answer' = [answer EXCEPT ![w] = how]

\* Mutant: a temporary file that is gone is taken for one that was renamed.
Replace_Missing(w) ==
    /\ pc[w] = "replace"
    /\ IF tmp = None THEN UNCHANGED <<pub, tmp>>
                     ELSE pub' = tmp /\ tmp' = None
    /\ Return(w, "ok")
    /\ UNCHANGED <<content, val, fd, overlapped, torn>>

\* os.replace raises FileNotFoundError when the temporary name is gone.
Replace(w) ==
    /\ pc[w] = "replace"
    /\ IF tmp = None
       THEN Return(w, "error") /\ UNCHANGED <<pub, tmp>>
       ELSE Return(w, "ok") /\ pub' = tmp /\ tmp' = None
    /\ UNCHANGED <<content, val, fd, overlapped, torn>>

\* The process of the writer dies; the files stay as they are.
Die(w) ==
    /\ ~Idle(w)
    /\ Return(w, "died")
    /\ fd' = [fd EXCEPT ![w] = None]
    /\ torn' = TRUE
    /\ UNCHANGED <<file, val, overlapped>>

Step(w) == Call(w) \/ Open(w) \/ Write(w) \/ Replace(w) \/ Die(w)

Next == \E w \in Writer : Step(w)

Spec == Init /\ [][Next]_vars

-----------------------------------------------------------------------------
TypeOK ==
    /\ pub \in Inode \cup {None} /\ tmp \in Inode \cup {None}
    /\ content \in [Inode -> Text]
    /\ pc \in [Writer -> PC] /\ val \in [Writer -> Payload]
    /\ fd \in [Writer -> Inode \cup {None}]
    /\ \A w \in Writer : (pc[w] = "write") = (fd[w] # None)
    /\ answer \in [Writer -> {"none", "ok", "error", "died"}]
    /\ overlapped \in BOOLEAN /\ torn \in BOOLEAN

\* "Write JSON through a temporary file and atomic replace"
\* (core/data_pipeline.py:91): whoever opens the file, finds a whole one.
PublishedIsWhole == Reading \in Payload \cup {None}

\* While calls do not overlap, and whatever process dies in one, what readers
\* get is changed by one step of each call alone, its last, from one payload to
\* the payload of the call, which is then answered; and no call fails.
SerialWritesAreAtomic ==
    [][~overlapped' =>
         \A w \in Writer :
           /\ answer'[w] # "error"
           /\ answer'[w] = "ok" /\ answer[w] # "ok" => Reading' = val[w]
           /\ Reading' # Reading =>
                \E x \in Writer : answer[x] # "ok" /\ answer'[x] = "ok"]_vars

\* Calls that overlap may leave the file in pieces; but when all have returned,
\* one of them was told so: it could not rename.
BrokenIsAnnounced ==
    ~torn /\ (\A w \in Writer : Idle(w)) /\ ~PublishedIsWhole =>
        \E w \in Writer : answer[w] = "error"
=============================================================================
