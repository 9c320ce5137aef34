------------------------- MODULE NotificationArchive -------------------------
(***************************************************************************)
(* core/notification.py: the calls of notify() that share the archive file *)
(* of one day, made by the legacy pipeline, scripts/daily_check.py and     *)
(* scripts/test_notify.py, each in a process of its own.  A call appends a *)
(* line, sends the e-mail, and then reads the whole file and writes it     *)
(* again, under its own name, to put its results into its line.  Each of   *)
(* these may fail, and the call goes on or returns as if it had not.       *)
(***************************************************************************)
EXTENDS Naturals, Sequences, SequencesExt

CONSTANTS
    Call,           \* the calls of notify() on that day
    Id,             \* build_notification_id: equal for equal notifications
                    \* of the same second
    MaxFaults       \* bound on the steps that fail or die, and the lines that
                    \* their readers take for several

ASSUME ArchiveConstants ==
    /\ Call # {} /\ Id # {} /\ MaxFaults \in Nat
    /\ Call \cap {"none", "torn", "broken"} = {}

VARIABLES
    archive, ended, \* the lines of the file, and whether the last has its end
    pc, id,         \* the calls: progress, event id
    mailed,         \* the calls that have the result of their e-mail
    selected,       \* the calls whose channels name the archive
    text,           \* the lines a call read, with its results put in
    appended,       \* the calls whose line was written, as a line of its own
    raced,          \* some call touched the file while another rewrote it
    cut,            \* a rewriting of the file ended half way
    faults          \* spent of MaxFaults

file == <<archive, ended>>
call == <<pc, id, mailed, selected, text>>
vars == <<file, call, appended, raced, cut, faults>>

\* A line shows which call wrote it and whose results stand in it, or is not
\* JSON, or not even UTF-8.
Torn    == [by |-> "torn", results |-> "none"]
Broken  == [by |-> "broken", results |-> "none"]
Scrap   == {Torn, Broken}
Line    == [by : Call, results : Call \cup {"none"}] \cup Scrap

\* A call that gave up has returned, without having put its results in.
PC      == {"start", "send", "read", "open", "write", "done", "gave_up",
            "raised", "dead"}
Over    == {"done", "gave_up", "raised", "dead"}

Init ==
    /\ archive = <<>> /\ ended = TRUE /\ pc = [c \in Call |-> "start"]
    /\ id \in [Call -> Id] /\ selected \in SUBSET Call
    /\ mailed = {} /\ text = [c \in Call |-> <<>>]
    /\ appended = {} /\ raced = FALSE /\ cut = FALSE
    /\ faults = 0

\* Calls that have read the file and not yet written it.
Rewriting == {c \in Call : pc[c] \in {"open", "write"}}

Touch(c) == raced' = (raced \/ Rewriting \ {c} # {})
At(c, here, next) == pc[c] = here /\ pc' = [pc EXCEPT ![c] = next]
Fault == faults < MaxFaults /\ faults' = faults + 1

\* The text a call has in hand is gone with it.
Drop(c) == text' = [text EXCEPT ![c] = <<>>]

-----------------------------------------------------------------------------
\* What is appended to a line without an end becomes a part of that line.
Unfinished == ~ended /\ archive # <<>>

Landed(line) ==
    IF ~Unfinished THEN Append(archive, line)
    ELSE [archive EXCEPT ![Len(archive)] =
            IF Broken \in {archive[Len(archive)], line} THEN Broken ELSE Torn]

New(c) == [by |-> c, results |-> "none"]

\* A line with its end.  If its text holds one of the other line ends that
\* splitlines() knows, it is in pieces for whoever reads the file again.
AppendLine(c) ==
    /\ ended' = TRUE /\ Touch(c)
    /\ \/ Fault /\ archive' = Landed(Torn) /\ UNCHANGED appended
       \/ /\ archive' = Landed(New(c)) /\ UNCHANGED faults
          /\ appended' = IF Unfinished THEN appended ELSE appended \cup {c}

\* A part of a line; it may lack only the end, or be cut within a character.
AppendPart(c) ==
    /\ \E line \in {New(c)} \cup Scrap : archive' = Landed(line)
    /\ ended' = FALSE /\ Touch(c) /\ UNCHANGED appended

\* write_archive comes first, whatever the channels; it may fail.
WriteArchive(c) ==
    /\ At(c, "start", "send")
    /\ \/ AppendLine(c)
       \/ Fault /\ (AppendPart(c) \/ UNCHANGED <<file, appended, raced>>)
    /\ UNCHANGED <<id, mailed, selected, text, cut>>

\* Mutant: the line is updated whatever the channels.
Send_Updates(c) ==
    /\ At(c, "send", "read")
    /\ mailed' = mailed \cup {c}
    /\ UNCHANGED <<file, id, selected, text, appended, raced, cut, faults>>

\* send_email_notification returns a result in any case; then the line is
\* updated if the archive was asked for.
Send(c) ==
    /\ At(c, "send", IF c \in selected THEN "read" ELSE "done")
    /\ mailed' = mailed \cup {c}
    /\ UNCHANGED <<file, id, selected, text, appended, raced, cut, faults>>

\* Lines of this event, or of one that has its id.
Own(c) ==
    {i \in DOMAIN archive : archive[i] \notin Scrap /\ id[archive[i].by] = id[c]}
LastOf(s) == CHOOSE i \in s : \A j \in s : j <= i

\* Mutant: the last line that is JSON is taken for its own.
Read_Last(c) ==
    LET json == {i \in DOMAIN archive : archive[i] \notin Scrap} IN
    /\ At(c, "read", IF json = {} THEN "done" ELSE "open")
    /\ text' = [text EXCEPT ![c] =
         IF json = {} THEN <<>> ELSE [archive EXCEPT ![LastOf(json)].results = c]]
    /\ Touch(c) /\ UNCHANGED <<file, id, mailed, selected, appended, cut, faults>>

\* update_archive_results reads the file and changes the last line of its id,
\* passing over lines that are no JSON; without one it leaves the file alone.
Read(c) ==
    /\ At(c, "read", IF Own(c) = {} THEN "done" ELSE "open")
    /\ \A i \in DOMAIN archive : archive[i] # Broken
    /\ text' = [text EXCEPT ![c] =
         IF Own(c) = {} THEN <<>>
         ELSE [archive EXCEPT ![LastOf(Own(c))].results = c]]
    /\ Touch(c) /\ UNCHANGED <<file, id, mailed, selected, appended, cut, faults>>

\* A file that is not UTF-8 raises from notify: no OSError.
ReadRaises(c) ==
    /\ At(c, "read", "raised")
    /\ \E i \in DOMAIN archive : archive[i] = Broken
    /\ UNCHANGED <<file, id, mailed, selected, text, appended, raced, cut, faults>>

\* read_text or the opening of write_text fails, and the call returns.
GiveUp(c) ==
    /\ At(c, "read", "gave_up") \/ At(c, "open", "gave_up")
    /\ Fault /\ Drop(c)
    /\ UNCHANGED <<file, id, mailed, selected, appended, raced, cut>>

\* Mutant: only the lines up to its own are written back.
Write_Short(c) ==
    /\ At(c, "write", "done")
    /\ archive' = SubSeq(text[c], 1,
                    LastOf({i \in DOMAIN text[c] : text[c][i].results = c}))
    /\ ended' = TRUE
    /\ Touch(c) /\ Drop(c) /\ UNCHANGED <<id, mailed, selected, appended, cut, faults>>

\* write_text empties the file,
Open(c) ==
    /\ At(c, "open", "write") /\ archive' = <<>> /\ ended' = TRUE
    /\ Touch(c) /\ UNCHANGED <<id, mailed, selected, text, appended, cut, faults>>

\* and writes the text over whatever is there by then; what is beyond it stays,
\* from the middle of a line on.
Beyond ==
    {piece \o lines : piece \in {<<>>} \cup {<<x>> : x \in Scrap},
                      lines \in {<<>>} \cup Suffixes(archive)}

Write(c) ==
    /\ At(c, "write", "done")
    /\ \E rest \in IF archive = <<>> THEN {<<>>} ELSE Beyond :
         archive' = text[c] \o rest /\ ended' = (rest = <<>> \/ ended)
    /\ Touch(c) /\ Drop(c) /\ UNCHANGED <<id, mailed, selected, appended, cut, faults>>

\* Of the text only some got written.
CutShort(c) ==
    /\ \E some \in Prefixes(text[c]), rest \in Beyond : archive' = some \o rest
    /\ ended' \in BOOLEAN /\ cut' = TRUE /\ UNCHANGED <<appended, raced>>

\* write_text fails after it emptied the file, and the call returns.
WriteFails(c) ==
    /\ At(c, "write", "gave_up") /\ Fault /\ CutShort(c) /\ Drop(c)
    /\ UNCHANGED <<id, mailed, selected>>

\* The process dies, with a line or the text half written.
Die(c) ==
    /\ pc[c] \notin Over /\ Fault /\ pc' = [pc EXCEPT ![c] = "dead"]
    /\ \/ pc[c] = "start" /\ AppendPart(c) /\ UNCHANGED cut
       \/ pc[c] = "write" /\ CutShort(c)
       \/ pc[c] # "write" /\ UNCHANGED <<file, appended, raced, cut>>
    /\ Drop(c) /\ UNCHANGED <<id, mailed, selected>>

Next ==
    \E c \in Call :
        \/ WriteArchive(c) \/ Send(c) \/ Read(c) \/ Open(c) \/ Write(c)
        \/ ReadRaises(c) \/ GiveUp(c) \/ WriteFails(c) \/ Die(c)

Spec == Init /\ [][Next]_vars

-----------------------------------------------------------------------------
TypeOK ==
    /\ archive \in Seq(Line) /\ pc \in [Call -> PC] /\ id \in [Call -> Id]
    /\ mailed \subseteq Call /\ selected \subseteq Call
    /\ text \in [Call -> Seq(Line)] /\ appended \subseteq Call
    /\ ended \in BOOLEAN /\ raced \in BOOLEAN /\ cut \in BOOLEAN
    /\ faults \in 0..MaxFaults
    /\ Rewriting \subseteq selected \cap mailed

LinesOf(c) == {i \in DOMAIN archive : archive[i].by = c}

\* Every line that was written whole, and not behind an unfinished one, stays,
\* once, although every other call writes the whole file again, whichever
\* process dies or fails elsewhere, and with torn lines anywhere in the file:
\* it is lost only when a call touched the file while another rewrote it, or
\* when a rewriting ended half way, by the death of its process or by an
\* OSError that update_archive_results swallows.
LinesSurvive ==
    \A c \in appended : \E i \in DOMAIN archive : LinesOf(c) = {i}

\* And a call that asked for the archive finds its results in its own line once
\* it returned, unless it gave up reading or opening the file; equal
\* notifications share an id, and then it is only certain that the last of their
\* lines holds the results of one.
ResultsReachTheLine ==
    \A c \in appended \cap selected :
        LET equal == {d \in Call : id[d] = id[c]}
        IN (\A d \in equal : d \in selected /\ pc[d] = "done") =>
                archive[LastOf(Own(c))].results \in equal
QuietArchiveIsWhole ==
    ~raced /\ ~cut /\ (\A c \in Call : pc[c] # "write")
        => LinesSurvive /\ ResultsReachTheLine

\* Whatever races, fails or dies, no line shows the results of a notification
\* other than its own, or one that is equal to it.
ResultsAreItsOwn ==
    \A i \in DOMAIN archive :
        archive[i].results # "none" =>
            /\ id[archive[i].results] = id[archive[i].by]
            /\ archive[i].results \in mailed
=============================================================================
