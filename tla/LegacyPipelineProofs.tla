------------------------ MODULE LegacyPipelineProofs ------------------------
(* What the legacy loop promises of its mails, for any number of symbols,    *)
(* recipients and windows, and any number of faults and crashes.             *)
EXTENDS LegacyPipeline, TLAPS

-----------------------------------------------------------------------------
(* The slots of a day, and the mails of its periods.                         *)

LEMMA Slots ==
    /\ Close \in Nat /\ Late \in Nat /\ Over \in Nat
    /\ Close < Late /\ Late < Over /\ Late > 0
    /\ Interval \in Nat /\ Interval > 0
<1>1. Close \in Nat
  BY LegacyConstants DEF Close
<1> QED
  BY <1>1, LegacyConstants DEF Late, Over

LEMMA Quotient ==
    ASSUME NEW a \in Nat, NEW b \in Nat, NEW p \in Nat \ {0}, a <= b
    PROVE  a \div p \in Nat /\ a \div p <= b \div p
<1> DEFINE q == a \div p
           r == b \div p
<1>1. /\ q \in Nat /\ a = p * q + (a % p) /\ a % p \in 0..(p - 1)
      /\ r \in Nat /\ b = p * r + (b % p) /\ b % p \in 0..(p - 1)
  OBVIOUS
<1> HIDE DEF q, r
<1>2. ASSUME r < q PROVE FALSE
  <2>1. p * (r + 1) <= p * q
    BY <1>1, <1>2
  <2>2. p * (r + 1) = p * r + p
    BY <1>1
  <2> QED
    BY <1>1, <2>1, <2>2
<1>3. q \in Nat /\ q <= r
  BY <1>1, <1>2
<1> QED
  BY <1>3 DEF q, r

LEMMA PeriodIsKey ==
    ASSUME now \in 0..Late, Open, Period >= 1
    PROVE  Period \in Key \ {Daily}
<1>1. now \in Nat /\ now <= Close
  BY Slots DEF Open
<1>2. Period \in Nat /\ Period <= Close \div PeriodSlots /\ Close \div PeriodSlots \in Nat
  BY <1>1, Slots, Quotient, LegacyConstants DEF Period
<1> QED
  BY <1>2 DEF Key, Daily

LEMMA Reached ==
    ASSUME TypeOK, NEW s \in SUBSET Recipient, Reach(s)
    PROVE  /\ copies' \in [Key -> [Recipient -> 0..2]]
           /\ \A k \in Key \ {mailing} : copies'[k] = copies[k]
           /\ \A r \in Recipient :
                copies'[mailing][r] = IF r \in s /\ copies[mailing][r] < 2
                                      THEN copies[mailing][r] + 1
                                      ELSE copies[mailing][r]
<1> DEFINE new == [r \in Recipient |-> IF r \in s /\ copies[mailing][r] < 2
                                       THEN copies[mailing][r] + 1
                                       ELSE copies[mailing][r]]
<1>1. mailing \in Key /\ copies \in [Key -> [Recipient -> 0..2]]
  BY DEF TypeOK
<1>2. new \in [Recipient -> 0..2]
  BY <1>1
<1>3. copies' = [copies EXCEPT ![mailing] = new]
  BY <1>1 DEF Reach
<1> QED
  BY <1>1, <1>2, <1>3

-----------------------------------------------------------------------------
(* Types. *)

LEMMA TypeInit == Init => TypeOK
<1> SUFFICES ASSUME Init PROVE TypeOK
  OBVIOUS
<1>1. clock \in 0..Over /\ now \in 0..Late /\ last \in -Interval..Late
  BY Slots DEF Init
<1>2. mailing \in Key /\ attempt \in Nat \ {0} /\ pc \in PC
  BY DEF Init, Key, PC
<1>3. parts \in [Window -> SUBSET Line] /\ copies \in [Key -> [Recipient -> 0..2]]
  BY DEF Init
<1>4. faults \in 0..MaxFaults /\ crashes \in 0..MaxCrashes
  BY LegacyConstants DEF Init
<1> QED
  BY <1>1, <1>2, <1>3, <1>4 DEF Init, TypeOK

\* What a step leaves alone or takes from the little sets it is in.
LEMMA TypeNext == TypeOK /\ [Next]_vars => TypeOK'
<1> SUFFICES ASSUME TypeOK, [Next]_vars PROVE TypeOK'
  OBVIOUS
<1> USE Slots, LegacyConstants
      DEF TypeOK, PC, At, GoTo, Keep, time, round, disk, state, seen
<1>1. CASE UNCHANGED vars
  BY <1>1 DEF vars
<1>2. CASE Tick
  BY <1>2 DEF Tick
<1>3. CASE BeginDue \/ BeginBetween
  <2>1. now' \in 0..Late
    BY <1>3 DEF BeginDue, BeginBetween, Over, Late
  <2>2. pc' \in PC
    BY <1>3 DEF BeginDue, BeginBetween
  <2> QED
    BY <1>3, <2>1, <2>2 DEF BeginDue, BeginBetween
<1>4. CASE CollectClosed
  BY <1>4 DEF CollectClosed
<1>5. CASE Quotes
  <2>1. PICK e \in {now - 1, now} :
            batch' = {[symbol |-> s, at |-> now, event |-> e] : s \in Symbol}
    BY <1>5 DEF Quotes
  <2>2. now \in 0..(Close - 1) /\ e \in -1..(Close - 1)
    BY <1>5 DEF Quotes, Open
  <2>3. batch' \in SUBSET Line
    BY <2>1, <2>2 DEF Line
  <2> QED
    BY <1>5, <2>3 DEF Quotes
<1>6. CASE QuotesEmpty
  BY <1>6 DEF QuotesEmpty, Fault
<1>7. CASE Append
  <2>1. PICK l \in batch : /\ batch' = batch \ {l} /\ fetched' = fetched \cup {l}
                           /\ raw' = IF torn THEN raw ELSE raw \cup {l}
    BY <1>7 DEF Append
  <2>2. batch' \in SUBSET Line /\ fetched' \in SUBSET Line /\ raw' \in SUBSET Line
    BY <2>1
  <2>3. files' \in SUBSET {"raw", "normalized", "metrics", "daily", "quality"}
    BY <1>7 DEF Append
  <2> QED
    BY <1>7, <2>2, <2>3 DEF Append
<1>25. CASE Appended
  BY <1>25 DEF Appended
<1>8. CASE CollectFails
  <2>1. errors' \in SUBSET Failing
    BY <1>8 DEF CollectFails, Record, Failing
  <2>2. pc' \in PC /\ attempt' \in Nat \ {0}
    BY <1>8 DEF CollectFails
  <2>4. torn' \in BOOLEAN
    BY <1>8, Zenon DEF CollectFails
  <2>5. bad' \in BOOLEAN
    BY <1>8, <2>4, Zenon DEF CollectFails
  <2>6. files' \in SUBSET {"raw", "normalized", "metrics", "daily", "quality"}
    BY <1>8 DEF CollectFails
  <2>3. faults' \in 0..MaxFaults
    BY <1>8 DEF CollectFails, Fault
  <2> QED
    BY <1>8, <2>1, <2>2, <2>3, <2>4, <2>5, <2>6 DEF CollectFails, Fault, Record
<1>9. CASE Normalize
  BY <1>9 DEF Normalize
<1>10. CASE NormalizeFails
  BY <1>10 DEF NormalizeFails, Fault, Record, Failing
<1>11. CASE Intraday
  <2>1. mailing' \in Key
    BY <1>11, PeriodIsKey DEF Intraday, IntradayDue
  <2>2. missed' \in SUBSET Key
    BY <1>11, PeriodIsKey DEF Intraday, IntradayDue
  <2> QED
    BY <1>11, <2>1, <2>2 DEF Intraday
<1>12. CASE IntradaySkipped
  BY <1>12 DEF IntradaySkipped
<1>13. CASE Send
  <2>1. copies' \in [Key -> [Recipient -> 0..2]]
    BY <1>13, Reached DEF Send
  <2> QED
    BY <1>13, <2>1 DEF Send
<1>14. CASE SendFails
  <2>1. copies' \in [Key -> [Recipient -> 0..2]]
    BY <1>14, Reached DEF SendFails
  <2>2. pc' \in PC /\ attempt' \in Nat \ {0} /\ faults' \in 0..MaxFaults
    BY <1>14 DEF SendFails, Fault
  <2> QED
    BY <1>14, <2>1, <2>2 DEF SendFails, Fault, Trouble
<1>15. CASE Mark
  <2>1. mailing' \in Key /\ sent' \in SUBSET Key /\ failed' \in SUBSET Key
    BY <1>15 DEF Mark, Key
  <2>2. pc' \in PC /\ last' \in -Interval..Late
    BY <1>15 DEF Mark
  <2> QED
    BY <1>15, <2>1, <2>2 DEF Mark
<1>16. CASE NextWindow
  <2>1. PICK w \in Ended \ built :
            parts' = [parts EXCEPT ![w] = Lines(w)] /\ built' = built \cup {w}
    BY <1>16 DEF NextWindow
  <2>2. w \in Window /\ Lines(w) \in SUBSET Line
    BY <2>1 DEF Ended, Lines
  <2> QED
    BY <1>16, <2>1, <2>2 DEF NextWindow
<1>17. CASE WindowsDone
  BY <1>17 DEF WindowsDone
<1>18. CASE WindowsFail
  <2>1. files' \in SUBSET {"raw", "normalized", "metrics", "daily", "quality"}
    BY <1>18 DEF WindowsFail
  <2> QED
    BY <1>18, <2>1 DEF WindowsFail, Fault, Record, Failing
<1>19. CASE DailySkipped \/ DailyThere \/ DailyMailed
  BY <1>19 DEF DailySkipped, DailyThere, DailyMailed
<1>20. CASE BuildDaily
  <2>1. daily' \in SUBSET Line
    BY <1>20 DEF BuildDaily
  <2> QED
    BY <1>20, <2>1 DEF BuildDaily
<1>21. CASE BuildQuality
  BY <1>21 DEF BuildQuality
<1>22. CASE DailyFails
  BY <1>22 DEF DailyFails, Fault, Record, Failing
<1>23. CASE DailyMail
  BY <1>23 DEF DailyMail, Key
<1>24. CASE Crash
  <2>1. mailing' \in Key
    BY <1>24 DEF Crash, Key
  <2>2. copies' \in [Key -> [Recipient -> 0..2]] /\ troubled' \in SUBSET Key
    BY <1>24, Reached DEF Crash, Trouble
  <2>3. torn' \in BOOLEAN
    BY <1>24, Zenon DEF Crash
  <2>5. bad' \in BOOLEAN
    BY <1>24, <2>3, Zenon DEF Crash
  <2>6. files' \in SUBSET {"raw", "normalized", "metrics", "daily", "quality"}
    BY <1>24 DEF Crash
  <2>7. /\ ok' \in BOOLEAN
        /\ UNCHANGED <<clock, faults, raw, norm, parts, built, daily, state, fetched, missed>>
    BY <1>24, Zenon DEF Crash
  <2>4. pc' \in PC /\ now' \in 0..Late /\ last' \in -Interval..Late
        /\ crashes' \in 0..MaxCrashes
    BY <1>24 DEF Crash
  <2>8. batch' = {} /\ attempt' = 1
    BY <1>24, Zenon DEF Crash
  <2>9. batch' \in SUBSET Line /\ attempt' \in Nat \ {0}
    BY <2>8
  <2> QED
    BY <2>1, <2>2, <2>3, <2>4, <2>5, <2>6, <2>7, <2>9
<1> QED
  BY <1>1, <1>2, <1>3, <1>4, <1>5, <1>6, <1>7, <1>8, <1>9, <1>10, <1>11, <1>12,
     <1>13, <1>14, <1>15, <1>16, <1>17, <1>18, <1>19, <1>20, <1>21, <1>22, <1>23,
     <1>24, <1>25
     DEF Next, Step, Failure

\* Every variable keeps its type through every round, failure and restart.
THEOREM LegacyTypeCorrect == Spec => []TypeOK
BY TypeInit, TypeNext, PTL DEF Spec

-----------------------------------------------------------------------------
(* The mails.                                                                *)

\* While a mail is under way it is not marked; who is about to mark it as sent
\* has reached everyone; and what nobody has marked and no attempt has failed of
\* has reached nobody, unless it is about to be marked.
MailInv ==
    /\ pc \in {"send", "mark"} => mailing \notin sent
    /\ pc = "mark" /\ ok => \A r \in Recipient : copies[mailing][r] >= 1
    /\ pc = "mark" /\ ~ok => mailing \in troubled
    /\ \A k \in Key \ (sent \cup troubled) :
            (pc = "mark" /\ mailing = k) \/ \A r \in Recipient : copies[k][r] = 0
    /\ \A k \in Key \ troubled : \A r \in Recipient : copies[k][r] <= 1
    /\ SentIsDelivered

mails == <<copies, sent, troubled>>

LEMMA MailInit == Init => MailInv
BY DEF Init, MailInv, SentIsDelivered

LEMMA MailStill ==
    ASSUME MailInv, UNCHANGED mails, pc # "mark", pc' \notin {"send", "mark"}
    PROVE  MailInv'
BY DEF MailInv, SentIsDelivered, mails

\* A mail is begun that is not marked.
LEMMA MailBegins ==
    ASSUME MailInv, UNCHANGED mails, pc # "mark", pc' = "send", mailing' \notin sent
    PROVE  MailInv'
BY DEF MailInv, SentIsDelivered, mails

\* An attempt that fails or is cut off.
LEMMA MailTroubled ==
    ASSUME TypeOK, MailInv, pc = "send", Trouble, UNCHANGED sent, ok' = FALSE,
           NEW s \in SUBSET Recipient, Reach(s),
           pc' = "idle" \/ (pc' \in {"send", "mark"} /\ mailing' = mailing)
    PROVE  MailInv'
<1>1. mailing \in Key /\ copies \in [Key -> [Recipient -> 0..2]]
  BY DEF TypeOK
<1>2. \A k \in Key \ troubled' : k # mailing /\ copies'[k] = copies[k]
  BY Reached DEF Trouble
<1>3. \A k \in sent : k # mailing /\ copies'[k] = copies[k]
  BY Reached DEF MailInv, TypeOK
<1>4. SentIsDelivered'
  BY <1>3 DEF SentIsDelivered, MailInv
<1>5. \A k \in Key \ (sent' \cup troubled') : \A r \in Recipient : copies'[k][r] = 0
  BY <1>2 DEF MailInv, Trouble
<1>6. \A k \in Key \ troubled' : \A r \in Recipient : copies'[k][r] <= 1
  BY <1>2 DEF MailInv, Trouble
<1>7. mailing \in troubled' /\ mailing \notin sent'
  BY DEF Trouble, MailInv
<1> QED
  BY <1>4, <1>5, <1>6, <1>7 DEF MailInv

LEMMA MailNext == TypeOK /\ MailInv /\ [Next]_vars => MailInv'
<1> SUFFICES ASSUME TypeOK, MailInv, [Next]_vars PROVE MailInv'
  OBVIOUS
<1> USE DEF At, GoTo, Keep, Record, Fault, round, state, seen
<1>1. CASE UNCHANGED vars \/ Tick
  BY <1>1 DEF vars, Tick, MailInv, SentIsDelivered
<1>2. CASE Send
  <2>1. /\ mailing' = mailing /\ sent' = sent /\ troubled' = troubled
        /\ pc = "send" /\ pc' = "mark" /\ ok'
    BY <1>2 DEF Send
  <2>2. /\ \A k \in Key \ {mailing} : copies'[k] = copies[k]
        /\ \A r \in Recipient :
              copies'[mailing][r] = IF copies[mailing][r] < 2
                                    THEN copies[mailing][r] + 1
                                    ELSE copies[mailing][r]
    BY <1>2, Reached DEF Send
  <2>3. /\ mailing \in Key /\ mailing \notin sent
        /\ \A r \in Recipient : copies[mailing][r] \in 0..2
    BY <2>1 DEF TypeOK, MailInv
  <2>4. \A r \in Recipient : copies'[mailing][r] >= 1
    BY <2>2, <2>3
  <2>5. mailing \notin troubled => \A r \in Recipient : copies'[mailing][r] = 1
    BY <2>1, <2>2, <2>3 DEF MailInv
  <2>6. SentIsDelivered'
    BY <2>1, <2>2, <2>3 DEF MailInv, SentIsDelivered, TypeOK
  <2>7. \A k \in Key \ (sent \cup troubled) :
            mailing = k \/ \A r \in Recipient : copies'[k][r] = 0
    BY <2>1, <2>2 DEF MailInv
  <2>8. \A k \in Key \ troubled : \A r \in Recipient : copies'[k][r] <= 1
    BY <2>2, <2>5 DEF MailInv
  <2> QED
    BY <2>1, <2>3, <2>4, <2>6, <2>7, <2>8 DEF MailInv
<1>3. CASE SendFails
  BY <1>3, MailTroubled DEF SendFails
<1>4. CASE Mark
  <2>1. /\ pc = "mark" /\ pc' \notin {"send", "mark"} /\ copies' = copies
        /\ troubled' = troubled /\ mailing \in Key
    BY <1>4 DEF Mark, TypeOK
  <2>2. CASE ok
    <3>1. sent' = sent \cup {mailing}
      BY <1>4, <2>2 DEF Mark
    <3> QED
      BY <2>1, <2>2, <3>1 DEF MailInv, SentIsDelivered
  <2>3. CASE ~ok
    <3>1. sent' = sent
      BY <1>4, <2>3 DEF Mark
    <3> QED
      BY <2>1, <2>3, <3>1 DEF MailInv, SentIsDelivered
  <2> QED
    BY <2>2, <2>3
<1>5. CASE Intraday
  BY <1>5, MailBegins DEF Intraday, IntradayDue, mails
<1>6. CASE DailyMail
  BY <1>6, MailBegins DEF DailyMail, MailDue, mails
<1>7. CASE Crash
  <2>1. pc' = "idle" /\ sent' = sent /\ ok' = FALSE
    BY <1>7 DEF Crash
  <2>2. CASE pc = "send"
    BY <1>7, <2>1, <2>2, MailTroubled DEF Crash
  <2>3. CASE pc = "mark"
    <3>1. troubled' = troubled \cup {mailing} /\ copies' = copies
      BY <1>7, <2>3 DEF Crash, Trouble
    <3> QED
      BY <2>1, <2>3, <3>1 DEF MailInv, SentIsDelivered
  <2>4. CASE pc \notin {"send", "mark"}
    BY <1>7, <2>1, <2>4, MailStill DEF Crash, mails
  <2> QED
    BY <2>2, <2>3, <2>4
<1>8. CASE BeginDue \/ BeginBetween
  BY <1>8, MailStill DEF BeginDue, BeginBetween, mails
<1>9. CASE CollectClosed \/ Quotes \/ QuotesEmpty \/ Append \/ Appended
  BY <1>9, MailStill DEF CollectClosed, Quotes, QuotesEmpty, Append, Appended, mails
<1>10. CASE CollectFails
  BY <1>10, MailStill DEF CollectFails, mails
<1>11. CASE Normalize \/ NormalizeFails \/ IntradaySkipped
  BY <1>11, MailStill DEF Normalize, NormalizeFails, IntradaySkipped, mails
<1>12. CASE NextWindow \/ WindowsDone \/ WindowsFail
  BY <1>12, MailStill DEF NextWindow, WindowsDone, WindowsFail, mails
<1>13. CASE DailySkipped \/ DailyThere \/ BuildDaily \/ BuildQuality
  BY <1>13, MailStill DEF DailySkipped, DailyThere, BuildDaily, BuildQuality, mails
<1>14. CASE DailyFails \/ DailyMailed
  BY <1>14, MailStill DEF DailyFails, DailyMailed, mails
<1> QED
  BY <1>1, <1>2, <1>3, <1>4, <1>5, <1>6, <1>7, <1>8, <1>9, <1>10, <1>11, <1>12,
     <1>13, <1>14
     DEF Next, Step, Failure

LEMMA MailsAreAccountedFor == TypeOK /\ MailInv => MailsAreAccounted
<1> SUFFICES ASSUME TypeOK, MailInv, NEW k \in Key \ troubled, NEW r \in Recipient
             PROVE  copies[k][r] # 2
  BY DEF MailInv, MailsAreAccounted, NoNeedlessCopy
<1> QED
  BY DEF MailInv, TypeOK

\* A mail that is marked sent has reached everyone, and a second copy is owed to
\* an attempt that failed or a crash.
THEOREM MailsAccounted == Spec => []MailsAreAccounted
BY TypeInit, TypeNext, MailInit, MailNext, MailsAreAccountedFor, PTL DEF Spec

-----------------------------------------------------------------------------
(* The lines.                                                                *)

Fresh == {"intraday", "send", "mark", "windows", "daily", "quality", "mail"}
Told  == errors \cap {"normalize", "metrics"} # {}

\* The raw file has the lines that were fetched,
RawInv ==
    /\ "raw" \notin files => raw = {} /\ norm = {}
    /\ ~bad => fetched = raw /\ ~torn
    /\ pc = "append" => Open /\ \A l \in batch : l.at = now

\* the normalized file has those of the raw one from the normalization of a
\* round to the next collection,
NormInv ==
    /\ last = -Interval \/ last >= 0
    /\ pc \in Fresh \/ (pc = "idle" /\ last >= 0) =>
            Told \/ (norm = raw /\ ("raw" \in files => "normalized" \in files))

\* the file of a window has those that came before its end, which is past,
WindowInv ==
    /\ now <= clock
    /\ \A w \in built : End(w) <= clock /\ (pc # "idle" => End(w) <= now)
    /\ Told \/ bad \/ \A w \in built : \A l \in fetched :
            WindowOf(l) = w /\ l.at < End(w) => l \in parts[w]
    /\ pc = "daily" => Told \/ "normalized" \notin files \/ Ended \subseteq built

\* and the file of the day has those of its windows.
DailyInv ==
    /\ pc \in {"quality", "mail"} => "daily" \in files
    /\ "daily" \in files =>
            /\ clock >= Late /\ (pc # "idle" => now = Late)
            /\ Told \/ bad \/ \A l \in fetched : InTime(l) => l \in daily

LossInv == RawInv /\ NormInv /\ WindowInv /\ DailyInv /\ LossIsTold

LEMMA WindowsEndByTheClose ==
    ASSUME NEW w \in Window PROVE End(w) \in Nat /\ End(w) <= Close
<1>1. w \in Nat /\ w <= Windows /\ Windows \in Nat /\ WindowSlots \in Nat
  BY LegacyConstants DEF Window
<1> QED
  BY <1>1 DEF End, Close

LEMMA LossInit == Init => LossInv
<1> SUFFICES ASSUME Init PROVE LossInv
  OBVIOUS
<1>1. RawInv /\ DailyInv /\ LossIsTold
  BY DEF Init, RawInv, DailyInv, LossIsTold
<1>2. NormInv
  BY Slots DEF Init, NormInv, Fresh
<1>3. WindowInv
  BY Slots DEF Init, WindowInv
<1> QED
  BY <1>1, <1>2, <1>3 DEF LossInv

\* Errors are never taken back.
LEMMA ToldIsKept == [Next]_vars /\ Told => Told'
<1> SUFFICES ASSUME [Next]_vars PROVE errors \subseteq errors'
  BY DEF Told
<1> USE DEF state, Record
<1>1. CASE UNCHANGED vars \/ Tick \/ BeginDue \/ BeginBetween \/ Crash
  BY <1>1 DEF vars, Tick, BeginDue, BeginBetween, Crash
<1>2. CASE Step
  BY <1>2 DEF Step, CollectClosed, Quotes, Append, Appended, Normalize, Intraday,
     IntradaySkipped, Send, Mark, NextWindow, WindowsDone, DailySkipped, DailyThere,
     BuildDaily, BuildQuality, DailyMail, DailyMailed
<1>3. CASE Failure
  BY <1>3 DEF Failure, QuotesEmpty, CollectFails, NormalizeFails, SendFails,
     WindowsFail, DailyFails
<1> QED
  BY <1>1, <1>2, <1>3 DEF Next

LEMMA RawNext == TypeOK /\ RawInv /\ [Next]_vars => RawInv'
<1> SUFFICES ASSUME TypeOK, RawInv, [Next]_vars PROVE RawInv'
  OBVIOUS
<1> USE DEF RawInv, At, GoTo, Keep, Record, Fault, round, disk, seen, state, time
<1>1. CASE UNCHANGED vars \/ Tick
  BY <1>1 DEF vars, Tick, Open
<1>2. CASE Quotes
  BY <1>2 DEF Quotes, Open
<1>3. CASE Append
  BY <1>3 DEF Append, Open
<1>4. CASE CollectFails
  BY <1>4 DEF CollectFails
<1>5. CASE Crash
  BY <1>5 DEF Crash
<1>6. CASE Normalize
  BY <1>6 DEF Normalize
<1>7. CASE BeginDue \/ BeginBetween
  BY <1>7 DEF BeginDue, BeginBetween
<1>8. CASE \/ CollectClosed \/ QuotesEmpty \/ Appended \/ NormalizeFails \/ Intraday
           \/ IntradaySkipped \/ Send \/ SendFails \/ Mark
  BY <1>8 DEF CollectClosed, QuotesEmpty, Appended, NormalizeFails, Intraday,
     IntradaySkipped, Send, SendFails, Mark
<1>9. CASE \/ NextWindow \/ WindowsDone \/ WindowsFail \/ DailySkipped \/ DailyThere
           \/ BuildDaily \/ BuildQuality \/ DailyFails \/ DailyMail \/ DailyMailed
  BY <1>9 DEF NextWindow, WindowsDone, WindowsFail, DailySkipped, DailyThere,
     BuildDaily, BuildQuality, DailyFails, DailyMail, DailyMailed
<1> QED
  BY <1>1, <1>2, <1>3, <1>4, <1>5, <1>6, <1>7, <1>8, <1>9 DEF Next, Step, Failure

LEMMA NormNext == TypeOK /\ RawInv /\ NormInv /\ [Next]_vars => NormInv'
<1> SUFFICES ASSUME TypeOK, RawInv, NormInv, [Next]_vars PROVE NormInv'
  OBVIOUS
<1> USE Slots
      DEF NormInv, Told, Fresh, TypeOK, PC, At, GoTo, Keep, Record, Fault, round, disk,
          seen, state, time
<1>1. CASE UNCHANGED vars \/ Tick
  BY <1>1 DEF vars, Tick
<1>2. CASE BeginDue
  BY <1>2 DEF BeginDue
<1>3. CASE BeginBetween
  BY <1>3 DEF BeginBetween
<1>4. CASE CollectClosed \/ Quotes \/ QuotesEmpty \/ Appended
  BY <1>4 DEF CollectClosed, Quotes, QuotesEmpty, Appended
<1>5. CASE Append \/ CollectFails
  BY <1>5 DEF Append, CollectFails
<1>6. CASE Normalize
  BY <1>6 DEF Normalize, RawInv
<1>7. CASE NormalizeFails
  BY <1>7 DEF NormalizeFails
<1>8. CASE Intraday \/ IntradaySkipped
  BY <1>8 DEF Intraday, IntradaySkipped
<1>9. CASE Send \/ SendFails
  BY <1>9 DEF Send, SendFails
<1>10. CASE Mark
  BY <1>10 DEF Mark
<1>11. CASE NextWindow \/ WindowsDone \/ WindowsFail
  BY <1>11 DEF NextWindow, WindowsDone, WindowsFail
<1>12. CASE \/ DailySkipped \/ DailyThere \/ BuildDaily \/ BuildQuality \/ DailyFails
            \/ DailyMail \/ DailyMailed
  BY <1>12 DEF DailySkipped, DailyThere, BuildDaily, BuildQuality, DailyFails,
     DailyMail, DailyMailed
<1>13. CASE Crash
  BY <1>13 DEF Crash
<1> QED
  BY <1>1, <1>2, <1>3, <1>4, <1>5, <1>6, <1>7, <1>8, <1>9, <1>10, <1>11, <1>12,
     <1>13
     DEF Next, Step, Failure


LEMMA WindowNext ==
    TypeOK /\ RawInv /\ NormInv /\ WindowInv /\ [Next]_vars => WindowInv'
<1> SUFFICES ASSUME TypeOK, RawInv, NormInv, WindowInv, [Next]_vars PROVE WindowInv'
  OBVIOUS
<1> USE Slots
      DEF WindowInv, At, GoTo, Keep, Record, Fault, round, disk, seen, state, time
<1>0. /\ now \in Nat /\ clock \in Nat /\ built \subseteq Window
      /\ \A w \in Window : End(w) \in Nat
  BY WindowsEndByTheClose DEF TypeOK
<1>1. CASE UNCHANGED vars \/ Tick
  BY <1>0, <1>1 DEF vars, Tick, Told, Ended
<1>2. CASE BeginDue \/ BeginBetween
  BY <1>0, <1>2 DEF BeginDue, BeginBetween, Told
<1>3. CASE CollectClosed \/ Quotes \/ QuotesEmpty \/ Appended
  BY <1>0, <1>3 DEF CollectClosed, Quotes, QuotesEmpty, Appended, Told
<1>4. CASE Append
  <2>1. PICK l \in batch : fetched' = fetched \cup {l}
    BY <1>4 DEF Append
  <2>2. \A w \in built : ~(l.at < End(w))
    BY <1>0, <1>4, <2>1 DEF Append, RawInv
  <2> QED
    BY <1>0, <1>4, <2>1, <2>2 DEF Append, Told
<1>5. CASE CollectFails
  <2>1. bad => bad'
    BY <1>5 DEF CollectFails
  <2>2. Told => Told'
    BY ToldIsKept
  <2> QED
    BY <1>0, <1>5, <2>1, <2>2 DEF CollectFails
<1>6. CASE Normalize \/ NormalizeFails
  BY <1>0, <1>6 DEF Normalize, NormalizeFails, Told
<1>7. CASE Intraday \/ IntradaySkipped
  BY <1>0, <1>7 DEF Intraday, IntradaySkipped, Told
<1>8. CASE Send \/ SendFails \/ Mark
  BY <1>0, <1>8 DEF Send, SendFails, Mark, Told
<1>9. CASE NextWindow
  <2>1. PICK w \in Ended \ built :
            parts' = [parts EXCEPT ![w] = Lines(w)] /\ built' = built \cup {w}
    BY <1>9 DEF NextWindow
  <2>2. /\ w \in Window /\ End(w) <= now
        /\ parts'[w] = Lines(w) /\ \A v \in built : parts'[v] = parts[v]
    BY <2>1, <1>0 DEF Ended, TypeOK
  <2>3. /\ pc = "windows" /\ pc' = "windows" /\ bad' = bad /\ fetched' = fetched
        /\ now' = now /\ clock' = clock /\ errors' = errors
    BY <1>9 DEF NextWindow
  <2>4. Told \/ bad \/ \A l \in fetched : WindowOf(l) = w => l \in parts'[w]
    BY <2>2, <2>3 DEF NormInv, Fresh, RawInv, Lines
  <2>5. Told' <=> Told
    BY <2>3 DEF Told
  <2> QED
    BY <1>0, <2>1, <2>2, <2>3, <2>4, <2>5
<1>10. CASE WindowsDone
  BY <1>0, <1>10 DEF WindowsDone, Told, Ended
<1>11. CASE WindowsFail
  BY <1>0, <1>11 DEF WindowsFail, Told
<1>12. CASE \/ DailySkipped \/ DailyThere \/ BuildDaily \/ BuildQuality \/ DailyFails
            \/ DailyMail \/ DailyMailed
  BY <1>0, <1>12 DEF DailySkipped, DailyThere, BuildDaily, BuildQuality, DailyFails,
     DailyMail, DailyMailed, Told
<1>13. CASE Crash
  <2>1. bad => bad'
    BY <1>13 DEF Crash
  <2>2. Told => Told'
    BY ToldIsKept
  <2> QED
    BY <1>0, <1>13, <2>1, <2>2 DEF Crash
<1> QED
  BY <1>1, <1>2, <1>3, <1>4, <1>5, <1>6, <1>7, <1>8, <1>9, <1>10, <1>11, <1>12,
     <1>13
     DEF Next, Step, Failure

LEMMA DailyNext == TypeOK /\ RawInv /\ NormInv /\ WindowInv /\ DailyInv /\ [Next]_vars
                        => DailyInv'
<1> SUFFICES ASSUME TypeOK, RawInv, NormInv, WindowInv, DailyInv, [Next]_vars
             PROVE  DailyInv'
  OBVIOUS
<1> USE Slots
      DEF DailyInv, At, GoTo, Keep, Record, Fault, round, disk, seen, state, time
<1>0. now \in Nat /\ clock \in Nat /\ Over = Late + 1
  BY DEF TypeOK, Over, Late
<1>1. CASE UNCHANGED vars \/ Tick
  BY <1>0, <1>1 DEF vars, Tick, Told, InTime
<1>2. CASE BeginDue \/ BeginBetween
  BY <1>0, <1>2 DEF BeginDue, BeginBetween, Told
<1>3. CASE CollectClosed \/ Quotes \/ QuotesEmpty \/ Appended
  BY <1>0, <1>3 DEF CollectClosed, Quotes, QuotesEmpty, Appended, Told
<1>4. CASE Append
  <2>1. "daily" \notin files /\ files' = files \cup {"raw"}
    BY <1>0, <1>4 DEF Append, RawInv, Open
  <2> QED
    BY <1>4, <2>1 DEF Append
<1>5. CASE CollectFails
  <2>1. bad => bad'
    BY <1>5 DEF CollectFails
  <2>2. Told => Told'
    BY ToldIsKept
  <2>3. pc' \in {"collect", "normalize"} /\ ("daily" \in files' => "daily" \in files)
    BY <1>5 DEF CollectFails
  <2> QED
    BY <1>5, <2>1, <2>2, <2>3 DEF CollectFails
<1>6. CASE Normalize \/ NormalizeFails
  BY <1>0, <1>6 DEF Normalize, NormalizeFails, Told
<1>7. CASE Intraday \/ IntradaySkipped
  BY <1>0, <1>7 DEF Intraday, IntradaySkipped, Told
<1>8. CASE Send \/ SendFails \/ Mark
  BY <1>0, <1>8 DEF Send, SendFails, Mark, Told
<1>9. CASE NextWindow \/ WindowsDone
  BY <1>0, <1>9 DEF NextWindow, WindowsDone, Told
<1>10. CASE WindowsFail
  BY <1>0, <1>10 DEF WindowsFail, Told
<1>11. CASE BuildDaily
  <2>1. /\ pc = "daily" /\ pc' = "quality" /\ now = Late /\ now' = now
        /\ clock' = clock /\ bad' = bad /\ fetched' = fetched
        /\ errors' = errors /\ files' = files \cup {"daily"}
        /\ daily' = UNION {parts[w] : w \in built}
    BY <1>11 DEF BuildDaily, DailyDue
  <2>2. Window \subseteq Ended
    BY <2>1, WindowsEndByTheClose DEF Ended
  <2>3. ASSUME ~Told, ~bad, NEW l \in fetched, InTime(l) PROVE l \in daily'
    <3>1. CASE "normalized" \notin files
      BY <2>1, <2>3, <3>1 DEF NormInv, RawInv, Fresh
    <3>2. CASE "normalized" \in files
      <4>1. WindowOf(l) \in built /\ l.at < End(WindowOf(l))
        BY <2>1, <2>2, <2>3, <3>2 DEF WindowInv, InTime
      <4>2. l \in parts[WindowOf(l)]
        BY <2>3, <4>1 DEF WindowInv
      <4> QED
        BY <2>1, <4>1, <4>2
    <3> QED
      BY <3>1, <3>2
  <2>4. Told' <=> Told
    BY <2>1 DEF Told
  <2> QED
    BY <1>0, <2>1, <2>3, <2>4 DEF WindowInv
<1>12. CASE \/ DailySkipped \/ DailyThere \/ BuildQuality \/ DailyFails
            \/ DailyMail \/ DailyMailed
  BY <1>0, <1>12 DEF DailySkipped, DailyThere, DailyMade, BuildQuality, DailyFails,
     DailyMail, DailyMailed, Told
<1>13. CASE Crash
  <2>1. bad => bad'
    BY <1>13 DEF Crash
  <2>2. Told => Told'
    BY ToldIsKept
  <2>3. pc' = "idle" /\ ("daily" \in files' => "daily" \in files)
    BY <1>13 DEF Crash
  <2> QED
    BY <1>13, <2>1, <2>2, <2>3 DEF Crash
<1> QED
  BY <1>1, <1>2, <1>3, <1>4, <1>5, <1>6, <1>7, <1>8, <1>9, <1>10, <1>11, <1>12,
     <1>13
     DEF Next, Step, Failure

LEMMA LossNext == TypeOK /\ LossInv /\ [Next]_vars => LossInv'
<1> SUFFICES ASSUME TypeOK, LossInv, [Next]_vars PROVE LossInv'
  OBVIOUS
<1> USE DEF LossInv
<1>1. RawInv' /\ NormInv' /\ WindowInv' /\ DailyInv'
  BY RawNext, NormNext, WindowNext, DailyNext
<1>2. Told' \/ missed' = missed
  <2> USE DEF seen
  <2>1. CASE Intraday
    BY <2>1 DEF Intraday, IntradayDue, NormInv, Fresh, Told, state
  <2>2. CASE DailyMail
    BY <2>2 DEF DailyMail, DailyInv, Told, state
  <2>3. CASE UNCHANGED vars \/ Tick \/ BeginDue \/ BeginBetween \/ Crash
    BY <2>3 DEF vars, Tick, BeginDue, BeginBetween, Crash
  <2>4. CASE Step /\ ~Intraday /\ ~DailyMail
    BY <2>4 DEF Step, CollectClosed, Quotes, Append, Appended, Normalize,
       IntradaySkipped, Send, Mark, NextWindow, WindowsDone, DailySkipped,
       DailyThere, BuildDaily, BuildQuality, DailyMailed
  <2>5. CASE Failure
    BY <2>5 DEF Failure, QuotesEmpty, CollectFails, NormalizeFails, SendFails,
       WindowsFail, DailyFails
  <2> QED
    BY <2>1, <2>2, <2>3, <2>4, <2>5 DEF Next
<1>3. LossIsTold'
  <2>1. missed # {} => Told
    BY DEF LossIsTold, Told
  <2> QED
    BY <1>2, <2>1, ToldIsKept DEF LossIsTold, Told
<1> QED
  BY <1>1, <1>3

\* A mail that leaves out lines is a mail of a day with a recorded error, or
\* with a line that cannot be parsed.
THEOREM LossesAreTold == Spec => []LossIsTold
<1>1. Init => TypeOK /\ LossInv
  BY TypeInit, LossInit
<1>2. TypeOK /\ LossInv /\ [Next]_vars => (TypeOK /\ LossInv)'
  BY TypeNext, LossNext
<1>3. LossInv => LossIsTold
  BY DEF LossInv
<1> QED
  BY <1>1, <1>2, <1>3, PTL DEF Spec


-----------------------------------------------------------------------------
(* The day. *)

EndInv ==
    /\ "quality" \in files => "daily" \in files
    /\ pc = "quality" => {"daily", "quality"} \cap files = {"daily"}
    /\ pc = "idle" /\ now = Late =>
            Daily \in sent \cup failed \/ "metrics" \notin files \/ ~DailyMade

LEMMA EndInit == Init => EndInv
BY Slots DEF Init, EndInv

LEMMA EndNext == TypeOK /\ EndInv /\ [Next]_vars => EndInv'
<1> SUFFICES ASSUME TypeOK, EndInv, [Next]_vars PROVE EndInv'
  OBVIOUS
<1> USE DEF EndInv, DailyMade, At, GoTo, Keep, Record, Fault, round, disk, seen, state,
            time
<1>1. CASE UNCHANGED vars \/ Tick
  BY <1>1 DEF vars, Tick
<1>2. CASE BeginDue \/ BeginBetween
  BY <1>2 DEF BeginDue, BeginBetween
<1>3. CASE CollectClosed \/ Quotes \/ QuotesEmpty \/ Append \/ Appended
  BY <1>3 DEF CollectClosed, Quotes, QuotesEmpty, Append, Appended
<1>4. CASE CollectFails
  BY <1>4 DEF CollectFails
<1>5. CASE Normalize \/ NormalizeFails \/ Intraday \/ IntradaySkipped
  BY <1>5 DEF Normalize, NormalizeFails, Intraday, IntradaySkipped
<1>6. CASE Send \/ SendFails
  BY <1>6 DEF Send, SendFails
<1>7. CASE Mark
  <2>1. CASE mailing = Daily
    BY <1>7, <2>1 DEF Mark
  <2>2. CASE mailing # Daily
    BY <1>7, <2>2 DEF Mark
  <2> QED
    BY <2>1, <2>2
<1>8. CASE NextWindow \/ WindowsDone \/ WindowsFail
  BY <1>8 DEF NextWindow, WindowsDone, WindowsFail
<1>9. CASE DailySkipped \/ DailyThere \/ DailyFails
  BY <1>9 DEF DailySkipped, DailyThere, DailyFails, DailyDue
<1>10. CASE BuildDaily \/ BuildQuality
  BY <1>10 DEF BuildDaily, BuildQuality
<1>11. CASE DailyMail \/ DailyMailed
  BY <1>11 DEF DailyMail, DailyMailed, MailDue
<1>12. CASE Crash
  BY <1>12, Slots DEF Crash
<1> QED
  BY <1>1, <1>2, <1>3, <1>4, <1>5, <1>6, <1>7, <1>8, <1>9, <1>10, <1>11, <1>12
     DEF Next, Step, Failure

\* A day whose last round ran to its end is mailed, marked as failed, or
\* critical to daily_check.
THEOREM DaysAreReported == Spec => []DayIsReported
<1>1. Init => TypeOK /\ EndInv
  BY TypeInit, EndInit
<1>2. TypeOK /\ EndInv /\ [Next]_vars => (TypeOK /\ EndInv)'
  BY TypeNext, EndNext
<1>3. EndInv => DayIsReported
  BY DEF EndInv, DayIsReported, DailyMade, Critical, MetricsMissing, DailyMissing,
         QualityMissing
<1> QED
  BY <1>1, <1>2, <1>3, PTL DEF Spec
=============================================================================
