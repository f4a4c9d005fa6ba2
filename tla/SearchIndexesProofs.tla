------------------------- MODULE SearchIndexesProofs -------------------------
(***************************************************************************)
(* Proofs about the derived stores, for any number of bundles, texts,        *)
(* requests, rows and entries: the index of a row follows it, the live feed  *)
(* has no gaps, and a resync of the collection of FAQs that runs alone and   *)
(* without a failure leaves the collection equal to the table.              *)
(***************************************************************************)
EXTENDS SearchIndexes, TLAPS

(* What a step of the whole can be for one of the stores.                    *)
LEMMA OneStoreMoves ==
    ASSUME [SearchNext]_searchVars
    PROVE  [Next]_vars /\ [IndexNext]_indexVars /\ [FeedNext]_feedVars
BY DEF SearchNext, FaqStep, TraceStep, FeedStep, searchVars, vars, indexVars, feedVars

-----------------------------------------------------------------------------
(* The index of a row of a trace                                            *)

Stages == {"none", "look", "add", "record"}

IndexTypes ==
    /\ at \in [Bundles -> {"trace", "events", "results"}]
    /\ text \in [Bundles -> Texts \cup {NoText}]
    /\ task \in [Bundles -> [Documents -> Stages]]
    /\ followed \in {"trace", "result"}
    /\ troubled \in BOOLEAN

(* A bundle's tasks begin after its rows are stored.                        *)
TasksComeLast ==
    \A b \in Bundles : at[b] # "trace" => \A d \in Documents : task[b][d] = "none"

(* Milvus forgets no document: what was recorded is in the collection.       *)
RecordedIsThere ==
    /\ docHash # NoText => docHash \in collection
    /\ \A b \in Bundles, d \in Documents : task[b][d] = "record" => text[b] \in collection

(* Without trouble a bundle has the row to itself; the task that every        *)
(* bundle schedules ends with the row's hash.                               *)
Untroubled ==
    ~troubled =>
        /\ \A b, c \in Bundles : Busy(b) /\ Busy(c) => b = c
        /\ \A b \in Bundles : at[b] # "trace" /\ followed = "trace" => row = text[b]
        /\ \A b \in Bundles : at[b] = "trace" /\ Busy(b) =>
              /\ row = text[b]
              /\ task[b]["first"] = "none" => docHash = row
        /\ row # NoText /\ (\A b \in Bundles : ~Busy(b)) => docHash = row

IndexInv == IndexTypes /\ TasksComeLast /\ RecordedIsThere /\ Untroubled

LEMMA IndexStarts ==
    ASSUME IndexInit
    PROVE  IndexInv
BY DEF IndexInit, IndexInv, IndexTypes, TasksComeLast, RecordedIsThere, Untroubled, Busy, Stages

(* Only a bundle that begins makes another one busy.                        *)
LEMMA StoreTraceStays ==
    ASSUME IndexInv, NEW b \in Bundles, StoreTrace(b)
    PROVE  IndexInv'
<1>1. PICK x \in Texts :
         /\ text' = [text EXCEPT ![b] = x]
         /\ row' = IF followed = "trace" THEN x ELSE row
  BY DEF StoreTrace
<1>2. /\ at' = [at EXCEPT ![b] = "events"] /\ UNCHANGED <<followed, task, docHash, collection>>
      /\ troubled' = \E c \in Bundles \ {b} : Busy(c)
      /\ ~Busy(b)
  BY DEF StoreTrace
<1>3. \A d \in Documents : task[b][d] = "none"
  BY <1>2 DEF Busy
<1>4. IndexTypes' /\ TasksComeLast' /\ RecordedIsThere'
  BY <1>1, <1>2, <1>3 DEF IndexInv, IndexTypes, TasksComeLast, RecordedIsThere
<1>5. Untroubled'
  <2> SUFFICES ASSUME ~troubled' PROVE Untroubled'
    BY DEF Untroubled
  <2>1. \A c \in Bundles : c # b => ~Busy(c) /\ ~Busy(c)'
    BY <1>2 DEF Busy, IndexInv, IndexTypes
  <2>2. Busy(b)' /\ at'[b] = "events"
    BY <1>2 DEF Busy, IndexInv, IndexTypes
  <2>3. \A c \in Bundles : at'[c] # "trace" => c = b
    BY <2>1 DEF Busy
  <2>4. followed' = "trace" => row' = text'[b]
    BY <1>1, <1>2 DEF IndexInv, IndexTypes
  <2> QED BY <2>1, <2>2, <2>3, <2>4 DEF Untroubled
<1> QED BY <1>4, <1>5 DEF IndexInv

(* The steps of a bundle between its first and its last row.                 *)
LEMMA StoringStays ==
    ASSUME IndexInv, NEW b \in Bundles, StoreEvents(b) \/ StoreResults(b) \/ StoreFails(b)
    PROVE  IndexInv'
<1>1. at[b] # "trace" /\ Busy(b) /\ \A d \in Documents : task[b][d] = "none"
  BY DEF StoreEvents, StoreResults, StoreFails, Busy, IndexInv, TasksComeLast
<1>2. CASE StoreEvents(b)
  <2>1. /\ at' = [at EXCEPT ![b] = "results"]
        /\ UNCHANGED <<followed, text, task, row, docHash, collection, troubled>>
    BY <1>2 DEF StoreEvents
  <2>2. IndexTypes' /\ TasksComeLast' /\ RecordedIsThere'
    BY <1>1, <2>1 DEF IndexInv, IndexTypes, TasksComeLast, RecordedIsThere
  <2>3. \A c \in Bundles : /\ Busy(c)' <=> Busy(c)
                           /\ at'[c] # "trace" <=> at[c] # "trace"
    BY <1>1, <2>1 DEF Busy, IndexInv, IndexTypes
  <2>4. Untroubled'
    BY <2>1, <2>3 DEF IndexInv, Untroubled
  <2> QED BY <2>2, <2>4 DEF IndexInv
<1>3. CASE StoreFails(b)
  <2>1. /\ at' = [at EXCEPT ![b] = "trace"] /\ troubled' = TRUE
        /\ UNCHANGED <<followed, text, task, row, docHash, collection>>
    BY <1>3 DEF StoreFails
  <2> QED BY <1>1, <2>1 DEF IndexInv, IndexTypes, TasksComeLast, RecordedIsThere, Untroubled
<1>4. CASE StoreResults(b)
  <2>1. PICK scheduled \in {{"first"}, Documents} :
           task' = [task EXCEPT ![b] = [d \in Documents |-> IF d \in scheduled THEN "look" ELSE "none"]]
    BY <1>4 DEF StoreResults
  <2>2. /\ at' = [at EXCEPT ![b] = "trace"]
        /\ row' = IF followed = "result" THEN text[b] ELSE row
        /\ UNCHANGED <<followed, text, docHash, collection, troubled>>
    BY <1>4 DEF StoreResults
  <2>3. task'[b]["first"] = "look" /\ \A c \in Bundles : c # b => task'[c] = task[c]
    BY <2>1 DEF Documents, IndexInv, IndexTypes
  <2>4. \A d \in Documents : task'[b][d] \in {"look", "none"}
    BY <2>1 DEF IndexInv, IndexTypes
  <2>5. task' \in [Bundles -> [Documents -> Stages]]
    BY <2>1 DEF IndexInv, IndexTypes, Stages
  <2>6. IndexTypes' /\ TasksComeLast' /\ RecordedIsThere'
    <3>1. IndexTypes'
      BY <2>2, <2>5 DEF IndexInv, IndexTypes
    <3>2. TasksComeLast'
      BY <2>2, <2>3 DEF IndexInv, IndexTypes, TasksComeLast
    <3>3. RecordedIsThere'
      BY <2>2, <2>3, <2>4 DEF IndexInv, RecordedIsThere
    <3> QED BY <3>1, <3>2, <3>3
  <2>7. Untroubled'
    <3> SUFFICES ASSUME ~troubled PROVE Untroubled'
      BY <2>2 DEF Untroubled
    <3>1. \A c \in Bundles : c # b => ~Busy(c)
      BY <1>1 DEF IndexInv, Untroubled
    <3>2. \A c \in Bundles : c # b => ~Busy(c)' /\ at'[c] = at[c]
      BY <2>2, <2>3, <3>1 DEF Busy, IndexInv, IndexTypes
    <3>3. Busy(b)' /\ at'[b] = "trace"
      BY <2>2, <2>3 DEF Busy, IndexInv, IndexTypes, Documents
    <3>4. row' = text'[b]
      BY <1>1, <2>2 DEF IndexInv, IndexTypes, Untroubled
    <3>5. \A c \in Bundles : at'[c] = "trace"
      BY <3>2, <3>1, <3>3 DEF Busy
    <3> QED BY <2>3, <3>2, <3>3, <3>4, <3>5 DEF Untroubled
  <2> QED BY <2>6, <2>7 DEF IndexInv
<1> QED BY <1>2, <1>3, <1>4

(* A step of a task, from one stage to the next.                             *)
LEMMA TaskStays ==
    ASSUME ~OneEach, IndexInv, NEW b \in Bundles, NEW d \in Documents,
           Look(b, d) \/ AddDocument(b, d) \/ Record(b, d) \/ EmbedFails(b, d)
    PROVE  IndexInv'
<1>1. /\ task[b][d] # "none" /\ Busy(b) /\ at[b] = "trace"
      /\ UNCHANGED <<followed, at, text, row>>
  BY DEF Look, AddDocument, Record, EmbedFails, Busy, IndexInv, TasksComeLast
<1>2. PICK next \in Stages : task' = [task EXCEPT ![b][d] = next]
  BY DEF Look, AddDocument, Record, EmbedFails, Passes, Stages
<1>3. /\ task'[b][d] = next
      /\ \A c \in Bundles, e \in Documents : c # b \/ e # d => task'[c][e] = task[c][e]
  BY <1>2 DEF IndexInv, IndexTypes
<1>4. IndexTypes'
  <2>1. task' \in [Bundles -> [Documents -> Stages]]
    BY <1>2 DEF IndexInv, IndexTypes
  <2>2. troubled' \in BOOLEAN
    BY DEF Look, AddDocument, Record, EmbedFails, IndexInv, IndexTypes
  <2> QED BY <1>1, <2>1, <2>2 DEF IndexInv, IndexTypes
<1>5. TasksComeLast'
  BY <1>1, <1>3 DEF IndexInv, TasksComeLast
<1>6. /\ collection \subseteq collection'
      /\ next = "record" => text[b] \in collection'
      /\ docHash' = docHash \/ (docHash' = text[b] /\ text[b] \in collection)
  <2>1. CASE Look(b, d)
    BY <2>1, <1>3 DEF Look, Passes, IndexInv, IndexTypes
  <2>2. CASE AddDocument(b, d)
    BY <2>2, <1>3 DEF AddDocument, With
  <2>3. CASE Record(b, d)
    BY <2>3, <1>3 DEF Record, Passes, IndexInv, IndexTypes, RecordedIsThere
  <2>4. CASE EmbedFails(b, d)
    BY <2>4, <1>3 DEF EmbedFails, Passes, IndexInv, IndexTypes
  <2> QED BY <2>1, <2>2, <2>3, <2>4
<1>7. RecordedIsThere'
  BY <1>1, <1>3, <1>6 DEF IndexInv, RecordedIsThere
<1>8. Untroubled'
  <2> SUFFICES ASSUME ~troubled' PROVE Untroubled'
    BY DEF Untroubled
  <2>1. ~troubled /\ ~EmbedFails(b, d)
    BY DEF Look, AddDocument, Record, EmbedFails
  <2>2. \A c \in Bundles : c # b => ~Busy(c) /\ ~Busy(c)'
    <3>1. \A c \in Bundles : c # b => ~Busy(c)
      BY <1>1, <2>1 DEF IndexInv, Untroubled
    <3> QED BY <1>1, <1>3, <3>1 DEF Busy
  <2>3. row = text[b]
    BY <1>1, <2>1 DEF IndexInv, Untroubled
  <2>4. next = "none" => docHash' = text[b]
    BY <2>1, <1>3 DEF Look, AddDocument, Record, Passes, IndexInv, IndexTypes
  <2>5. task'[b]["first"] = "none" => docHash' = row
    <3>1. CASE d = "first"
      BY <3>1, <1>3, <2>3, <2>4
    <3>2. CASE d # "first"
      <4>1. task'[b]["first"] = task[b]["first"]
        BY <3>2, <1>3 DEF Documents
      <4>2. docHash' = docHash \/ docHash' = row
        BY <1>6, <2>3
      <4> QED BY <1>1, <2>1, <4>1, <4>2 DEF IndexInv, Untroubled
    <3> QED BY <3>1, <3>2
  <2>6. ~Busy(b)' => task'[b]["first"] = "none"
    BY DEF Busy, Documents
  <2>7. \A c \in Bundles : at'[c] = "trace"
    BY <1>1, <2>2 DEF Busy
  <2> QED BY <1>1, <2>2, <2>3, <2>5, <2>6, <2>7 DEF Untroubled
<1> QED BY <1>4, <1>5, <1>7, <1>8 DEF IndexInv

LEMMA IndexStays ==
    ASSUME ~OneEach, IndexInv, [IndexNext]_indexVars
    PROVE  IndexInv'
<1>1. CASE UNCHANGED indexVars
  BY <1>1 DEF indexVars, IndexInv, IndexTypes, TasksComeLast, RecordedIsThere, Untroubled, Busy
<1> QED BY <1>1, StoreTraceStays, StoringStays, TaskStays DEF IndexNext

(* With Milvus, for any history of overlapping and failing bundles: the last  *)
(* one that had the row to itself leaves the stored text in the index.       *)
THEOREM RowsAreIndexed ==
    ASSUME ~OneEach
    PROVE  SearchSpec => []IndexFollowsRow
<1>1. SearchInit => IndexInv
  BY IndexStarts DEF SearchInit
<1>2. IndexInv /\ [SearchNext]_searchVars => IndexInv'
  BY OneStoreMoves, IndexStays
<1>3. IndexInv => IndexFollowsRow
  BY DEF IndexInv, Untroubled, RecordedIsThere, IndexFollowsRow
<1> QED BY <1>1, <1>2, <1>3, PTL DEF SearchSpec

-----------------------------------------------------------------------------
(* The live feed. While a connection stands, its cursor is what the browser   *)
(* received last, and what was answered goes on from there.                  *)

LastReceived == received[Len(received)]

FeedTypes ==
    /\ newest \in Nat /\ oldest \in Nat
    /\ stage \in {"closed", "polling", "blocked", "yielding"}
    /\ cursor \in Nat \cup {OnlyNew} /\ after \in Nat
    /\ answered \in Seq(Nat) /\ received \in Seq(Nat)

(* An entry that comes next: what lies between was trimmed.                  *)
Follows(e, f) == e < f /\ e + 1..f - 1 \subseteq trimmed

GoesOn ==
    received # <<>> =>
        /\ stage \in {"polling", "blocked", "yielding"} => cursor = LastReceived
        /\ stage = "blocked" => after = LastReceived
        /\ stage = "yielding" => Follows(LastReceived, answered[1])

AnswersAreWhole ==
    stage = "yielding" =>
        /\ answered # <<>>
        /\ \A i \in 1..Len(answered) - 1 : answered[i + 1] = answered[i] + 1

FeedInv == FeedTypes /\ GoesOn /\ AnswersAreWhole /\ FeedHasNoGaps

LEMMA FeedStarts ==
    ASSUME FeedInit
    PROVE  FeedInv
BY DEF FeedInit, FeedInv, FeedTypes, GoesOn, AnswersAreWhole, FeedHasNoGaps

LEMMA AnswerStays ==
    ASSUME FeedInv, Answer
    PROVE  FeedInv'
<1> DEFINE from == IF after + 1 < oldest THEN oldest ELSE after + 1
           n == IF newest - from + 1 < ReadCount THEN newest - from + 1 ELSE ReadCount
<1>1. from \in Nat /\ after < from
  BY DEF FeedInv, FeedTypes
<1>2. /\ stage = "blocked" /\ after' = 0 /\ UNCHANGED <<newest, oldest, cursor, received>>
  BY DEF Answer
<1>3. CASE from > newest
  <2>1. stage' = "polling" /\ UNCHANGED <<answered, trimmed>>
    BY <1>3 DEF Answer
  <2> QED BY <1>2, <2>1 DEF FeedInv, FeedTypes, GoesOn, AnswersAreWhole, FeedHasNoGaps, LastReceived
<1>4. CASE ~(from > newest)
  <2>1. /\ stage' = "yielding" /\ answered' = [i \in 1..n |-> from + i - 1]
        /\ trimmed' = trimmed \cup after + 1..from - 1
    BY <1>4 DEF Answer
  <2>2. n \in Nat \ {0}
    BY <1>1, <1>4, FeedAssumption DEF FeedInv, FeedTypes
  <2> HIDE DEF from, n
  <2>3. /\ answered' \in Seq(Nat) /\ Len(answered') = n /\ answered' # <<>> /\ answered'[1] = from
        /\ \A i \in 1..n : answered'[i] = from + i - 1
    BY <1>1, <2>1, <2>2
  <2>4. FeedTypes'
    BY <1>2, <2>1, <2>3 DEF FeedInv, FeedTypes
  <2>5. AnswersAreWhole'
    BY <1>1, <2>2, <2>3 DEF AnswersAreWhole
  <2>6. GoesOn'
    <3> SUFFICES ASSUME received # <<>>
                 PROVE  cursor = LastReceived /\ Follows(LastReceived, answered[1])'
      BY <1>2, <2>1 DEF GoesOn, LastReceived
    <3>1. cursor = LastReceived /\ after = LastReceived
      BY <1>2 DEF FeedInv, GoesOn
    <3>2. LastReceived' = LastReceived
      BY <1>2 DEF LastReceived
    <3>3. LastReceived < from /\ LastReceived + 1..from - 1 \subseteq trimmed'
      BY <1>1, <2>1, <3>1
    <3> QED BY <2>3, <3>1, <3>2, <3>3 DEF Follows
  <2>7. FeedHasNoGaps'
    BY <1>2, <2>1 DEF FeedInv, FeedHasNoGaps
  <2> QED BY <2>4, <2>5, <2>6, <2>7 DEF FeedInv
<1> QED BY <1>3, <1>4

LEMMA YieldStays ==
    ASSUME FeedInv, Yield
    PROVE  FeedInv'
<1> DEFINE e == answered[1]
<1>1. /\ stage = "yielding" /\ answered # <<>> /\ answered \in Seq(Nat) /\ received \in Seq(Nat)
      /\ e \in Nat /\ Head(answered) = e
  <2>1. /\ stage = "yielding" /\ answered \in Seq(Nat) /\ received \in Seq(Nat)
        /\ answered # <<>>
    BY DEF Yield, FeedInv, FeedTypes, AnswersAreWhole
  <2> QED BY <2>1
<1>2. /\ cursor' = e /\ received' = Append(received, e) /\ answered' = Tail(answered)
      /\ stage' = IF answered' = <<>> THEN "polling" ELSE "yielding"
      /\ UNCHANGED <<newest, oldest, after, trimmed>>
  BY <1>1 DEF Yield
<1>3. /\ received' \in Seq(Nat) /\ received' # <<>> /\ Len(received') = Len(received) + 1
      /\ LastReceived' = e
      /\ \A i \in 1..Len(received) : received'[i] = received[i]
  <2>1. received' \in Seq(Nat) /\ Len(received') = Len(received) + 1
    BY <1>1, <1>2
  <2>2. received'[Len(received) + 1] = e
    BY <1>1, <1>2
  <2>3. \A i \in 1..Len(received) : received'[i] = received[i]
    BY <1>1, <1>2
  <2>4. received' # <<>>
    BY <1>1, <2>1
  <2> QED BY <2>1, <2>2, <2>3, <2>4 DEF LastReceived
<1>4. /\ answered' \in Seq(Nat) /\ Len(answered') = Len(answered) - 1
      /\ \A i \in 1..Len(answered') : answered'[i] = answered[i + 1]
  BY <1>1, <1>2
<1>5. FeedTypes'
  BY <1>1, <1>2, <1>3, <1>4 DEF FeedInv, FeedTypes
<1>6. AnswersAreWhole'
  BY <1>1, <1>2, <1>4 DEF FeedInv, AnswersAreWhole
<1>7. GoesOn'
  <2> SUFFICES ASSUME answered' # <<>>
               PROVE  Follows(LastReceived, answered[1])'
    BY <1>2, <1>3 DEF GoesOn
  <2>1. Len(answered') >= 1
    BY <1>4
  <2>2. answered'[1] = answered[2] /\ 1 \in 1..Len(answered) - 1
    BY <1>1, <1>4, <2>1
  <2>3. answered'[1] = e + 1
    BY <1>1, <2>2 DEF FeedInv, AnswersAreWhole
  <2>4. LastReceived' = e /\ e + 1..(e + 1) - 1 = {} /\ e < e + 1
    BY <1>1, <1>3
  <2> HIDE DEF e
  <2> QED BY <2>3, <2>4 DEF Follows
<1>8. FeedHasNoGaps'
  <2> SUFFICES ASSUME NEW i \in 1..Len(received)
               PROVE  Follows(received[i], received[i + 1])'
    BY <1>2, <1>3 DEF FeedHasNoGaps, Follows
  <2>1. CASE i = Len(received)
    <3>1. received # <<>> /\ received[i] = LastReceived
      BY <1>1, <2>1 DEF LastReceived
    <3>2. Follows(LastReceived, e)
      BY <1>1, <3>1 DEF FeedInv, GoesOn
    <3>3. received'[i] = LastReceived /\ received'[i + 1] = e
      BY <1>3, <2>1, <3>1 DEF LastReceived
    <3> QED BY <1>2, <3>2, <3>3 DEF Follows
  <2>2. CASE i # Len(received)
    <3>1. i \in 1..Len(received) - 1 /\ i + 1 \in 1..Len(received)
      BY <1>1, <2>2
    <3>2. Follows(received[i], received[i + 1])
      BY <3>1 DEF FeedInv, FeedHasNoGaps, Follows
    <3> QED BY <1>2, <1>3, <3>1, <3>2 DEF Follows
  <2> QED BY <2>1, <2>2
<1> QED BY <1>5, <1>6, <1>7, <1>8 DEF FeedInv

LEMMA FeedStays ==
    ASSUME FeedInv, [FeedNext]_feedVars
    PROVE  FeedInv'
<1>1. CASE PublishLive
  <2>1. newest' \in Nat /\ oldest' \in Nat /\ UNCHANGED <<stage, cursor, after, answered, received, trimmed>>
    BY <1>1 DEF PublishLive, FeedInv, FeedTypes
  <2> QED BY <2>1 DEF FeedInv, FeedTypes, GoesOn, AnswersAreWhole, FeedHasNoGaps, LastReceived, Follows
<1>2. CASE Connect
  <2>1. /\ stage' = "polling" /\ UNCHANGED <<newest, oldest, after, answered, received, trimmed>>
        /\ IF received # <<>> THEN cursor' = LastReceived ELSE cursor' \in {0, OnlyNew}
    BY <1>2 DEF Connect, LastReceived
  <2>2. cursor' \in Nat \cup {OnlyNew}
    BY <2>1 DEF LastReceived, FeedInv, FeedTypes
  <2> QED BY <2>1, <2>2 DEF FeedInv, FeedTypes, GoesOn, AnswersAreWhole, FeedHasNoGaps, LastReceived
<1>3. CASE Read
  <2>1. /\ stage = "polling" /\ stage' = "blocked"
        /\ after' = IF cursor = OnlyNew THEN newest ELSE cursor
        /\ UNCHANGED <<newest, oldest, cursor, answered, received, trimmed>>
    BY <1>3 DEF Read
  <2>2. received # <<>> => LastReceived \in Nat /\ LastReceived # OnlyNew
    BY FeedAssumption DEF LastReceived, FeedInv, FeedTypes
  <2> QED BY <2>1, <2>2 DEF FeedInv, FeedTypes, GoesOn, AnswersAreWhole, FeedHasNoGaps, LastReceived
<1>4. CASE Break
  BY <1>4 DEF Break, FeedInv, FeedTypes, GoesOn, AnswersAreWhole, FeedHasNoGaps
<1>5. CASE UNCHANGED feedVars
  BY <1>5 DEF feedVars, FeedInv, FeedTypes, GoesOn, AnswersAreWhole, FeedHasNoGaps, LastReceived, Follows
<1> QED BY <1>1, <1>2, <1>3, <1>4, <1>5, AnswerStays, YieldStays DEF FeedNext

(* For any number of entries and connections, whatever is trimmed between     *)
(* two reads: the browser gets the entries in order and misses only those    *)
(* that were trimmed.                                                       *)
THEOREM FeedsHaveNoGaps == SearchSpec => []FeedHasNoGaps
<1>1. SearchInit => FeedInv
  BY FeedStarts DEF SearchInit
<1>2. FeedInv /\ [SearchNext]_searchVars => FeedInv'
  BY OneStoreMoves, FeedStays
<1>3. FeedInv => FeedHasNoGaps
  BY DEF FeedInv
<1> QED BY <1>1, <1>2, <1>3, PTL DEF SearchSpec

-----------------------------------------------------------------------------
(* The collection of FAQs. While at worst the vector store failed, the one    *)
(* resync under way still has to add every row that may stand as synced       *)
(* without its document; while nothing failed, every row that is not in the   *)
(* collection.                                                              *)

Rows == [id : Ids, key : Keys, answer : Answers, status : Statuses \cup {"null"}]
Edits == [id : Ids, key : Keys, answer : Answers]

FaqTypes ==
    /\ TypeOK /\ ready \in BOOLEAN
    /\ edit \in [Requests -> Edits \cup {None}]
    /\ \A r \in Requests : pc[r] = "edit" => edit[r] \in Edits
    /\ \A r \in Requests : pc[r] \in {"add", "added", "fail"} => item[r] \in Docs

KeysDiffer == \A x, y \in rows : x.key = y.key => x = y

Resyncs(r) == pc[r] \in Resyncing
Covered(x) == x.status = "synced" => DocOf(x) \in index
Exact(x) == x.status = "synced" /\ DocOf(x) \in index

(* How far r's resync is.                                                    *)
Catches(r) ==
    /\ pc[r] = "dump" => \A x \in rows : Covered(x)
    /\ pc[r] = "clear" => todo[r] = DocsOf(rows)
    /\ pc[r] = "wipe" => rows = {}
    /\ pc[r] \in {"next", "add", "added", "fail"} =>
          /\ todo[r] \subseteq DocsOf(rows)
          /\ \A x \in rows : DocOf(x) \in todo[r] \/ Covered(x)
    /\ pc[r] \in {"add", "added", "fail"} => item[r] \in DocsOf(rows)
    /\ pc[r] = "added" => item[r] \in index

CatchesAll(r) ==
    /\ pc[r] # "fail"
    /\ pc[r] = "next" => \A x \in rows : DocOf(x) \in todo[r] \/ Exact(x)
    /\ pc[r] \in {"add", "added"} =>
          \A x \in rows : DocOf(x) \in todo[r] \cup {item[r]} \/ Exact(x)
    /\ pc[r] \in {"next", "add", "added"} => index \subseteq DocsOf(rows)

OneResync == \A r, s \in Requests : Resyncs(r) /\ Resyncs(s) => r = s

(* Nothing worse than a failing vector store has happened.                   *)
Catching ==
    /\ OneResync
    /\ (\A r \in Requests : ~Resyncs(r)) => \A x \in rows : Covered(x)
    /\ \A r \in Requests : Catches(r)

CatchingAll ==
    /\ (\A r \in Requests : pc[r] \in {"idle", "edit"}) =>
          index = DocsOf(rows) /\ \A x \in rows : Exact(x)
    /\ \A r \in Requests : CatchesAll(r)

Caught ==
    /\ trouble <= 1 => Catching
    /\ trouble = 0 /\ Backend = "milvus" => CatchingAll

FaqInv ==
    /\ FaqTypes /\ KeysDiffer /\ Caught
    /\ ~ready => trouble = 2 /\ \A r \in Requests : pc[r] = "idle"

LEMMA DisturbsBounds ==
    ASSUME trouble \in 0..2, NEW r, NEW level \in 0..2, Disturbs(r, level)
    PROVE  /\ trouble' \in 0..2
           /\ trouble' <= 1 => Others(r) = {} /\ trouble <= 1 /\ level <= 1
           /\ trouble' = 0 => trouble = 0 /\ level = 0
BY DEF Disturbs

LEMMA BeginsBounds ==
    ASSUME NEW r, BeginsResync(r)
    PROVE  trouble' \in 0..2 /\ (trouble' <= 1 => Others(r) = {})
BY DEF BeginsResync

(* Who alone resyncs has only its own progress to show.                      *)
LEMMA InResync ==
    ASSUME NEW r \in Requests, \A s \in Requests \ {r} : pc'[s] = pc[s],
           Resyncs(r)', trouble' \in 0..2,
           trouble' <= 1 => Others(r) = {} /\ Catches(r)',
           trouble' = 0 /\ Backend = "milvus" => CatchesAll(r)'
    PROVE  Caught'
<1>1. ASSUME Others(r) = {}, NEW s \in Requests \ {r} PROVE pc'[s] \notin Resyncing
  BY <1>1 DEF Others
<1>2. ASSUME NEW s \in Requests, pc'[s] \notin Resyncing PROVE Catches(s)' /\ CatchesAll(s)'
  BY <1>2 DEF Catches, CatchesAll, Resyncing
<1>3. pc'[r] \notin {"idle", "edit"}
  BY DEF Resyncs, Resyncing
<1>4. trouble' <= 1 => Catching'
  BY <1>1, <1>2 DEF Catching, OneResync, Resyncs
<1>5. trouble' = 0 /\ Backend = "milvus" => CatchingAll'
  BY <1>1, <1>2, <1>3 DEF CatchingAll
<1> QED BY <1>4, <1>5 DEF Caught

(* Without a resync under way the rows answer for themselves.                *)
LEMMA OutOfResync ==
    ASSUME NEW r \in Requests, \A s \in Requests \ {r} : pc'[s] = pc[s],
           ~Resyncs(r)', trouble' \in 0..2,
           trouble' <= 1 => Others(r) = {} /\ \A x \in rows' : Covered(x)',
           trouble' = 0 /\ Backend = "milvus" /\ pc'[r] \in {"idle", "edit"} =>
               index' = DocsOf(rows)' /\ \A x \in rows' : Exact(x)'
    PROVE  Caught'
<1>1. ASSUME Others(r) = {}, NEW s \in Requests PROVE pc'[s] \notin Resyncing
  BY <1>1 DEF Others, Resyncs
<1>2. ASSUME NEW s \in Requests, pc'[s] \notin Resyncing PROVE Catches(s)' /\ CatchesAll(s)'
  BY <1>2 DEF Catches, CatchesAll, Resyncing
<1>3. trouble' <= 1 => Catching'
  BY <1>1, <1>2 DEF Catching, OneResync, Resyncs
<1>4. trouble' = 0 /\ Backend = "milvus" => CatchingAll'
  BY <1>1, <1>2 DEF CatchingAll
<1> QED BY <1>3, <1>4 DEF Caught

(* A step that only looks.                                                   *)
LEMMA LookingOn ==
    ASSUME FaqTypes, Caught, NEW r \in Requests, UNCHANGED <<rows, index, item, trouble>>,
           \A s \in Requests \ {r} : pc'[s] = pc[s] /\ todo'[s] = todo[s],
           ~Resyncs(r), ~Resyncs(r)', pc'[r] \in {"idle", "edit"} => pc[r] \in {"idle", "edit"}
    PROVE  Caught'
<1>1. \A s \in Requests : Resyncs(s)' <=> Resyncs(s)
  BY DEF Resyncs
<1>2. \A s \in Requests : Catches(s) => Catches(s)'
  BY DEF Catches, Resyncs, Resyncing, Covered
<1>3. \A s \in Requests : CatchesAll(s) => CatchesAll(s)'
  BY DEF CatchesAll, Resyncs, Resyncing, Exact
<1>4. Catching => Catching'
  BY <1>1, <1>2 DEF Catching, OneResync, Covered
<1>5. CatchingAll => CatchingAll'
  BY <1>3 DEF CatchingAll, Exact
<1> QED BY <1>4, <1>5 DEF Caught

(* When nobody resyncs, who begins to finds no row synced without document.  *)
LEMMA AloneIsCovered ==
    ASSUME Caught, trouble <= 1, NEW r \in Requests, ~Resyncs(r), Others(r) = {}
    PROVE  \A x \in rows : Covered(x)
BY DEF Caught, Catching, Others, Resyncs

(* What only the place of one request changes.                               *)
LEMMA MovesPlaces ==
    ASSUME FaqTypes, NEW r \in Requests, NEW to \in Resyncing \cup {"idle", "edit", "purge"},
           Moves(r, to)
    PROVE  /\ pc' \in [Requests -> Resyncing \cup {"idle", "edit", "purge"}]
           /\ pc'[r] = to /\ \A s \in Requests \ {r} : pc'[s] = pc[s]
BY DEF FaqTypes, TypeOK, Moves

LEMMA UpsertedRows ==
    ASSUME FaqTypes, KeysDiffer, NEW new \in Batches,
           NEW id \in [DOMAIN new \ KeysOf(rows) -> Ids]
    PROVE  /\ Upserted(new, id) \subseteq Rows
           /\ \A x, y \in Upserted(new, id) : x.key = y.key => x = y
           /\ \A x \in Upserted(new, id) : x \in rows \/ x.status = "pending"
<1> DEFINE old == {x \in rows : x.key \in DOMAIN new}
           Row(i, k) == [id |-> i, key |-> k, answer |-> new[k], status |-> "pending"]
           kept == rows \ old
           again == {Row(x.id, x.key) : x \in old}
           fresh == {Row(id[k], k) : k \in DOMAIN new \ KeysOf(rows)}
<1>1. Upserted(new, id) = kept \cup again \cup fresh
  <2>1. DOMAIN new \ KeysOf(old) = DOMAIN new \ KeysOf(rows)
    BY DEF KeysOf
  <2> QED BY <2>1 DEF Upserted
<1>2. DOMAIN new \subseteq Keys /\ \A k \in DOMAIN new : new[k] \in Answers
  BY KnowledgeAssumption
<1>3. rows \subseteq Rows /\ \A x \in rows : x.id \in Ids /\ x.key \in Keys
  BY DEF FaqTypes, TypeOK, Rows
<1>4. "pending" \in Statuses \cup {"null"}
  BY DEF Statuses
<1>5. \A x \in kept : x \in Rows /\ x \in rows /\ x.key \notin DOMAIN new
  BY <1>3
<1>6. \A x \in again : /\ x \in Rows /\ x.status = "pending" /\ x.key \in DOMAIN new
                       /\ \E y \in old : x = Row(y.id, y.key)
  BY <1>2, <1>3, <1>4 DEF Rows
<1>7. \A x \in fresh : /\ x \in Rows /\ x.status = "pending"
                       /\ x.key \in DOMAIN new /\ x.key \notin KeysOf(rows)
                       /\ x = Row(id[x.key], x.key)
  BY <1>2, <1>4 DEF Rows
<1>8. \A x \in again : x.key \in KeysOf(rows)
  BY <1>6 DEF KeysOf
<1>9. \A x, y \in again : x.key = y.key => x = y
  BY <1>6 DEF KeysDiffer
<1> HIDE DEF kept, again, fresh, Row, old
<1>10. \A x, y \in kept : x.key = y.key => x = y
  BY <1>5 DEF KeysDiffer
<1>11. \A x, y \in fresh : x.key = y.key => x = y
  BY <1>7
<1>12. \A x, y \in kept \cup again \cup fresh : x.key = y.key => x = y
  BY <1>5, <1>6, <1>7, <1>8, <1>9, <1>10, <1>11
<1> QED BY <1>1, <1>5, <1>6, <1>7, <1>12

(* A write that is followed by a resync: a row it leaves is as it was, one it *)
(* writes is pending.                                                       *)
LEMMA WriteThenDump ==
    ASSUME FaqInv, NEW r \in Requests, pc[r] \notin Resyncing, Moves(r, "dump"), Disturbs(r, 0),
           rows' \subseteq Rows, KeysDiffer',
           \A x \in rows' : x \in rows \/ x.status = "pending",
           UNCHANGED <<ready, index, item>>,
           edit' \in [Requests -> Edits \cup {None}],
           \A s \in Requests \ {r} : edit'[s] = edit[s],
           todo' \in [Requests -> SUBSET Docs]
    PROVE  FaqTypes' /\ KeysDiffer' /\ Caught'
<1>1. /\ pc' \in [Requests -> Resyncing \cup {"idle", "edit", "purge"}]
      /\ pc'[r] = "dump" /\ \A s \in Requests \ {r} : pc'[s] = pc[s]
  BY MovesPlaces DEF FaqInv, Resyncing
<1>2. /\ trouble' \in 0..2
      /\ trouble' <= 1 => Others(r) = {} /\ trouble <= 1
  BY DisturbsBounds DEF FaqInv, FaqTypes, TypeOK
<1>3. FaqTypes'
  BY <1>1, <1>2 DEF FaqInv, FaqTypes, TypeOK, Rows
<1>4. trouble' <= 1 => Catches(r)'
  <2> SUFFICES ASSUME trouble' <= 1, NEW x \in rows' PROVE Covered(x)'
    BY <1>1 DEF Catches
  <2>1. x \in rows => Covered(x)
    BY <1>2, AloneIsCovered DEF FaqInv, Resyncs
  <2> QED BY <2>1 DEF Covered
<1>5. CatchesAll(r)' /\ Resyncs(r)'
  BY <1>1 DEF CatchesAll, Resyncs, Resyncing
<1> QED BY <1>1, <1>2, <1>3, <1>4, <1>5, InResync

LEMMA IngestStays ==
    ASSUME FaqInv, NEW r \in Requests, Ingest(r)
    PROVE  FaqTypes' /\ KeysDiffer' /\ Caught'
<1>1. PICK new \in Batches :
         \E id \in [DOMAIN new \ KeysOf(rows) -> Ids \ IdsInUse] : rows' = Upserted(new, id)
  BY DEF Ingest
<1>2. PICK id \in [DOMAIN new \ KeysOf(rows) -> Ids \ IdsInUse] : rows' = Upserted(new, id)
  BY <1>1
<1>3. id \in [DOMAIN new \ KeysOf(rows) -> Ids]
  OBVIOUS
<1>4. /\ rows' \subseteq Rows /\ KeysDiffer'
      /\ \A x \in rows' : x \in rows \/ x.status = "pending"
  BY <1>2, <1>3, UpsertedRows DEF FaqInv, KeysDiffer
<1>5. pc[r] \notin Resyncing
  BY DEF Ingest, Starts, Resyncing
<1>6. edit' = edit /\ todo' = todo /\ UNCHANGED <<ready, index, item>> /\ Moves(r, "dump") /\ Disturbs(r, 0)
  BY DEF Ingest
<1> QED BY <1>4, <1>5, <1>6, WriteThenDump DEF FaqInv, FaqTypes, TypeOK

LEMMA DeleteStays ==
    ASSUME FaqInv, NEW r \in Requests, Delete(r)
    PROVE  FaqTypes' /\ KeysDiffer' /\ Caught'
<1>1. /\ rows' \subseteq rows /\ pc[r] \notin Resyncing
      /\ UNCHANGED <<ready, index, todo, item, edit>> /\ Moves(r, "dump") /\ Disturbs(r, 0)
  BY DEF Delete, Starts, Resyncing
<1>2. rows' \subseteq Rows /\ KeysDiffer'
  BY <1>1 DEF FaqInv, FaqTypes, TypeOK, KeysDiffer, Rows
<1> QED BY <1>1, <1>2, WriteThenDump DEF FaqInv, FaqTypes, TypeOK

LEMMA EditReadStays ==
    ASSUME FaqInv, NEW r \in Requests, EditRead(r)
    PROVE  FaqTypes' /\ KeysDiffer' /\ Caught'
<1>1. PICK x \in rows, k \in Keys, a \in Answers :
         edit' = [edit EXCEPT ![r] = [id |-> x.id, key |-> k, answer |-> a]]
  BY DEF EditRead
<1>2. [id |-> x.id, key |-> k, answer |-> a] \in Edits
  BY DEF FaqInv, FaqTypes, TypeOK, Edits
<1>3. edit' \in [Requests -> Edits \cup {None}] /\ edit'[r] \in Edits
      /\ \A s \in Requests \ {r} : edit'[s] = edit[s]
  BY <1>1, <1>2 DEF FaqInv, FaqTypes
<1>4. /\ pc[r] = "idle" /\ Moves(r, "edit") /\ UNCHANGED <<rows, ready, index, todo, item, trouble>>
  BY DEF EditRead, Starts
<1>5. /\ pc' \in [Requests -> Resyncing \cup {"idle", "edit", "purge"}]
      /\ pc'[r] = "edit" /\ \A s \in Requests \ {r} : pc'[s] = pc[s]
  BY <1>4, MovesPlaces DEF FaqInv
<1>6. FaqTypes' /\ KeysDiffer'
  BY <1>3, <1>4, <1>5 DEF FaqInv, FaqTypes, TypeOK, KeysDiffer
<1> QED BY <1>4, <1>5, <1>6, LookingOn DEF FaqInv, Resyncs, Resyncing

LEMMA EditWriteStays ==
    ASSUME FaqInv, NEW r \in Requests, EditWrite(r)
    PROVE  FaqTypes' /\ KeysDiffer' /\ Caught'
<1> DEFINE new == edit[r]
           taken == /\ \E x \in rows : x.id = new.id
                    /\ \E x \in rows : x.key = new.key /\ x.id # new.id
           written == [id |-> new.id, key |-> new.key, answer |-> new.answer, status |-> "pending"]
<1>1. /\ pc[r] = "edit" /\ new \in Edits /\ pc[r] \notin Resyncing
      /\ edit' = [edit EXCEPT ![r] = None] /\ UNCHANGED <<ready, index, todo, item>>
      /\ Moves(r, IF taken THEN "idle" ELSE "dump")
  BY DEF EditWrite, FaqInv, FaqTypes, Resyncing
<1>2. edit' \in [Requests -> Edits \cup {None}] /\ \A s \in Requests \ {r} : edit'[s] = edit[s]
  BY <1>1 DEF FaqInv, FaqTypes
<1>3. CASE taken
  <2>1. Moves(r, "idle") /\ rows' = rows /\ trouble' = trouble
    BY <1>1, <1>3 DEF EditWrite
  <2>2. /\ pc' \in [Requests -> Resyncing \cup {"idle", "edit", "purge"}]
        /\ pc'[r] = "idle" /\ \A s \in Requests \ {r} : pc'[s] = pc[s]
    BY <2>1, MovesPlaces DEF FaqInv
  <2>3. FaqTypes' /\ KeysDiffer'
    BY <1>1, <1>2, <2>1, <2>2 DEF FaqInv, FaqTypes, TypeOK, KeysDiffer
  <2> QED BY <1>1, <2>1, <2>2, <2>3, LookingOn DEF FaqInv, Resyncs, Resyncing
<1>4. CASE ~taken
  <2>1. /\ Moves(r, "dump") /\ Disturbs(r, 0)
        /\ rows' = {IF x.id # new.id THEN x ELSE written : x \in rows}
    BY <1>1, <1>4 DEF EditWrite
  <2>2. written \in Rows /\ written.status = "pending" /\ written.key = new.key
    BY <1>1 DEF Edits, Rows, Statuses
  <2>3. \/ rows' = rows
        \/ \A x \in rows' : x = written \/ (x \in rows /\ x.key # new.key)
    <3>1. CASE \A x \in rows : x.id # new.id
      <4>1. rows' = {x : x \in rows}
        BY <2>1, <3>1
      <4> QED BY <4>1
    <3>2. CASE \A x \in rows : x.key = new.key => x.id = new.id
      BY <2>1, <3>2
    <3> QED BY <1>4, <3>1, <3>2
  <2> HIDE DEF written, new
  <2>4. rows' \subseteq Rows /\ KeysDiffer'
    BY <2>2, <2>3 DEF FaqInv, FaqTypes, TypeOK, KeysDiffer, Rows
  <2>5. \A x \in rows' : x \in rows \/ x.status = "pending"
    BY <2>2, <2>3
  <2> QED BY <1>1, <1>2, <2>1, <2>4, <2>5, WriteThenDump DEF FaqInv, FaqTypes, TypeOK
<1> QED BY <1>3, <1>4

LEMMA ClearAllStays ==
    ASSUME FaqInv, NEW r \in Requests, ClearAll(r)
    PROVE  FaqTypes' /\ KeysDiffer' /\ Caught'
<1>1. /\ rows' = {} /\ UNCHANGED <<ready, index, todo, item, edit>>
      /\ pc[r] = "idle" /\ Moves(r, "wipe") /\ BeginsResync(r)
  BY DEF ClearAll, Starts
<1>2. /\ pc' \in [Requests -> Resyncing \cup {"idle", "edit", "purge"}]
      /\ pc'[r] = "wipe" /\ \A s \in Requests \ {r} : pc'[s] = pc[s]
  BY <1>1, MovesPlaces DEF FaqInv, Resyncing
<1>3. trouble' \in 0..2 /\ (trouble' <= 1 => Others(r) = {})
  BY <1>1, BeginsBounds
<1>4. FaqTypes' /\ KeysDiffer'
  BY <1>1, <1>2, <1>3 DEF FaqInv, FaqTypes, TypeOK, KeysDiffer
<1>5. Catches(r)' /\ CatchesAll(r)' /\ Resyncs(r)'
  BY <1>1, <1>2 DEF Catches, CatchesAll, Resyncs, Resyncing
<1> QED BY <1>2, <1>3, <1>4, <1>5, InResync

LEMMA SemanticDeleteStays ==
    ASSUME FaqInv, NEW r \in Requests, SemanticDelete(r)
    PROVE  FaqTypes' /\ KeysDiffer' /\ Caught'
<1>1. PICK near \in SUBSET Keys : todo' = [todo EXCEPT ![r] = Matches(near)]
  BY DEF SemanticDelete
<1>2. Matches(near) \in SUBSET Docs
  BY DEF Matches, FaqInv, FaqTypes, TypeOK
<1>3. todo' \in [Requests -> SUBSET Docs] /\ \A s \in Requests \ {r} : todo'[s] = todo[s]
  BY <1>1, <1>2 DEF FaqInv, FaqTypes, TypeOK
<1>4. pc[r] = "idle" /\ Moves(r, "purge") /\ UNCHANGED <<rows, ready, index, item, edit, trouble>>
  BY DEF SemanticDelete, Starts
<1>5. /\ pc' \in [Requests -> Resyncing \cup {"idle", "edit", "purge"}]
      /\ pc'[r] = "purge" /\ \A s \in Requests \ {r} : pc'[s] = pc[s]
  BY <1>4, MovesPlaces DEF FaqInv
<1>6. FaqTypes' /\ KeysDiffer'
  BY <1>3, <1>4, <1>5 DEF FaqInv, FaqTypes, TypeOK, KeysDiffer
<1> QED BY <1>3, <1>4, <1>5, <1>6, LookingOn DEF FaqInv, Resyncs, Resyncing

LEMMA PurgeStays ==
    ASSUME FaqInv, NEW r \in Requests, Purge(r)
    PROVE  FaqTypes' /\ KeysDiffer' /\ Caught'
<1>1. /\ pc[r] = "purge" /\ rows' \subseteq rows /\ Disturbs(r, 0)
      /\ UNCHANGED <<ready, index, item, edit>>
      /\ Moves(r, IF todo'[r] = {} THEN "dump" ELSE "purge")
  BY DEF Purge
<1>2. todo' \in [Requests -> SUBSET Docs]
  BY DEF Purge, FaqInv, FaqTypes, TypeOK
<1>3. rows' \subseteq Rows /\ KeysDiffer'
  BY <1>1 DEF FaqInv, FaqTypes, TypeOK, KeysDiffer, Rows
<1>4. pc[r] \notin Resyncing
  BY <1>1 DEF Resyncing
<1>5. CASE todo'[r] = {}
  BY <1>1, <1>2, <1>3, <1>4, <1>5, WriteThenDump DEF FaqInv, FaqTypes
<1>6. CASE todo'[r] # {}
  <2>1. /\ pc' \in [Requests -> Resyncing \cup {"idle", "edit", "purge"}]
        /\ pc'[r] = "purge" /\ \A s \in Requests \ {r} : pc'[s] = pc[s]
    BY <1>1, <1>6, MovesPlaces DEF FaqInv
  <2>2. trouble' \in 0..2 /\ (trouble' <= 1 => Others(r) = {} /\ trouble <= 1)
    BY <1>1, DisturbsBounds DEF FaqInv, FaqTypes, TypeOK
  <2>3. FaqTypes'
    BY <1>1, <1>2, <1>3, <2>1, <2>2 DEF FaqInv, FaqTypes, TypeOK, Rows
  <2>4. trouble' <= 1 => \A x \in rows' : Covered(x)'
    BY <1>1, <1>4, <2>2, AloneIsCovered DEF FaqInv, Resyncs, Covered
  <2> QED BY <1>3, <2>1, <2>2, <2>3, <2>4, OutOfResync DEF Resyncs, Resyncing
<1> QED BY <1>5, <1>6

LEMMA DumpStays ==
    ASSUME FaqInv, NEW r \in Requests, Dump(r)
    PROVE  FaqTypes' /\ KeysDiffer' /\ Caught'
<1>1. /\ todo' = [todo EXCEPT ![r] = DocsOf(rows)] /\ UNCHANGED <<rows, ready, index, item, edit>>
      /\ Moves(r, "clear") /\ BeginsResync(r)
  BY DEF Dump
<1>2. /\ pc' \in [Requests -> Resyncing \cup {"idle", "edit", "purge"}]
      /\ pc'[r] = "clear" /\ \A s \in Requests \ {r} : pc'[s] = pc[s]
  BY <1>1, MovesPlaces DEF FaqInv, Resyncing
<1>3. trouble' \in 0..2 /\ (trouble' <= 1 => Others(r) = {})
  BY <1>1, BeginsBounds
<1>4. DocsOf(rows) \in SUBSET Docs
  BY DEF FaqInv, FaqTypes, TypeOK, DocsOf, DocOf, Docs
<1>5. todo' \in [Requests -> SUBSET Docs] /\ todo'[r] = DocsOf(rows)
  BY <1>1, <1>4 DEF FaqInv, FaqTypes, TypeOK
<1>6. FaqTypes' /\ KeysDiffer'
  BY <1>1, <1>2, <1>3, <1>5 DEF FaqInv, FaqTypes, TypeOK, KeysDiffer
<1>7. Catches(r)' /\ CatchesAll(r)' /\ Resyncs(r)'
  BY <1>1, <1>2, <1>5 DEF Catches, CatchesAll, Resyncs, Resyncing, DocsOf
<1> QED BY <1>2, <1>3, <1>6, <1>7, InResync

(* How the collection is emptied, or is not.                                 *)
LEMMA EmptiesBounds ==
    ASSUME FaqInv, NEW r \in Requests, Empties(r)
    PROVE  /\ index' \in SUBSET Docs /\ trouble' \in 0..2
           /\ trouble' <= 1 => Others(r) = {} /\ trouble <= 1
           /\ trouble' = 0 /\ Backend = "milvus" => index' = {} /\ trouble = 0
<1>1. CASE Backend = "milvus" /\ index' = {} /\ Disturbs(r, 0)
  BY <1>1, DisturbsBounds DEF FaqInv, FaqTypes, TypeOK
<1>2. CASE Backend = "milvus" /\ index' = index /\ Disturbs(r, 1)
  BY <1>2, DisturbsBounds DEF FaqInv, FaqTypes, TypeOK
<1>3. CASE Backend = "pgvector" /\ index' = index /\ Disturbs(r, 0)
  BY <1>3, DisturbsBounds DEF FaqInv, FaqTypes, TypeOK
<1> QED BY <1>1, <1>2, <1>3 DEF Empties

LEMMA ClearStays ==
    ASSUME FaqInv, NEW r \in Requests, Clear(r)
    PROVE  FaqTypes' /\ KeysDiffer' /\ Caught'
<1>1. /\ pc[r] = "clear" /\ Empties(r) /\ Moves(r, "next")
      /\ UNCHANGED <<rows, ready, todo, item, edit>>
  BY DEF Clear
<1>2. /\ pc' \in [Requests -> Resyncing \cup {"idle", "edit", "purge"}]
      /\ pc'[r] = "next" /\ \A s \in Requests \ {r} : pc'[s] = pc[s]
  BY <1>1, MovesPlaces DEF FaqInv, Resyncing
<1>3. /\ index' \in SUBSET Docs /\ trouble' \in 0..2
      /\ trouble' <= 1 => Others(r) = {} /\ trouble <= 1
      /\ trouble' = 0 /\ Backend = "milvus" => index' = {} /\ trouble = 0
  BY <1>1, EmptiesBounds
<1>4. FaqTypes' /\ KeysDiffer'
  BY <1>1, <1>2, <1>3 DEF FaqInv, FaqTypes, TypeOK, KeysDiffer
<1>5. trouble <= 1 => todo[r] = DocsOf(rows)
  BY <1>1 DEF FaqInv, Caught, Catching, Catches
<1>6. \A x \in rows : DocOf(x) \in DocsOf(rows)
  BY DEF DocsOf
<1>7. trouble' <= 1 => Catches(r)'
  BY <1>1, <1>2, <1>3, <1>5, <1>6 DEF Catches, DocsOf, DocOf
<1>8. trouble' = 0 /\ Backend = "milvus" => CatchesAll(r)'
  BY <1>1, <1>2, <1>3, <1>5, <1>6 DEF CatchesAll, DocsOf, DocOf
<1> QED BY <1>2, <1>3, <1>4, <1>7, <1>8, InResync DEF Resyncs, Resyncing

LEMMA WipeStays ==
    ASSUME FaqInv, NEW r \in Requests, Wipe(r)
    PROVE  FaqTypes' /\ KeysDiffer' /\ Caught'
<1>1. /\ pc[r] = "wipe" /\ Empties(r) /\ Moves(r, "idle")
      /\ UNCHANGED <<rows, ready, todo, item, edit>>
  BY DEF Wipe
<1>2. /\ pc' \in [Requests -> Resyncing \cup {"idle", "edit", "purge"}]
      /\ pc'[r] = "idle" /\ \A s \in Requests \ {r} : pc'[s] = pc[s]
  BY <1>1, MovesPlaces DEF FaqInv
<1>3. /\ index' \in SUBSET Docs /\ trouble' \in 0..2
      /\ trouble' <= 1 => Others(r) = {} /\ trouble <= 1
      /\ trouble' = 0 /\ Backend = "milvus" => index' = {} /\ trouble = 0
  BY <1>1, EmptiesBounds
<1>4. FaqTypes' /\ KeysDiffer'
  BY <1>1, <1>2, <1>3 DEF FaqInv, FaqTypes, TypeOK, KeysDiffer
<1>5. trouble <= 1 => rows' = {}
  BY <1>1 DEF FaqInv, Caught, Catching, Catches
<1>6. trouble <= 1 => DocsOf(rows)' = {}
  BY <1>5 DEF DocsOf
<1> QED BY <1>2, <1>3, <1>4, <1>5, <1>6, OutOfResync DEF Resyncs, Resyncing

LEMMA FinishStays ==
    ASSUME FaqInv, NEW r \in Requests, Finish(r)
    PROVE  FaqTypes' /\ KeysDiffer' /\ Caught'
<1>1. /\ pc[r] = "next" /\ todo[r] = {} /\ Moves(r, "idle")
      /\ UNCHANGED <<rows, ready, index, todo, item, edit, trouble>>
  BY DEF Finish
<1>2. /\ pc' \in [Requests -> Resyncing \cup {"idle", "edit", "purge"}]
      /\ pc'[r] = "idle" /\ \A s \in Requests \ {r} : pc'[s] = pc[s]
  BY <1>1, MovesPlaces DEF FaqInv
<1>3. FaqTypes' /\ KeysDiffer'
  BY <1>1, <1>2 DEF FaqInv, FaqTypes, TypeOK, KeysDiffer
<1>4. trouble <= 1 => Others(r) = {} /\ \A x \in rows : Covered(x)
  BY <1>1 DEF FaqInv, Caught, Catching, Catches, OneResync, Others, Resyncs, Resyncing
<1>5. trouble = 0 /\ Backend = "milvus" => index \subseteq DocsOf(rows) /\ \A x \in rows : Exact(x)
  BY <1>1 DEF FaqInv, Caught, CatchingAll, CatchesAll
<1>6. trouble = 0 /\ Backend = "milvus" => index = DocsOf(rows)
  BY <1>5 DEF DocsOf, Exact
<1>7. trouble' \in 0..2
  BY <1>1 DEF FaqInv, FaqTypes, TypeOK
<1> QED BY <1>1, <1>2, <1>3, <1>4, <1>5, <1>6, <1>7, OutOfResync
        DEF Resyncs, Resyncing, Covered, Exact, DocsOf, DocOf

(* A status that is written to the rows of a question.                       *)
LEMMA StatusSet ==
    ASSUME FaqTypes, KeysDiffer, NEW key, NEW status \in Statuses, SetStatus(key, status)
    PROVE  /\ rows' \subseteq Rows /\ KeysDiffer' /\ DocsOf(rows') = DocsOf(rows)
           /\ \A x \in rows' :
                 \/ x \in rows /\ x.key # key
                 \/ x.status = status /\ x.key = key /\ \E y \in rows : DocOf(x) = DocOf(y) /\ y.key = key
<1>1. ASSUME NEW y \in rows
      PROVE  LET x == [y EXCEPT !.status = status] IN
             x \in Rows /\ x.status = status /\ x.key = y.key /\ DocOf(x) = DocOf(y)
  BY DEF FaqTypes, TypeOK, Rows, DocOf
<1>2. \A x \in rows' : \E y \in rows :
         /\ x \in Rows /\ x.key = y.key /\ DocOf(x) = DocOf(y)
         /\ x = IF y.key = key THEN [y EXCEPT !.status = status] ELSE y
         /\ y.key = key => x.status = status
  BY <1>1 DEF SetStatus, FaqTypes, TypeOK, Rows
<1>3. \A y \in rows : \E x \in rows' : DocOf(x) = DocOf(y)
  BY <1>1 DEF SetStatus
<1>4. rows' \subseteq Rows
  BY <1>2
<1>5. KeysDiffer'
  BY <1>2 DEF KeysDiffer
<1>6. DocsOf(rows') = DocsOf(rows)
  BY <1>2, <1>3 DEF DocsOf
<1> QED BY <1>2, <1>4, <1>5, <1>6

(* The row of a document in the table is the only one with its question.     *)
LEMMA DocIsRow ==
    ASSUME FaqTypes, KeysDiffer, NEW doc \in DocsOf(rows), NEW x \in rows
    PROVE  x.key = doc.key <=> DocOf(x) = doc
BY DEF DocsOf, DocOf, KeysDiffer

LEMMA MarkStays ==
    ASSUME FaqInv, NEW r \in Requests, Mark(r)
    PROVE  FaqTypes' /\ KeysDiffer' /\ Caught'
<1>1. PICK doc \in todo[r] :
         /\ todo' = [todo EXCEPT ![r] = @ \ {doc}]
         /\ \/ /\ SetStatus(doc.key, "syncing")
               /\ item' = [item EXCEPT ![r] = doc]
               /\ Moves(r, "add")
               /\ Disturbs(r, 0)
            \/ /\ Disturbs(r, 2)
               /\ UNCHANGED <<rows, item, pc>>
  BY DEF Mark
<1>2. pc[r] = "next" /\ UNCHANGED <<ready, index, edit>>
  BY DEF Mark
<1>3. /\ todo' \in [Requests -> SUBSET Docs] /\ todo'[r] = todo[r] \ {doc}
      /\ \A s \in Requests \ {r} : todo'[s] = todo[s]
      /\ doc \in Docs
  BY <1>1 DEF FaqInv, FaqTypes, TypeOK
<1>4. CASE Disturbs(r, 2) /\ UNCHANGED <<rows, item, pc>>
  <2>1. trouble' \in 0..2 /\ ~(trouble' <= 1) /\ trouble' # 0
    BY <1>4, DisturbsBounds DEF FaqInv, FaqTypes, TypeOK
  <2>2. FaqTypes' /\ KeysDiffer'
    BY <1>2, <1>3, <1>4, <2>1 DEF FaqInv, FaqTypes, TypeOK, KeysDiffer
  <2> QED BY <2>1, <2>2 DEF Caught
<1>5. CASE SetStatus(doc.key, "syncing") /\ item' = [item EXCEPT ![r] = doc]
           /\ Moves(r, "add") /\ Disturbs(r, 0)
  <2>1. /\ pc' \in [Requests -> Resyncing \cup {"idle", "edit", "purge"}]
        /\ pc'[r] = "add" /\ \A s \in Requests \ {r} : pc'[s] = pc[s]
    BY <1>5, MovesPlaces DEF FaqInv, Resyncing
  <2>2. /\ trouble' \in 0..2
        /\ trouble' <= 1 => Others(r) = {} /\ trouble <= 1
        /\ trouble' = 0 => trouble = 0
    BY <1>5, DisturbsBounds DEF FaqInv, FaqTypes, TypeOK
  <2>3. "syncing" \in Statuses
    BY DEF Statuses
  <2>4. /\ rows' \subseteq Rows /\ KeysDiffer' /\ DocsOf(rows') = DocsOf(rows)
        /\ \A x \in rows' :
              \/ x \in rows /\ x.key # doc.key
              \/ x.status = "syncing" /\ x.key = doc.key
                 /\ \E y \in rows : DocOf(x) = DocOf(y) /\ y.key = doc.key
    BY <1>5, <2>3, StatusSet DEF FaqInv
  <2>5. /\ item' \in [Requests -> Docs \cup {None}] /\ item'[r] = doc
        /\ \A s \in Requests \ {r} : item'[s] = item[s]
    BY <1>3, <1>5 DEF FaqInv, FaqTypes, TypeOK
  <2>6. FaqTypes'
    BY <1>2, <1>3, <2>1, <2>2, <2>4, <2>5 DEF FaqInv, FaqTypes, TypeOK, Rows
  <2>7. trouble <= 1 => /\ todo[r] \subseteq DocsOf(rows)
                        /\ \A x \in rows : DocOf(x) \in todo[r] \/ Covered(x)
    BY <1>2 DEF FaqInv, Caught, Catching, Catches
  <2>8. trouble = 0 /\ Backend = "milvus" =>
           /\ \A x \in rows : DocOf(x) \in todo[r] \/ Exact(x)
           /\ index \subseteq DocsOf(rows)
    BY <1>2 DEF FaqInv, Caught, CatchingAll, CatchesAll
  <2>9. \A x \in rows : DocOf(x) # doc \/ x.key = doc.key
    BY DEF DocOf
  <2>10. trouble' <= 1 => Catches(r)'
    <3> SUFFICES ASSUME trouble' <= 1 PROVE Catches(r)'
      OBVIOUS
    <3>1. todo'[r] \subseteq DocsOf(rows') /\ item'[r] \in DocsOf(rows')
      BY <1>3, <2>2, <2>4, <2>5, <2>7
    <3>2. \A x \in rows' : DocOf(x) \in todo'[r] \/ Covered(x)'
      BY <1>2, <1>3, <2>2, <2>4, <2>7, <2>9 DEF Covered
    <3> QED BY <2>1, <3>1, <3>2 DEF Catches, DocsOf, DocOf
  <2>11. trouble' = 0 /\ Backend = "milvus" => CatchesAll(r)'
    <3> SUFFICES ASSUME trouble' = 0, Backend = "milvus" PROVE CatchesAll(r)'
      OBVIOUS
    <3>1. \A x \in rows' : DocOf(x) \in todo'[r] \cup {item'[r]} \/ Exact(x)'
      <4> SUFFICES ASSUME NEW x \in rows' PROVE DocOf(x) \in todo'[r] \cup {item'[r]} \/ Exact(x)'
        OBVIOUS
      <4>1. CASE x \in rows /\ x.key # doc.key
        BY <1>2, <1>3, <2>2, <2>5, <2>8, <4>1 DEF Exact
      <4>2. CASE x.key = doc.key /\ \E y \in rows : DocOf(x) = DocOf(y) /\ y.key = doc.key
        <5>1. doc \in DocsOf(rows)
          BY <2>2, <2>7
        <5> QED BY <2>5, <4>2, <5>1, DocIsRow DEF FaqInv
      <4> QED BY <2>4, <4>1, <4>2
    <3>2. index' \subseteq DocsOf(rows')
      BY <1>2, <2>2, <2>4, <2>8
    <3> QED BY <2>1, <3>1, <3>2 DEF CatchesAll, DocsOf, DocOf
  <2> QED BY <2>1, <2>2, <2>4, <2>6, <2>10, <2>11, InResync DEF Resyncs, Resyncing
<1> QED BY <1>1, <1>4, <1>5

(* A document that is added, for a row whose question it has.                 *)
LEMMA AddedDoc ==
    ASSUME FaqTypes, KeysDiffer, NEW doc \in DocsOf(rows)
    PROVE  /\ WithDoc(doc) \subseteq index \cup {doc} /\ doc \in WithDoc(doc)
           /\ \A x \in rows : DocOf(x) \in index => DocOf(x) \in WithDoc(doc)
<1>1. \A x \in rows : DocOf(x).key = doc.key => DocOf(x) = doc
  BY DocIsRow DEF DocOf
<1> QED BY <1>1 DEF WithDoc

LEMMA AddStays ==
    ASSUME FaqInv, NEW r \in Requests, Add(r)
    PROVE  FaqTypes' /\ KeysDiffer' /\ Caught'
<1> DEFINE doc == item[r]
<1>1. /\ pc[r] = "add" /\ UNCHANGED <<rows, ready, todo, item, edit>>
      /\ index' \in {index, WithDoc(doc)}
      /\ \/ index' = WithDoc(doc) /\ Moves(r, "added") /\ Disturbs(r, 0)
         \/ Moves(r, "fail") /\ Disturbs(r, 1)
  BY DEF Add
<1>2. /\ pc' \in [Requests -> Resyncing \cup {"idle", "edit", "purge"}]
      /\ pc'[r] \in {"added", "fail"} /\ \A s \in Requests \ {r} : pc'[s] = pc[s]
      /\ pc'[r] = "added" => index' = WithDoc(doc)
  BY <1>1, MovesPlaces DEF FaqInv, Resyncing
<1>3. /\ trouble' \in 0..2
      /\ trouble' <= 1 => Others(r) = {} /\ trouble <= 1
      /\ trouble' = 0 => trouble = 0 /\ pc'[r] = "added"
  BY <1>1, <1>2, DisturbsBounds, MovesPlaces DEF FaqInv, FaqTypes, TypeOK, Resyncing
<1>4. doc \in Docs /\ index' \in SUBSET Docs
  BY <1>1 DEF FaqInv, FaqTypes, TypeOK, WithDoc
<1>5. FaqTypes' /\ KeysDiffer'
  BY <1>1, <1>2, <1>3, <1>4 DEF FaqInv, FaqTypes, TypeOK, KeysDiffer
<1>6. trouble <= 1 => /\ todo[r] \subseteq DocsOf(rows) /\ doc \in DocsOf(rows)
                      /\ \A x \in rows : DocOf(x) \in todo[r] \/ Covered(x)
  BY <1>1 DEF FaqInv, Caught, Catching, Catches
<1>7. trouble = 0 /\ Backend = "milvus" =>
         /\ \A x \in rows : DocOf(x) \in todo[r] \cup {doc} \/ Exact(x)
         /\ index \subseteq DocsOf(rows)
  BY <1>1 DEF FaqInv, Caught, CatchingAll, CatchesAll
<1>8. trouble <= 1 => /\ index' \subseteq index \cup {doc}
                      /\ pc'[r] = "added" => doc \in index'
                      /\ \A x \in rows : DocOf(x) \in index => DocOf(x) \in index'
  BY <1>1, <1>2, <1>6, AddedDoc DEF FaqInv
<1>9. trouble' <= 1 => Catches(r)'
  <2> SUFFICES ASSUME trouble' <= 1 PROVE Catches(r)'
    OBVIOUS
  <2>1. \A x \in rows : DocOf(x) \in todo[r] \/ Covered(x)'
    BY <1>1, <1>3, <1>6, <1>8 DEF Covered, DocOf
  <2> QED BY <1>1, <1>2, <1>3, <1>6, <1>8, <2>1 DEF Catches, DocsOf, DocOf
<1>10. trouble' = 0 /\ Backend = "milvus" => CatchesAll(r)'
  <2> SUFFICES ASSUME trouble' = 0, Backend = "milvus" PROVE CatchesAll(r)'
    OBVIOUS
  <2>1. /\ \A x \in rows : DocOf(x) \in todo[r] \cup {doc} \/ Exact(x)
        /\ \A x \in rows : DocOf(x) \in index => DocOf(x) \in index'
    BY <1>3, <1>7, <1>8
  <2>2. \A x \in rows : DocOf(x) \in todo[r] \cup {doc} \/ Exact(x)'
    BY <2>1, Zenon DEF Exact, DocOf
  <2>3. index' \subseteq DocsOf(rows)
    BY <1>3, <1>6, <1>7, <1>8
  <2> QED BY <1>1, <1>2, <1>3, <2>2, <2>3 DEF CatchesAll, DocsOf, DocOf
<1> QED BY <1>2, <1>3, <1>5, <1>9, <1>10, InResync DEF Resyncs, Resyncing

(* The status that tells how it went is written, or the resync went wrong.   *)
LEMMA ReportsStay ==
    ASSUME FaqInv, NEW r \in Requests, NEW status \in Statuses, NEW otherwise \in {"fail", "next"},
           pc[r] \in {"added", "fail"}, Reports(r, status, otherwise),
           status = "synced" <=> pc[r] = "added"
    PROVE  FaqTypes' /\ KeysDiffer' /\ Caught'
<1> DEFINE doc == item[r]
<1>1. doc \in Docs /\ UNCHANGED <<ready, index, todo, edit>>
  BY DEF Reports, FaqInv, FaqTypes
<1>2. CASE /\ Moves(r, otherwise)
           /\ item' = IF otherwise = "next" THEN [item EXCEPT ![r] = None] ELSE item
           /\ Disturbs(r, 2) /\ UNCHANGED rows
  <2>1. trouble' \in 0..2 /\ ~(trouble' <= 1) /\ trouble' # 0
    BY <1>2, DisturbsBounds DEF FaqInv, FaqTypes, TypeOK
  <2>2. /\ pc' \in [Requests -> Resyncing \cup {"idle", "edit", "purge"}]
        /\ pc'[r] = otherwise /\ \A s \in Requests \ {r} : pc'[s] = pc[s]
    BY <1>2, MovesPlaces DEF FaqInv, Resyncing
  <2>3. /\ item' \in [Requests -> Docs \cup {None}] /\ (otherwise # "next" => item'[r] = doc)
        /\ \A s \in Requests \ {r} : item'[s] = item[s]
    BY <1>2 DEF FaqInv, FaqTypes, TypeOK
  <2>4. FaqTypes' /\ KeysDiffer'
    BY <1>1, <1>2, <2>1, <2>2, <2>3 DEF FaqInv, FaqTypes, TypeOK, KeysDiffer
  <2> QED BY <2>1, <2>4 DEF Caught
<1>3. CASE /\ SetStatus(doc.key, status) /\ Moves(r, "next")
           /\ item' = [item EXCEPT ![r] = None] /\ Disturbs(r, 0)
  <2>1. /\ pc' \in [Requests -> Resyncing \cup {"idle", "edit", "purge"}]
        /\ pc'[r] = "next" /\ \A s \in Requests \ {r} : pc'[s] = pc[s]
    BY <1>3, MovesPlaces DEF FaqInv, Resyncing
  <2>2. /\ trouble' \in 0..2
        /\ trouble' <= 1 => Others(r) = {} /\ trouble <= 1
        /\ trouble' = 0 => trouble = 0
    BY <1>3, DisturbsBounds DEF FaqInv, FaqTypes, TypeOK
  <2>3. /\ rows' \subseteq Rows /\ KeysDiffer' /\ DocsOf(rows') = DocsOf(rows)
        /\ \A x \in rows' :
              \/ x \in rows /\ x.key # doc.key
              \/ /\ x.status = status /\ x.key = doc.key
                 /\ \E y \in rows : DocOf(x) = DocOf(y) /\ y.key = doc.key
    BY <1>3, StatusSet DEF FaqInv
  <2>4. /\ item' \in [Requests -> Docs \cup {None}]
        /\ \A s \in Requests \ {r} : item'[s] = item[s]
    BY <1>3 DEF FaqInv, FaqTypes, TypeOK
  <2>5. FaqTypes'
    BY <1>1, <2>1, <2>2, <2>3, <2>4 DEF FaqInv, FaqTypes, TypeOK, Rows
  <2>6. trouble <= 1 => /\ todo[r] \subseteq DocsOf(rows) /\ doc \in DocsOf(rows)
                        /\ \A x \in rows : DocOf(x) \in todo[r] \/ Covered(x)
                        /\ pc[r] = "added" => doc \in index
    BY DEF FaqInv, Caught, Catching, Catches
  <2>7. trouble = 0 /\ Backend = "milvus" =>
           /\ pc[r] = "added"
           /\ \A x \in rows : DocOf(x) \in todo[r] \cup {doc} \/ Exact(x)
           /\ index \subseteq DocsOf(rows)
    BY DEF FaqInv, Caught, CatchingAll, CatchesAll
  (* The document of a row whose status was written is the one just added.   *)
  <2>8. ASSUME doc \in DocsOf(rows), NEW x \in rows', \E y \in rows : DocOf(x) = DocOf(y) /\ y.key = doc.key
        PROVE  DocOf(x) = doc
    BY <2>8, DocIsRow DEF FaqInv
  <2>9. trouble' <= 1 => Catches(r)'
    <3> SUFFICES ASSUME trouble' <= 1 PROVE Catches(r)'
      OBVIOUS
    <3>1. \A x \in rows' : DocOf(x) \in todo[r] \/ Covered(x)'
      <4> SUFFICES ASSUME NEW x \in rows', x.status = "synced", DocOf(x) \notin todo[r]
                   PROVE  DocOf(x) \in index
        BY <1>1 DEF Covered, DocOf
      <4>1. CASE x \in rows
        BY <2>2, <2>6, <4>1 DEF Covered
      <4>2. CASE x.status = status /\ \E y \in rows : DocOf(x) = DocOf(y) /\ y.key = doc.key
        BY <2>2, <2>6, <2>8, <4>2
      <4> QED BY <2>3, <4>1, <4>2
    <3>2. todo[r] \subseteq DocsOf(rows')
      BY <2>2, <2>3, <2>6
    <3> QED BY <1>1, <2>1, <3>1, <3>2 DEF Catches, DocsOf, DocOf
  <2>10. ASSUME trouble' = 0, Backend = "milvus", status = "synced" PROVE CatchesAll(r)'
    <3>1. \A x \in rows' : DocOf(x) \in todo[r] \/ Exact(x)'
      <4> SUFFICES ASSUME NEW x \in rows', DocOf(x) \notin todo[r]
                   PROVE  x.status = "synced" /\ DocOf(x) \in index
        BY <1>1 DEF Exact, DocOf
      <4>1. CASE x \in rows /\ x.key # doc.key
        <5>1. DocOf(x) # doc
          BY <4>1 DEF DocOf
        <5> QED BY <2>2, <2>7, <2>10, <4>1, <5>1 DEF Exact
      <4>2. CASE x.status = status /\ \E y \in rows : DocOf(x) = DocOf(y) /\ y.key = doc.key
        BY <2>2, <2>6, <2>7, <2>8, <2>10, <4>2
      <4> QED BY <2>3, <4>1, <4>2
    <3>2. index \subseteq DocsOf(rows')
      BY <2>2, <2>3, <2>7, <2>10
    <3> QED BY <1>1, <2>1, <3>1, <3>2 DEF CatchesAll, DocsOf, DocOf
  <2>11. trouble' = 0 /\ Backend = "milvus" => status = "synced"
    BY <2>2, <2>7, <1>3
  <2> QED BY <2>1, <2>2, <2>3, <2>5, <2>9, <2>10, <2>11, InResync DEF Resyncs, Resyncing
<1> QED BY <1>2, <1>3 DEF Reports

LEMMA AbandonStays ==
    ASSUME FaqInv, NEW r \in Requests, Abandon(r)
    PROVE  FaqTypes' /\ KeysDiffer' /\ Caught'
<1>1. /\ Moves(r, "idle") /\ trouble' = 2 /\ UNCHANGED <<rows, ready, index>>
      /\ item' = [item EXCEPT ![r] = None] /\ edit' = [edit EXCEPT ![r] = None]
      /\ todo' = [todo EXCEPT ![r] = {}]
  BY DEF Abandon
<1>2. /\ pc' \in [Requests -> Resyncing \cup {"idle", "edit", "purge"}]
      /\ pc'[r] = "idle" /\ \A s \in Requests \ {r} : pc'[s] = pc[s]
  BY <1>1, MovesPlaces DEF FaqInv
<1>3. /\ item' \in [Requests -> Docs \cup {None}] /\ edit' \in [Requests -> Edits \cup {None}]
      /\ todo' \in [Requests -> SUBSET Docs]
      /\ \A s \in Requests \ {r} : item'[s] = item[s] /\ edit'[s] = edit[s]
  BY <1>1 DEF FaqInv, FaqTypes, TypeOK
<1>4. TypeOK' /\ KeysDiffer'
  BY <1>1, <1>2, <1>3 DEF FaqInv, FaqTypes, TypeOK, KeysDiffer
<1>5. FaqTypes'
  BY <1>1, <1>2, <1>3, <1>4 DEF FaqInv, FaqTypes
<1>6. Caught'
  BY <1>1 DEF Caught
<1> QED BY <1>6, <1>4, <1>5

LEMMA EnsureTableStays ==
    ASSUME FaqInv, EnsureTable
    PROVE  FaqInv'
<1>1. /\ trouble = 2 /\ ready' = TRUE /\ UNCHANGED <<index, pc, todo, item, edit, trouble>>
  BY DEF EnsureTable, FaqInv
<1>2. ASSUME NEW y \in rows
      PROVE  [y EXCEPT !.status = "pending"] \in Rows /\ [y EXCEPT !.status = "pending"].key = y.key
  BY DEF FaqInv, FaqTypes, TypeOK, Rows, Statuses
<1>3. \A x \in rows' : \E y \in rows :
         /\ x \in Rows /\ x.key = y.key
         /\ x = IF y.status = "null" THEN [y EXCEPT !.status = "pending"] ELSE y
  BY <1>2 DEF EnsureTable, FaqInv, FaqTypes, TypeOK, Rows
<1>4. rows' \subseteq Rows /\ KeysDiffer'
  BY <1>3 DEF FaqInv, KeysDiffer
<1>5. FaqTypes' /\ Caught'
  BY <1>1, <1>4 DEF FaqInv, FaqTypes, TypeOK, Rows, Caught
<1> QED BY <1>1, <1>4, <1>5 DEF FaqInv

LEMMA FaqStarts ==
    ASSUME Init
    PROVE  FaqInv
<1>1. rows \subseteq Rows /\ KeysDiffer
  <2>1. CASE rows = {}
    BY <2>1 DEF KeysDiffer
  <2>2. ASSUME NEW i \in Ids, NEW k \in Keys, NEW a \in Answers, NEW s \in {"null", "pending"},
               rows = {[id |-> i, key |-> k, answer |-> a, status |-> s]}
        PROVE  rows \subseteq Rows /\ KeysDiffer
    BY <2>2 DEF Rows, Statuses, KeysDiffer
  <2> QED BY <2>1, <2>2 DEF Init
<1>2. \A r \in Requests : pc[r] = "idle"
  BY DEF Init
<1>3. rows \subseteq [id : Ids, key : Keys, answer : Answers, status : Statuses \cup {"null"}]
  BY <1>1 DEF Rows
<1>4. pc \in [Requests -> Resyncing \cup {"idle", "edit", "purge"}]
  BY DEF Init
<1>5. TypeOK
  BY <1>1, <1>3, <1>4 DEF Init, TypeOK
<1>6. FaqTypes
  BY <1>2, <1>5 DEF Init, FaqTypes
<1> QED BY <1>1, <1>2, <1>6 DEF Init, FaqInv, Caught

LEMMA FaqStays ==
    ASSUME FaqInv, [Next]_vars
    PROVE  FaqInv'
<1>1. CASE UNCHANGED vars
  <2>1. UNCHANGED <<rows, ready, index, pc, todo, item, edit, trouble>>
    BY <1>1 DEF vars
  <2>2. TypeOK' /\ KeysDiffer'
    BY <2>1 DEF FaqInv, FaqTypes, TypeOK, KeysDiffer
  <2>3. FaqTypes' /\ KeysDiffer'
    BY <2>1, <2>2 DEF FaqInv, FaqTypes
  <2>4. \A s \in Requests : (Catches(s) => Catches(s)') /\ (CatchesAll(s) => CatchesAll(s)')
    BY <2>1 DEF Catches, CatchesAll, Covered, Exact
  <2>5. Caught'
    BY <2>1, <2>4 DEF FaqInv, Caught, Catching, CatchingAll, OneResync, Resyncs, Covered, Exact
  <2> QED BY <2>1, <2>3, <2>5 DEF FaqInv
<1>2. ASSUME NEW r \in Requests,
             \/ Write(r) \/ EditWrite(r) \/ Purge(r) \/ Wipe(r)
             \/ Resync(r) \/ Abandon(r)
      PROVE  FaqInv'
  <2>1. ready /\ ready' = ready
    BY <1>2 DEF FaqInv, Write, EditWrite, Purge, Wipe, Resync, Abandon, Ingest, EditRead, Delete,
                ClearAll, SemanticDelete, Starts, Dump, Clear, Finish, Mark, Add, MarkSynced,
                MarkFailed, Reports
  <2>2. CASE Write(r)
    BY <2>1, <2>2, IngestStays, EditReadStays, DeleteStays, ClearAllStays, SemanticDeleteStays
       DEF Write, FaqInv
  <2>3. CASE EditWrite(r) \/ Purge(r) \/ Wipe(r) \/ Abandon(r)
    BY <2>1, <2>3, EditWriteStays, PurgeStays, WipeStays, AbandonStays DEF FaqInv
  <2>4. CASE Dump(r) \/ Clear(r) \/ Finish(r) \/ Mark(r) \/ Add(r)
    BY <2>1, <2>4, DumpStays, ClearStays, FinishStays, MarkStays, AddStays DEF FaqInv
  <2>5. CASE MarkSynced(r)
    <3>1. pc[r] = "added" /\ Reports(r, "synced", "fail") /\ "synced" \in Statuses
      BY <2>5 DEF MarkSynced, Statuses
    <3> QED BY <2>1, <3>1, ReportsStay DEF FaqInv
  <2>6. CASE MarkFailed(r)
    <3>1. pc[r] = "fail" /\ Reports(r, "failed", "next") /\ "failed" \in Statuses
      BY <2>6 DEF MarkFailed, Statuses
    <3> QED BY <2>1, <3>1, ReportsStay DEF FaqInv
  <2> QED BY <1>2, <2>2, <2>3, <2>4, <2>5, <2>6 DEF Resync
<1> QED BY <1>1, <1>2, EnsureTableStays DEF Next

(* Whatever requests overlap or fail, the resync under way still has to add   *)
(* what the collection lacks, as far as the grade of the trouble promises.  *)
THEOREM FaqInvariant == SearchSpec => []FaqInv
<1>1. SearchInit => FaqInv
  BY FaqStarts DEF SearchInit
<1>2. FaqInv /\ [SearchNext]_searchVars => FaqInv'
  BY OneStoreMoves, FaqStays
<1> QED BY <1>1, <1>2, PTL DEF SearchSpec

(* The vector store may fail at any call: as long as resyncs do not overlap   *)
(* and the table answers, no row is shown as vectorized without its document.*)
THEOREM SyncedRowsAreIndexed == SearchSpec => []SyncedIsIndexed
<1>1. FaqInv => SyncedIsIndexed
  BY DEF FaqInv, Caught, Catching, SyncedIsIndexed, AtRest, Resyncs, Resyncing, Covered
<1> QED BY <1>1, FaqInvariant, PTL

(* With Milvus one write that resyncs alone and without a failure repairs all *)
(* that went wrong before.                                                  *)
THEOREM ResyncRepairs ==
    ASSUME Backend = "milvus"
    PROVE  SearchSpec => []IndexIsTable
<1>1. FaqInv => IndexIsTable
  BY DEF FaqInv, Caught, CatchingAll, IndexIsTable, AtRest, Exact
<1> QED BY <1>1, FaqInvariant, PTL

(* With Milvus no search answers after it with a deleted question, nor with   *)
(* an answer that has been edited; with pgvector it may.                     *)
THEOREM DeletedAreGone ==
    ASSUME Backend = "milvus"
    PROVE  SearchSpec => []DeletedIsGone
<1>1. IndexIsTable => DeletedIsGone
  BY DEF IndexIsTable, DeletedIsGone, SemanticSearch, SearchLocal
<1> QED BY <1>1, ResyncRepairs, PTL

=============================================================================
