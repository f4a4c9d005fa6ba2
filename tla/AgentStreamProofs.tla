------------------------- MODULE AgentStreamProofs -------------------------
(***************************************************************************)
(* Proofs about the coroutines of a stream (AgentStream) for any number of *)
(* attempts, any capture limit and either setting of the two switches;     *)
(* about the status the widget polls, whose specification implements that  *)
(* of the stream; and about the judge's queue (ShadowQueue) for any traces,*)
(* limits and number of retries: where a trace is, and that it does not    *)
(* circulate for ever.                                                     *)
(***************************************************************************)
EXTENDS EvalStatus, ShadowQueue, FiniteSetTheorems, TLAPS


(* A snapshot of a collector is a row with its status.                      *)
LEMMA DictIsRow ==
    ASSUME NEW c \in Collectors, NEW category \in BOOLEAN, NEW n \in 0..MaxEvents
    PROVE  /\ Dict(c, category, n) \in States
           /\ Dict(c, category, n).status = c.status
           /\ Dict(c, category, n) # NoRow
BY NoRowAssumption DEF Dict, States, Collectors

(* The collector never keeps more than MaxEvents events.                    *)
LEMMA AddedBounded ==
    ASSUME NEW es \in Seq(Events), Len(es) <= MaxEvents, NEW e \in Events
    PROVE  Added(es, e) \in Seq(Events) /\ Len(Added(es, e)) <= MaxEvents
BY ConstantsAssumption DEF Added


LEMMA RateLimitedStep ==
    ASSUME StreamInv, RateLimited
    PROVE  StreamInv'
<1> USE ConstantsAssumption, NoRowAssumption DEF StreamInv, Tasks, Persisters, Moves
<1>1. TypeOK'
  BY SMTT(60) DEF TypeOK, SnapsAgree, Budgets, Writing, States, Labels, Collectors, Statuses,
                  ShadowStates, InlineStates, Events, request, stores, RateLimited, Answers
<1>2. SnapsAgree'
  BY SMTT(60) DEF TypeOK, SnapsAgree, Writing, States, Collectors, Statuses, request, stores,
                  RateLimited, Answers
<1>3. Budgets'
  BY SMTT(60) DEF TypeOK, SnapsAgree, Budgets, request, stores,
                  RateLimited, Answers
<1> QED BY <1>1, <1>2, <1>3

LEMMA SetupFailsStep ==
    ASSUME StreamInv, SetupFails
    PROVE  StreamInv'
<1> USE ConstantsAssumption, NoRowAssumption DEF StreamInv, Tasks, Persisters, Moves
<1>1. TypeOK'
  BY SMTT(60) DEF TypeOK, SnapsAgree, Budgets, Writing, States, Labels, Collectors, Statuses,
                  ShadowStates, InlineStates, Events, request, stores, SetupFails, Answers
<1>2. SnapsAgree'
  BY SMTT(60) DEF TypeOK, SnapsAgree, Writing, States, Collectors, Statuses, request, stores,
                  SetupFails, Answers
<1>3. Budgets'
  BY SMTT(60) DEF TypeOK, SnapsAgree, Budgets, request, stores,
                  SetupFails, Answers
<1> QED BY <1>1, <1>2, <1>3

LEMMA AdmitStep ==
    ASSUME StreamInv, Admit
    PROVE  StreamInv'
<1> USE ConstantsAssumption, NoRowAssumption DEF StreamInv, Tasks, Persisters, Moves
<1>1. TypeOK'
  BY SMTT(60) DEF TypeOK, SnapsAgree, Budgets, Writing, States, Labels, Collectors, Statuses,
                  ShadowStates, InlineStates, Events, request, stores, Admit
<1>2. SnapsAgree'
  BY SMTT(60) DEF TypeOK, SnapsAgree, Writing, States, Collectors, Statuses, request, stores,
                  Admit
<1>3. Budgets'
  BY SMTT(60) DEF TypeOK, SnapsAgree, Budgets, request, stores,
                  Admit
<1> QED BY <1>1, <1>2, <1>3

LEMMA ToolEventStep ==
    ASSUME StreamInv, ToolEvent
    PROVE  StreamInv'
<1> USE ConstantsAssumption, NoRowAssumption DEF StreamInv, Tasks, Persisters, Moves
<1>1. TypeOK'
  BY SMTT(60) DEF TypeOK, SnapsAgree, Budgets, Writing, States, Labels, Collectors, Statuses,
                  ShadowStates, InlineStates, Events, request, stores, ToolEvent, Added
<1>2. SnapsAgree'
  BY SMTT(60) DEF TypeOK, SnapsAgree, Writing, States, Collectors, Statuses, request, stores,
                  ToolEvent, Added
<1>3. Budgets'
  BY SMTT(60) DEF TypeOK, SnapsAgree, Budgets, request, stores,
                  ToolEvent, Added
<1> QED BY <1>1, <1>2, <1>3

LEMMA AbandonStep ==
    ASSUME StreamInv, Abandon
    PROVE  StreamInv'
<1> USE ConstantsAssumption, NoRowAssumption DEF StreamInv, Tasks, Persisters, Moves
<1>1. TypeOK'
  BY SMTT(60) DEF TypeOK, SnapsAgree, Budgets, Writing, States, Labels, Collectors, Statuses,
                  ShadowStates, InlineStates, Events, request, stores, Abandon, LeavesTasks, StoredUpTo
<1>2. SnapsAgree'
  BY SMTT(60) DEF TypeOK, SnapsAgree, Writing, States, Collectors, Statuses, request, stores,
                  Abandon, LeavesTasks, StoredUpTo
<1>3. Budgets'
  BY SMTT(60) DEF TypeOK, SnapsAgree, Budgets, request, stores,
                  Abandon, LeavesTasks, StoredUpTo
<1> QED BY <1>1, <1>2, <1>3

LEMMA BlockedAnswerStep ==
    ASSUME StreamInv, BlockedAnswer
    PROVE  StreamInv'
<1> USE ConstantsAssumption DEF StreamInv, Tasks, Persisters, Moves
<1>1. collector' \in Collectors
  BY DEF TypeOK, Collectors, Statuses, ShadowStates, InlineStates, BlockedAnswer, PersistStarts
<1>2. events' \in Seq(Events) /\ Len(events') <= MaxEvents /\ Len(events') \in 0..MaxEvents
  BY AddedBounded DEF TypeOK, Events, BlockedAnswer
<1>3. Takes("stream", Dict(collector', TRUE, Len(events')))
  BY DEF BlockedAnswer, PersistStarts
<1>4. /\ snap' \in [Tasks -> States \cup {NoRow}]
      /\ overlap' \in BOOLEAN
      /\ snap'["stream"] # NoRow /\ snap'["stream"].status = collector'.status
      /\ \A u \in Tasks : u # "stream" => snap'[u] = snap[u]
  <2>1. /\ Dict(collector', TRUE, Len(events')) \in States
        /\ Dict(collector', TRUE, Len(events')).status = collector'.status
        /\ Dict(collector', TRUE, Len(events')) # NoRow
    BY <1>1, <1>2, DictIsRow
  <2>2. snap' = [snap EXCEPT !["stream"] = Dict(collector', TRUE, Len(events'))] /\ overlap' \in BOOLEAN
    BY <1>3 DEF Takes, Writing, TypeOK
  <2> QED BY <2>1, <2>2 DEF TypeOK
<1>5. TypeOK'
  BY <1>1, <1>2, <1>4, SMTT(60) DEF TypeOK, SnapsAgree, Budgets, Labels, States, request, stores,
                                  BlockedAnswer, PersistStarts
<1>6. SnapsAgree'
  BY <1>1, <1>4, SMTT(60) DEF TypeOK, SnapsAgree, Writing, States, request, stores,
                                  BlockedAnswer, PersistStarts
<1>7. Budgets'
  BY SMTT(60) DEF TypeOK, SnapsAgree, Budgets, request, stores, BlockedAnswer, PersistStarts
<1> QED BY <1>5, <1>6, <1>7

LEMMA GraphEndsStep ==
    ASSUME StreamInv, GraphEnds
    PROVE  StreamInv'
<1> USE ConstantsAssumption DEF StreamInv, Tasks, Persisters, Moves
<1>1. collector' \in Collectors
  BY DEF TypeOK, Collectors, Statuses, ShadowStates, GraphEnds, Done, JudgeBranch
<1>2. events' \in Seq(Events) /\ Len(events') <= MaxEvents
  BY AddedBounded DEF TypeOK, Events, GraphEnds, Done
<1>3. TypeOK'
  BY <1>1, <1>2, SMTT(60) DEF TypeOK, Labels, request, stores, GraphEnds
<1>4. SnapsAgree'
  BY SMTT(60) DEF TypeOK, SnapsAgree, Writing, request, stores, GraphEnds
<1>5. Budgets'
  BY SMTT(60) DEF TypeOK, Budgets, request, stores, GraphEnds
<1> QED BY <1>3, <1>4, <1>5

LEMMA GraphFailsStep ==
    ASSUME StreamInv, GraphFails
    PROVE  StreamInv'
<1> USE ConstantsAssumption DEF StreamInv, Tasks, Persisters, Moves
<1>1. collector' \in Collectors
  <2>1. collector' = [collector EXCEPT !.status = "error", !.shadow = JudgeBranch]
    BY DEF GraphFails, Done
  <2>2. collector \in Collectors /\ "error" \in Statuses /\ JudgeBranch \in ShadowStates
    BY DEF TypeOK, Statuses, ShadowStates, JudgeBranch
  <2> QED BY <2>1, <2>2 DEF Collectors
<1>2. events' \in Seq(Events) /\ Len(events') <= MaxEvents /\ Len(events') \in 0..MaxEvents
  BY AddedBounded DEF TypeOK, Events, GraphFails, Done, PersistStarts
<1>3. Takes("stream", Dict(collector', TRUE, Len(events')))
  BY DEF GraphFails, PersistStarts, Done, JudgeBranch
<1>4. /\ snap' \in [Tasks -> States \cup {NoRow}]
      /\ overlap' \in BOOLEAN
      /\ snap'["stream"] # NoRow /\ snap'["stream"].status = collector'.status
      /\ \A u \in Tasks : u # "stream" => snap'[u] = snap[u]
  <2>1. /\ Dict(collector', TRUE, Len(events')) \in States
        /\ Dict(collector', TRUE, Len(events')).status = collector'.status
        /\ Dict(collector', TRUE, Len(events')) # NoRow
    BY <1>1, <1>2, DictIsRow
  <2>2. snap' = [snap EXCEPT !["stream"] = Dict(collector', TRUE, Len(events'))] /\ overlap' \in BOOLEAN
    BY <1>3 DEF Takes, Writing, TypeOK
  <2> QED BY <2>1, <2>2 DEF TypeOK
<1>5. TypeOK'
  BY <1>1, <1>2, <1>4, SMTT(60) DEF TypeOK, SnapsAgree, Budgets, Labels, States, request, stores,
                                  GraphFails, PersistStarts, Done, JudgeBranch
<1>6. SnapsAgree'
  BY <1>1, <1>4, SMTT(60) DEF TypeOK, SnapsAgree, Writing, States, request, stores,
                                  GraphFails, PersistStarts, Done, JudgeBranch
<1>7. Budgets'
  BY SMTT(60) DEF TypeOK, SnapsAgree, Budgets, request, stores, GraphFails, PersistStarts, Done, JudgeBranch
<1> QED BY <1>5, <1>6, <1>7

LEMMA TurnSavedStep ==
    ASSUME StreamInv, TurnSaved
    PROVE  StreamInv'
<1> USE ConstantsAssumption DEF StreamInv, Tasks, Persisters, Moves
<1>1. collector' \in Collectors /\ collector'.status = collector.status
  BY DEF TypeOK, Collectors, Statuses, ShadowStates, InlineStates, TurnSaved, PersistStarts
<1>2. events' \in Seq(Events) /\ Len(events') <= MaxEvents /\ Len(events') \in 0..MaxEvents
  BY DEF TypeOK, TurnSaved
<1>3. Takes("stream", Dict(collector', TRUE, Len(events')))
  BY DEF TurnSaved, PersistStarts
<1>4. /\ snap' \in [Tasks -> States \cup {NoRow}]
      /\ overlap' \in BOOLEAN
      /\ snap'["stream"] # NoRow /\ snap'["stream"].status = collector'.status
      /\ \A u \in Tasks : u # "stream" => snap'[u] = snap[u]
  <2>1. /\ Dict(collector', TRUE, Len(events')) \in States
        /\ Dict(collector', TRUE, Len(events')).status = collector'.status
        /\ Dict(collector', TRUE, Len(events')) # NoRow
    BY <1>1, <1>2, DictIsRow
  <2>2. snap' = [snap EXCEPT !["stream"] = Dict(collector', TRUE, Len(events'))] /\ overlap' \in BOOLEAN
    BY <1>3 DEF Takes, Writing, TypeOK
  <2> QED BY <2>1, <2>2 DEF TypeOK
<1>5. TypeOK'
  BY <1>1, <1>2, <1>4, SMTT(60) DEF TypeOK, SnapsAgree, Budgets, Labels, States, request, stores,
                                  TurnSaved, PersistStarts
<1>6. SnapsAgree'
  BY <1>1, <1>4, SMTT(60) DEF TypeOK, SnapsAgree, Writing, States, request, stores,
                                  TurnSaved, PersistStarts
<1>7. Budgets'
  BY SMTT(60) DEF TypeOK, SnapsAgree, Budgets, request, stores, TurnSaved, PersistStarts
<1> QED BY <1>5, <1>6, <1>7

LEMMA SendFinalEventsStep ==
    ASSUME StreamInv, SendFinalEvents
    PROVE  StreamInv'
<1> USE ConstantsAssumption, NoRowAssumption DEF StreamInv, Tasks, Persisters, Moves
<1>1. TypeOK'
  BY SMTT(60) DEF TypeOK, SnapsAgree, Budgets, Writing, States, Labels, Collectors, Statuses,
                  ShadowStates, InlineStates, Events, request, stores, SendFinalEvents, LeavesTasks
<1>2. SnapsAgree'
  BY SMTT(60) DEF TypeOK, SnapsAgree, Writing, States, Collectors, Statuses, request, stores,
                  SendFinalEvents, LeavesTasks
<1>3. Budgets'
  BY SMTT(60) DEF TypeOK, SnapsAgree, Budgets, request, stores,
                  SendFinalEvents, LeavesTasks
<1> QED BY <1>1, <1>2, <1>3

LEMMA SkipEvaluationStep ==
    ASSUME StreamInv, SkipEvaluation
    PROVE  StreamInv'
<1> USE ConstantsAssumption DEF StreamInv, Tasks, Persisters, Moves
<1>1. collector' \in Collectors /\ collector'.status = collector.status
  BY DEF TypeOK, Collectors, Statuses, ShadowStates, InlineStates, SkipEvaluation, EndsInline
<1>2. events' \in Seq(Events) /\ Len(events') <= MaxEvents /\ 0 \in 0..MaxEvents
  BY DEF TypeOK, SkipEvaluation
<1>3. Takes("commit", Dict(collector', FALSE, 0))
  BY DEF SkipEvaluation, EndsInline
<1>4. /\ snap' \in [Tasks -> States \cup {NoRow}]
      /\ overlap' \in BOOLEAN
      /\ snap'["commit"] # NoRow /\ snap'["commit"].status = collector'.status
      /\ \A u \in Tasks : u # "commit" => snap'[u] = snap[u]
  <2>1. /\ Dict(collector', FALSE, 0) \in States
        /\ Dict(collector', FALSE, 0).status = collector'.status
        /\ Dict(collector', FALSE, 0) # NoRow
    BY <1>1, <1>2, DictIsRow
  <2>2. snap' = [snap EXCEPT !["commit"] = Dict(collector', FALSE, 0)] /\ overlap' \in BOOLEAN
    BY <1>3 DEF Takes, Writing, TypeOK
  <2> QED BY <2>1, <2>2 DEF TypeOK
<1>5. TypeOK'
  BY <1>1, <1>2, <1>4, SMTT(60) DEF TypeOK, SnapsAgree, Budgets, Labels, States, request, stores,
                                  SkipEvaluation, EndsInline
<1>6. SnapsAgree'
  BY <1>1, <1>4, SMTT(60) DEF TypeOK, SnapsAgree, Writing, States, request, stores,
                                  SkipEvaluation, EndsInline
<1>7. Budgets'
  BY SMTT(60) DEF TypeOK, SnapsAgree, Budgets, request, stores, SkipEvaluation, EndsInline
<1> QED BY <1>5, <1>6, <1>7

LEMMA EvaluateStep ==
    ASSUME StreamInv, Evaluate
    PROVE  StreamInv'
<1> USE ConstantsAssumption, NoRowAssumption DEF StreamInv, Tasks, Persisters, Moves
<1>1. TypeOK'
  BY SMTT(60) DEF TypeOK, SnapsAgree, Budgets, Writing, States, Labels, Collectors, Statuses,
                  ShadowStates, InlineStates, Events, request, stores, Evaluate
<1>2. SnapsAgree'
  BY SMTT(60) DEF TypeOK, SnapsAgree, Writing, States, Collectors, Statuses, request, stores,
                  Evaluate
<1>3. Budgets'
  BY SMTT(60) DEF TypeOK, SnapsAgree, Budgets, request, stores,
                  Evaluate
<1> QED BY <1>1, <1>2, <1>3

LEMMA EvaluationEndsStep ==
    ASSUME StreamInv, EvaluationEnds
    PROVE  StreamInv'
<1> USE ConstantsAssumption DEF StreamInv, Tasks, Persisters, Moves
<1>1. collector' \in Collectors /\ collector'.status = collector.status
  BY DEF TypeOK, Collectors, Statuses, ShadowStates, InlineStates, EvaluationEnds, EndsInline
<1>2. events' \in Seq(Events) /\ Len(events') <= MaxEvents /\ Len(events) \in 0..MaxEvents
  BY DEF TypeOK, EvaluationEnds
<1>3. Takes("commit", Dict(collector', FALSE, Len(events)))
  BY DEF EvaluationEnds, EndsInline
<1>4. /\ snap' \in [Tasks -> States \cup {NoRow}]
      /\ overlap' \in BOOLEAN
      /\ snap'["commit"] # NoRow /\ snap'["commit"].status = collector'.status
      /\ \A u \in Tasks : u # "commit" => snap'[u] = snap[u]
  <2>1. /\ Dict(collector', FALSE, Len(events)) \in States
        /\ Dict(collector', FALSE, Len(events)).status = collector'.status
        /\ Dict(collector', FALSE, Len(events)) # NoRow
    BY <1>1, <1>2, DictIsRow
  <2>2. snap' = [snap EXCEPT !["commit"] = Dict(collector', FALSE, Len(events))] /\ overlap' \in BOOLEAN
    BY <1>3 DEF Takes, Writing, TypeOK
  <2> QED BY <2>1, <2>2 DEF TypeOK
<1>5. TypeOK'
  BY <1>1, <1>2, <1>4, SMTT(60) DEF TypeOK, SnapsAgree, Budgets, Labels, States, request, stores,
                                  EvaluationEnds, EndsInline
<1>6. SnapsAgree'
  BY <1>1, <1>4, SMTT(60) DEF TypeOK, SnapsAgree, Writing, States, request, stores,
                                  EvaluationEnds, EndsInline
<1>7. Budgets'
  BY SMTT(60) DEF TypeOK, SnapsAgree, Budgets, request, stores, EvaluationEnds, EndsInline
<1> QED BY <1>5, <1>6, <1>7

LEMMA EvaluationFailsStep ==
    ASSUME StreamInv, EvaluationFails
    PROVE  StreamInv'
<1> USE ConstantsAssumption DEF StreamInv, Tasks, Persisters, Moves
<1>1. collector' \in Collectors /\ collector'.status = collector.status
  BY DEF TypeOK, Collectors, Statuses, ShadowStates, InlineStates, EvaluationFails, EndsInline, Faulted, FaultCap
<1>2. events' \in Seq(Events) /\ Len(events') <= MaxEvents /\ 0 \in 0..MaxEvents
  BY DEF TypeOK, EvaluationFails
<1>3. Takes("commit", Dict(collector', FALSE, 0))
  BY DEF EvaluationFails, EndsInline, Faulted, FaultCap
<1>4. /\ snap' \in [Tasks -> States \cup {NoRow}]
      /\ overlap' \in BOOLEAN
      /\ snap'["commit"] # NoRow /\ snap'["commit"].status = collector'.status
      /\ \A u \in Tasks : u # "commit" => snap'[u] = snap[u]
  <2>1. /\ Dict(collector', FALSE, 0) \in States
        /\ Dict(collector', FALSE, 0).status = collector'.status
        /\ Dict(collector', FALSE, 0) # NoRow
    BY <1>1, <1>2, DictIsRow
  <2>2. snap' = [snap EXCEPT !["commit"] = Dict(collector', FALSE, 0)] /\ overlap' \in BOOLEAN
    BY <1>3 DEF Takes, Writing, TypeOK
  <2> QED BY <2>1, <2>2 DEF TypeOK
<1>5. TypeOK'
  BY <1>1, <1>2, <1>4, SMTT(60) DEF TypeOK, SnapsAgree, Budgets, Labels, States, request, stores,
                                  EvaluationFails, EndsInline, Faulted, FaultCap
<1>6. SnapsAgree'
  BY <1>1, <1>4, SMTT(60) DEF TypeOK, SnapsAgree, Writing, States, request, stores,
                                  EvaluationFails, EndsInline, Faulted, FaultCap
<1>7. Budgets'
  BY SMTT(60) DEF TypeOK, SnapsAgree, Budgets, request, stores, EvaluationFails, EndsInline, Faulted, FaultCap
<1> QED BY <1>5, <1>6, <1>7

LEMMA CommitRowStep ==
    ASSUME StreamInv, CommitRow
    PROVE  StreamInv'
<1> USE ConstantsAssumption, NoRowAssumption DEF StreamInv, Tasks, Persisters, Moves
<1>1. TypeOK'
  BY SMTT(60) DEF TypeOK, SnapsAgree, Budgets, Writing, States, Labels, Collectors, Statuses,
                  ShadowStates, InlineStates, Events, request, stores, CommitRow
<1>2. SnapsAgree'
  BY SMTT(60) DEF TypeOK, SnapsAgree, Writing, States, Collectors, Statuses, request, stores,
                  CommitRow
<1>3. Budgets'
  BY SMTT(60) DEF TypeOK, SnapsAgree, Budgets, request, stores,
                  CommitRow
<1> QED BY <1>1, <1>2, <1>3

LEMMA CommitDetailsStep ==
    ASSUME StreamInv, CommitDetails
    PROVE  StreamInv'
<1> USE ConstantsAssumption, NoRowAssumption DEF StreamInv, Tasks, Persisters, Moves
<1>1. TypeOK'
  BY SMTT(60) DEF TypeOK, SnapsAgree, Budgets, Writing, States, Labels, Collectors, Statuses,
                  ShadowStates, InlineStates, Events, request, stores, CommitDetails, StoredUpTo
<1>2. SnapsAgree'
  BY SMTT(60) DEF TypeOK, SnapsAgree, Writing, States, Collectors, Statuses, request, stores,
                  CommitDetails, StoredUpTo
<1>3. Budgets'
  BY SMTT(60) DEF TypeOK, SnapsAgree, Budgets, request, stores,
                  CommitDetails, StoredUpTo
<1> QED BY <1>1, <1>2, <1>3

LEMMA CommitFailsStep ==
    ASSUME StreamInv, CommitFails
    PROVE  StreamInv'
<1> USE ConstantsAssumption DEF StreamInv, Tasks, Persisters, Moves
<1>1. collector' \in Collectors /\ collector'.status = collector.status
  BY DEF TypeOK, Collectors, Statuses, ShadowStates, InlineStates, CommitFails, EndsInline, WriteLost, StoredUpTo, Faulted, FaultCap
<1>2. events' \in Seq(Events) /\ Len(events') <= MaxEvents /\ 0 \in 0..MaxEvents
  BY DEF TypeOK, WriteLost, CommitFails
<1>3. Takes("commit", Dict(collector', FALSE, 0))
  BY DEF CommitFails, EndsInline, WriteLost, StoredUpTo, Faulted, FaultCap
<1>4. /\ snap' \in [Tasks -> States \cup {NoRow}]
      /\ overlap' \in BOOLEAN
      /\ snap'["commit"] # NoRow /\ snap'["commit"].status = collector'.status
      /\ \A u \in Tasks : u # "commit" => snap'[u] = snap[u]
  <2>1. /\ Dict(collector', FALSE, 0) \in States
        /\ Dict(collector', FALSE, 0).status = collector'.status
        /\ Dict(collector', FALSE, 0) # NoRow
    BY <1>1, <1>2, DictIsRow
  <2>2. snap' = [snap EXCEPT !["commit"] = Dict(collector', FALSE, 0)] /\ overlap' \in BOOLEAN
    BY <1>3 DEF Takes, Writing, TypeOK
  <2> QED BY <2>1, <2>2 DEF TypeOK
<1>5. row' \in States \cup {NoRow} /\ stored' \in 0..MaxEvents /\ faults' \in 0..FaultCap
  BY SMTT(60) DEF TypeOK, SnapsAgree, Writing, States, FaultCap, CommitFails, WriteLost,
                  StoredUpTo, Faulted
<1>6. TypeOK'
  BY <1>1, <1>2, <1>4, <1>5, SMTT(60) DEF TypeOK, Labels, request, CommitFails, WriteLost,
                                          EndsInline
<1>7. SnapsAgree'
  BY <1>1, <1>4, SMTT(60) DEF TypeOK, SnapsAgree, Writing, States, request, stores,
                                  CommitFails, EndsInline, WriteLost, StoredUpTo, Faulted, FaultCap
<1>8. Budgets'
  BY SMTT(60) DEF TypeOK, SnapsAgree, Budgets, request, stores, CommitFails, EndsInline, WriteLost, StoredUpTo, Faulted, FaultCap
<1> QED BY <1>6, <1>7, <1>8

LEMMA ReportFailsStep ==
    ASSUME StreamInv, ReportFails
    PROVE  StreamInv'
<1> USE ConstantsAssumption, NoRowAssumption DEF StreamInv, Tasks, Persisters, Moves
<1>1. TypeOK'
  BY SMTT(60) DEF TypeOK, SnapsAgree, Budgets, Writing, States, Labels, Collectors, Statuses,
                  ShadowStates, InlineStates, Events, request, stores, ReportFails, WriteLost, StoredUpTo, Faulted, FaultCap
<1>2. SnapsAgree'
  BY SMTT(60) DEF TypeOK, SnapsAgree, Writing, States, Collectors, Statuses, request, stores,
                  ReportFails, WriteLost, StoredUpTo, Faulted, FaultCap
<1>3. Budgets'
  BY SMTT(60) DEF TypeOK, SnapsAgree, Budgets, request, stores,
                  ReportFails, WriteLost, StoredUpTo, Faulted, FaultCap
<1> QED BY <1>1, <1>2, <1>3

LEMMA PushStep ==
    ASSUME StreamInv, Push
    PROVE  StreamInv'
<1> USE ConstantsAssumption, NoRowAssumption DEF StreamInv, Tasks, Persisters, Moves
<1>1. TypeOK'
  BY SMTT(60) DEF TypeOK, SnapsAgree, Budgets, Writing, States, Labels, Collectors, Statuses,
                  ShadowStates, InlineStates, Events, request, stores, Push
<1>2. SnapsAgree'
  BY SMTT(60) DEF TypeOK, SnapsAgree, Writing, States, Collectors, Statuses, request, stores,
                  Push
<1>3. Budgets'
  BY SMTT(60) DEF TypeOK, SnapsAgree, Budgets, request, stores,
                  Push
<1> QED BY <1>1, <1>2, <1>3

LEMMA PushFailsStep ==
    ASSUME StreamInv, PushFails
    PROVE  StreamInv'
<1> USE ConstantsAssumption DEF StreamInv, Tasks, Persisters, Moves
<1>1. collector' \in Collectors /\ collector'.status = collector.status
  BY DEF TypeOK, Collectors, Statuses, ShadowStates, InlineStates, PushFails, PersistStarts
<1>2. events' \in Seq(Events) /\ Len(events') <= MaxEvents /\ Len(events') \in 0..MaxEvents
  BY DEF TypeOK, PushFails
<1>3. Takes("enqueue", Dict(collector', TRUE, Len(events')))
  BY DEF PushFails, PersistStarts
<1>4. /\ snap' \in [Tasks -> States \cup {NoRow}]
      /\ overlap' \in BOOLEAN
      /\ snap'["enqueue"] # NoRow /\ snap'["enqueue"].status = collector'.status
      /\ \A u \in Tasks : u # "enqueue" => snap'[u] = snap[u]
  <2>1. /\ Dict(collector', TRUE, Len(events')) \in States
        /\ Dict(collector', TRUE, Len(events')).status = collector'.status
        /\ Dict(collector', TRUE, Len(events')) # NoRow
    BY <1>1, <1>2, DictIsRow
  <2>2. snap' = [snap EXCEPT !["enqueue"] = Dict(collector', TRUE, Len(events'))] /\ overlap' \in BOOLEAN
    BY <1>3 DEF Takes, Writing, TypeOK
  <2> QED BY <2>1, <2>2 DEF TypeOK
<1>5. TypeOK'
  BY <1>1, <1>2, <1>4, SMTT(60) DEF TypeOK, SnapsAgree, Budgets, Labels, States, request, stores,
                                  PushFails, PersistStarts
<1>6. SnapsAgree'
  BY <1>1, <1>4, SMTT(60) DEF TypeOK, SnapsAgree, Writing, States, request, stores,
                                  PushFails, PersistStarts
<1>7. Budgets'
  BY SMTT(60) DEF TypeOK, SnapsAgree, Budgets, request, stores, PushFails, PersistStarts
<1> QED BY <1>5, <1>6, <1>7

LEMMA UpsertRowStep ==
    ASSUME StreamInv, NEW t \in Persisters, UpsertRow(t)
    PROVE  StreamInv'
<1> USE ConstantsAssumption, NoRowAssumption DEF StreamInv, Tasks, Persisters, Moves
<1>1. TypeOK'
  BY SMTT(60) DEF TypeOK, SnapsAgree, Budgets, Writing, States, Labels, Collectors, Statuses,
                  ShadowStates, InlineStates, Events, request, stores, UpsertRow, AfterPersist
<1>2. SnapsAgree'
  BY SMTT(60) DEF TypeOK, SnapsAgree, Writing, States, Collectors, Statuses, request, stores,
                  UpsertRow, AfterPersist
<1>3. Budgets'
  BY SMTT(60) DEF TypeOK, SnapsAgree, Budgets, request, stores,
                  UpsertRow, AfterPersist
<1> QED BY <1>1, <1>2, <1>3

LEMMA StoreEventsStep ==
    ASSUME StreamInv, NEW t \in Persisters, StoreEvents(t)
    PROVE  StreamInv'
<1> USE ConstantsAssumption, NoRowAssumption DEF StreamInv, Tasks, Persisters, Moves
<1>1. TypeOK'
  BY SMTT(60) DEF TypeOK, SnapsAgree, Budgets, Writing, States, Labels, Collectors, Statuses,
                  ShadowStates, InlineStates, Events, request, stores, StoreEvents, AfterPersist, StoredUpTo
<1>2. SnapsAgree'
  BY SMTT(60) DEF TypeOK, SnapsAgree, Writing, States, Collectors, Statuses, request, stores,
                  StoreEvents, AfterPersist, StoredUpTo
<1>3. Budgets'
  BY SMTT(60) DEF TypeOK, SnapsAgree, Budgets, request, stores,
                  StoreEvents, AfterPersist, StoredUpTo
<1> QED BY <1>1, <1>2, <1>3

LEMMA AttemptFailsStep ==
    ASSUME StreamInv, NEW t \in Persisters, AttemptFails(t)
    PROVE  StreamInv'
<1> USE ConstantsAssumption, NoRowAssumption DEF StreamInv, Tasks, Persisters, Moves
<1>1. TypeOK'
  BY SMTT(60) DEF TypeOK, SnapsAgree, Budgets, Writing, States, Labels, Collectors, Statuses,
                  ShadowStates, InlineStates, Events, request, stores, AttemptFails, WriteLost, StoredUpTo, AfterPersist, Faulted, FaultCap
<1>2. SnapsAgree'
  BY SMTT(60) DEF TypeOK, SnapsAgree, Writing, States, Collectors, Statuses, request, stores,
                  AttemptFails, WriteLost, StoredUpTo, AfterPersist, Faulted, FaultCap
<1>3. Budgets'
  BY SMTT(60) DEF TypeOK, SnapsAgree, Budgets, request, stores,
                  AttemptFails, WriteLost, StoredUpTo, AfterPersist, Faulted, FaultCap
<1> QED BY <1>1, <1>2, <1>3

-----------------------------------------------------------------------------
(* The invariant *)

LEMMA InitInv == Init => StreamInv
<1> SUFFICES ASSUME Init PROVE StreamInv
  OBVIOUS
<1> USE ConstantsAssumption DEF Init, Tasks, Persisters
<1>1. collector \in Collectors /\ events \in Seq(Events) /\ Len(events) <= MaxEvents
  BY DEF Collectors, Statuses, ShadowStates, InlineStates
<1>2. pc \in [Tasks -> Labels] /\ snap \in [Tasks -> States \cup {NoRow}]
  BY DEF Labels
<1>3. /\ attempts \in [Tasks -> 0..MaxAttempts] /\ stored \in 0..MaxEvents
      /\ faults \in 0..FaultCap /\ pushes \in 0..1
  BY DEF FaultCap
<1>4. TypeOK
  BY <1>1, <1>2, <1>3 DEF TypeOK
<1>5. SnapsAgree /\ Budgets
  BY DEF SnapsAgree, Budgets, Writing
<1> QED BY <1>4, <1>5 DEF StreamInv

LEMMA NextInv == StreamInv /\ [Next]_vars => StreamInv'
<1> SUFFICES ASSUME StreamInv, [Next]_vars PROVE StreamInv'
  OBVIOUS
<1>1. CASE Next
  <2>1. CASE RateLimited
    BY <2>1, RateLimitedStep
  <2>2. CASE SetupFails
    BY <2>2, SetupFailsStep
  <2>3. CASE Admit
    BY <2>3, AdmitStep
  <2>4. CASE ToolEvent
    BY <2>4, ToolEventStep
  <2>5. CASE Abandon
    BY <2>5, AbandonStep
  <2>6. CASE BlockedAnswer
    BY <2>6, BlockedAnswerStep
  <2>7. CASE GraphEnds
    BY <2>7, GraphEndsStep
  <2>8. CASE GraphFails
    BY <2>8, GraphFailsStep
  <2>9. CASE TurnSaved
    BY <2>9, TurnSavedStep
  <2>10. CASE SendFinalEvents
    BY <2>10, SendFinalEventsStep
  <2>11. CASE SkipEvaluation
    BY <2>11, SkipEvaluationStep
  <2>12. CASE Evaluate
    BY <2>12, EvaluateStep
  <2>13. CASE EvaluationEnds
    BY <2>13, EvaluationEndsStep
  <2>14. CASE EvaluationFails
    BY <2>14, EvaluationFailsStep
  <2>15. CASE CommitRow
    BY <2>15, CommitRowStep
  <2>16. CASE CommitDetails
    BY <2>16, CommitDetailsStep
  <2>17. CASE CommitFails
    BY <2>17, CommitFailsStep
  <2>18. CASE ReportFails
    BY <2>18, ReportFailsStep
  <2>19. CASE Push
    BY <2>19, PushStep
  <2>20. CASE PushFails
    BY <2>20, PushFailsStep
  <2>21. ASSUME NEW t \in Persisters, UpsertRow(t) PROVE StreamInv'
    BY <2>21, UpsertRowStep
  <2>22. ASSUME NEW t \in Persisters, StoreEvents(t) PROVE StreamInv'
    BY <2>22, StoreEventsStep
  <2>23. ASSUME NEW t \in Persisters, AttemptFails(t) PROVE StreamInv'
    BY <2>23, AttemptFailsStep
  <2>24. CASE UNCHANGED vars
    BY <2>24 DEF StreamInv, TypeOK, SnapsAgree, Budgets, Writing, vars, request, stores
  <2> QED
    BY <1>1, <2>1, <2>2, <2>3, <2>4, <2>5, <2>6, <2>7, <2>8, <2>9, <2>10, <2>11, <2>12,
       <2>13, <2>14, <2>15, <2>16, <2>17, <2>18, <2>19, <2>20, <2>21, <2>22, <2>23, <2>24
    DEF Next, Streaming, Persisting, Committing, Pushing, Rests
<1>2. CASE UNCHANGED vars
  BY <1>2 DEF StreamInv, TypeOK, SnapsAgree, Budgets, Writing, vars, request, stores
<1> QED BY <1>1, <1>2

(* Whatever the limits, the three writers' snapshots agree with the          *)
(* collector, no write is attempted too often, and the trace is pushed once. *)
THEOREM StreamInvariant == Spec => []StreamInv
<1>1. Init => StreamInv
  BY InitInv
<1>2. StreamInv /\ [Next]_vars => StreamInv'
  BY NextInv
<1> QED BY <1>1, <1>2, PTL DEF Spec

(* The stream's coroutines never use a field outside its range.             *)
THEOREM TypeCorrect == Spec => []TypeOK
<1>1. StreamInv => TypeOK
  BY DEF StreamInv
<1> QED BY <1>1, StreamInvariant, PTL

-----------------------------------------------------------------------------
(* The row *)

(* A writer writes its snapshot or nothing.                                 *)
LEMMA RowWrites ==
    ASSUME StreamInv, Next
    PROVE  row' = row \/ \E t \in Tasks : Writing(t) /\ row' = snap[t]
<1> USE DEF request, stores, Tasks, Persisters, Writing
<1>1. CASE RateLimited \/ SetupFails \/ Admit \/ ToolEvent \/ Streaming
  BY <1>1 DEF RateLimited, SetupFails, Answers, Admit, ToolEvent, Streaming, BlockedAnswer,
              GraphEnds, GraphFails, TurnSaved, SendFinalEvents
<1>2. CASE Abandon
  BY <1>2 DEF Abandon
<1>3. CASE Committing
  BY <1>3 DEF Committing, SkipEvaluation, Evaluate, EvaluationEnds, EvaluationFails, CommitRow,
              CommitDetails, CommitFails, ReportFails, WriteLost
<1>4. CASE Pushing
  BY <1>4 DEF Pushing, Push, PushFails
<1>5. ASSUME NEW t \in Persisters, Persisting(t)
      PROVE  row' = row \/ \E u \in Tasks : Writing(u) /\ row' = snap[u]
  BY <1>5 DEF Persisting, UpsertRow, StoreEvents, AttemptFails, WriteLost
<1> QED BY <1>1, <1>2, <1>3, <1>4, <1>5 DEF Next, Rests, vars

(* on_done runs before anything is written: from the first row on, the      *)
(* collector's status is fixed.                                             *)
LEMMA StatusFixed ==
    ASSUME StreamInv, Next, row # NoRow
    PROVE  collector'.status = collector.status
<1> USE DEF StreamInv, SnapsAgree, TypeOK, Collectors, request
<1>1. CASE RateLimited \/ SetupFails \/ Admit \/ ToolEvent \/ Streaming
  BY <1>1 DEF RateLimited, SetupFails, Answers, Admit, ToolEvent, Streaming, BlockedAnswer,
              GraphEnds, GraphFails, TurnSaved, SendFinalEvents
<1>2. CASE Abandon \/ Pushing
  BY <1>2 DEF Abandon, Pushing, Push, PushFails
<1>3. CASE Committing
  <2>1. ASSUME NEW inline, NEW n, NEW to, EndsInline(inline, n, to)
        PROVE  collector'.status = collector.status
    BY <2>1 DEF EndsInline
  <2>2. CASE SkipEvaluation \/ EvaluationEnds \/ EvaluationFails \/ CommitFails
    BY <2>1, <2>2 DEF SkipEvaluation, EvaluationEnds, EvaluationFails, CommitFails
  <2>3. CASE Evaluate \/ CommitRow \/ CommitDetails \/ ReportFails
    BY <2>3 DEF Evaluate, CommitRow, CommitDetails, ReportFails
  <2> QED BY <1>3, <2>2, <2>3 DEF Committing
<1>4. ASSUME NEW t \in Persisters, Persisting(t) PROVE collector'.status = collector.status
  BY <1>4 DEF Persisting, UpsertRow, StoreEvents, AttemptFails, WriteLost
<1> QED BY <1>1, <1>2, <1>3, <1>4 DEF Next, Rests, vars

(* However the writers interleave and fail, a row that exists stays, and     *)
(* keeps saying that the turn succeeded, or that it failed.                 *)
THEOREM RowStatusIsSettled == Spec => StatusSettled
<1>1. ASSUME StreamInv, StreamInv', [Next]_vars
      PROVE  [row # NoRow => row' # NoRow /\ row'.status = row.status]_vars
  <2> SUFFICES ASSUME Next, row # NoRow
               PROVE  row' # NoRow /\ row'.status = row.status
    BY <1>1 DEF vars, stores
  <2>1. row' # NoRow
    BY <1>1, RowWrites DEF StreamInv, SnapsAgree
  <2>2. row'.status = collector'.status /\ row.status = collector.status
    BY <1>1, <2>1 DEF StreamInv, SnapsAgree
  <2>3. collector'.status = collector.status
    BY <1>1, StatusFixed
  <2> QED BY <2>1, <2>2, <2>3
<1> QED BY <1>1, StreamInvariant, PTL DEF Spec, StatusSettled

-----------------------------------------------------------------------------
(* What is written *)

(* Events and details follow the row.                                       *)
RowFirst ==
    /\ \A t \in Persisters : pc[t] = "eventing" => row # NoRow
    /\ pc["commit"] = "detailing" => row # NoRow

(* The failures it takes to be without a row, at each point of the tasks.    *)
Spent == IF abandoned THEN 0 ELSE MaxAttempts

FailuresCount ==
    schema /\ row = NoRow =>
        /\ pc["stream"] = "upserting" => faults >= attempts["stream"]
        /\ pc["stream"] = "closing" => faults >= MaxAttempts
        /\ pc["commit"] \in {"deciding", "evaluating", "committing"} => faults >= Spent
        /\ pc["commit"] = "reporting" => faults >= Spent + 1
        /\ pc["commit"] = "ended" => faults >= Spent + 2
        /\ "done" \in sent => faults >= MaxAttempts

(* An admitted prompt that is not blocked leaves its tasks behind.           *)
TasksFollow ==
    /\ answer = 200 => pc["stream"] \notin {"none", "new", "refused"}
    /\ pc["stream"] = "ended" /\ ~blocked => pc["commit"] # "none"
    /\ pc["commit"] # "refused"

(* The inductive invariant of Recorded, beside StreamInv.                   *)
RecordInv == RowFirst /\ FailuresCount /\ TasksFollow

(* A row that exists stays.                                                 *)
LEMMA RowStays ==
    ASSUME StreamInv, Next, row # NoRow
    PROVE  row' # NoRow
BY RowWrites DEF StreamInv, SnapsAgree

LEMMA RecordStarts == Init => RecordInv
BY DEF Init, RecordInv, RowFirst, FailuresCount, TasksFollow, Tasks, Persisters

LEMMA RecordStays ==
    ASSUME StreamInv, RecordInv, [Next]_vars
    PROVE  RecordInv'
<1> USE ConstantsAssumption, NoRowAssumption
    DEF StreamInv, TypeOK, RecordInv, RowFirst, FailuresCount, TasksFollow, Spent, FaultCap,
        Tasks, Persisters, Moves, request, stores
<1>1. CASE UNCHANGED vars
  BY <1>1 DEF vars
<1>2. CASE RateLimited \/ SetupFails \/ Admit
  BY <1>2, SMTT(60) DEF RateLimited, SetupFails, Answers, Admit, SnapsAgree
<1>3. CASE ToolEvent
  BY <1>3, SMTT(60) DEF ToolEvent
<1>4. CASE Abandon
  BY <1>4, SMTT(60) DEF Abandon, LeavesTasks, SnapsAgree, Writing
<1>5. CASE BlockedAnswer
  BY <1>5, SMTT(60) DEF BlockedAnswer, PersistStarts, SnapsAgree
<1>6. CASE GraphEnds
  BY <1>6, SMTT(60) DEF GraphEnds, SnapsAgree
<1>7. CASE GraphFails
  BY <1>7, SMTT(60) DEF GraphFails, PersistStarts, SnapsAgree
<1>8. CASE TurnSaved
  BY <1>8, SMTT(60) DEF TurnSaved, PersistStarts, SnapsAgree
<1>9. CASE SendFinalEvents
  BY <1>9, SMTT(60) DEF SendFinalEvents, LeavesTasks
<1>10. CASE SkipEvaluation \/ Evaluate \/ EvaluationEnds
  <2>1. CASE SkipEvaluation
    BY <2>1, SMTT(60) DEF SkipEvaluation, EndsInline
  <2>2. CASE Evaluate
    BY <2>2, SMTT(60) DEF Evaluate
  <2>3. CASE EvaluationEnds
    BY <2>3, SMTT(60) DEF EvaluationEnds, EndsInline
  <2> QED BY <1>10, <2>1, <2>2, <2>3
<1>11. CASE EvaluationFails
  BY <1>11, SMTT(60) DEF EvaluationFails, EndsInline, Faulted
<1>12. CASE CommitRow
  BY <1>12, SMTT(60) DEF CommitRow, SnapsAgree, Writing
<1>13. CASE CommitDetails
  BY <1>13, SMTT(60) DEF CommitDetails
<1>14. CASE CommitFails
  BY <1>14, SMTT(60) DEF CommitFails, EndsInline, WriteLost, Faulted, SnapsAgree, Writing
<1>15. CASE ReportFails
  BY <1>15, SMTT(60) DEF ReportFails, WriteLost, Faulted, SnapsAgree, Writing
<1>16. CASE Pushing
  <2>1. CASE Push
    BY <2>1, SMTT(60) DEF Push
  <2>2. CASE PushFails
    BY <2>2, SMTT(60) DEF PushFails, PersistStarts
  <2> QED BY <1>16, <2>1, <2>2 DEF Pushing
<1>17. ASSUME NEW t \in Persisters, UpsertRow(t) PROVE RecordInv'
  BY <1>17, SMTT(60) DEF UpsertRow, AfterPersist, SnapsAgree, Writing
<1>18. ASSUME NEW t \in Persisters, StoreEvents(t) PROVE RecordInv'
  BY <1>18, SMTT(60) DEF StoreEvents, AfterPersist
<1>19. ASSUME NEW t \in Persisters, AttemptFails(t) PROVE RecordInv'
  BY <1>19, SMTT(60) DEF AttemptFails, WriteLost, Faulted, AfterPersist, SnapsAgree, Writing, Budgets
<1> QED
  BY <1>1, <1>2, <1>3, <1>4, <1>5, <1>6, <1>7, <1>8, <1>9, <1>10, <1>11, <1>12, <1>13, <1>14,
     <1>15, <1>16, <1>17, <1>18, <1>19
  DEF Next, Streaming, Persisting, Committing, Rests

(* Whatever fails and whenever the client leaves, an admitted prompt that is *)
(* not blocked leaves a row, unless every attempt of a stream that was not   *)
(* cancelled, the commit and the report of its failure have all failed.     *)
THEOREM TurnsAreRecorded == Spec => []Recorded
<1>1. StreamInv /\ RecordInv /\ [Next]_vars => RecordInv'
  BY RecordStays
<1>2. StreamInv /\ RecordInv => Recorded
  BY DEF StreamInv, TypeOK, RecordInv, TasksFollow, FailuresCount, Spent, Recorded, AtRest, Tasks
<1> QED BY <1>1, <1>2, RecordStarts, StreamInvariant, PTL DEF Spec

-----------------------------------------------------------------------------
(* What the status is told of *)

(* on_done decides the judge's part of the lifecycle, and only an answer to  *)
(* a prompt that was not blocked is handed to the judge.                    *)
HandedOver ==
    /\ blocked => pc["commit"] = "none" /\ pc["enqueue"] = "none"
    /\ pc["stream"] = "blocked" => blocked
    /\ ~blocked /\ pc["stream"] \in {"graph", "saving", "upserting", "eventing", "closing"} =>
          collector.inline = "none"
    /\ ~blocked /\ pc["stream"] \in {"saving", "upserting", "eventing", "closing"} =>
          collector.shadow = JudgeBranch
    /\ pc["stream"] = "new" => collector.inline = "none"
    /\ pc["commit"] \in {"deciding", "evaluating"} => collector.inline = "none"
    /\ pc["enqueue"] = "pushing" => abandoned \/ collector.shadow = "queued"
    /\ pushes > 0 => abandoned \/ collector.shadow \in {"queued", "failed"}

(* What is written tells the lifecycle as the collector does, until a part   *)
(* of it fails.                                                             *)
Told(r) ==
    /\ collector.shadow # "failed" => r.shadow = collector.shadow
    /\ collector.inline \in {"none", "complete"} => r.inline \in {"none", collector.inline}

LifecycleIsTold ==
    /\ \A t \in Tasks : Writing(t) => Told(snap[t])
    /\ row # NoRow => Told(row)

(* The commit alone tells how the evaluation ended, and while its results    *)
(* are written the row asks to wait.                                        *)
CommitTells == Writing("commit") => snap["commit"].inline = collector.inline
ResultsAwaited == pc["commit"] = "detailing" /\ collector.inline = "complete" => age = "fresh"

(* The inductive invariant of UnavailableHolds, beside the two others.       *)
LifecycleInv == HandedOver /\ LifecycleIsTold /\ CommitTells /\ ResultsAwaited

LEMMA StatusStarts == StatusInit => StreamInv /\ RecordInv /\ LifecycleInv
<1> SUFFICES ASSUME StatusInit PROVE StreamInv /\ RecordInv /\ LifecycleInv
  OBVIOUS
<1>1. StreamInv /\ RecordInv
  BY InitInv, RecordStarts DEF StatusInit
<1>2. HandedOver
  BY DEF StatusInit, Init, HandedOver
<1>3. LifecycleIsTold /\ CommitTells /\ ResultsAwaited
  BY DEF StatusInit, Init, LifecycleIsTold, CommitTells, ResultsAwaited, Writing, Tasks
<1> QED BY <1>1, <1>2, <1>3 DEF LifecycleInv

(* The steps of the status are steps of the stream, or leave it alone.       *)
LEMMA StatusImplementsStream == [StatusNext]_<<vars, statusVars>> => [Next]_vars
BY DEF StatusNext, StreamStep, Judge, GraceEnds, QueueTimesOut, statusVars

LEMMA HandedOverStays ==
    ASSUME StreamInv, HandedOver, Next
    PROVE  HandedOver'
<1> USE ConstantsAssumption
    DEF StreamInv, TypeOK, HandedOver, JudgeBranch, Tasks, Persisters, Moves, request, stores,
        Collectors
<1>1. CASE RateLimited \/ SetupFails \/ Admit
  BY <1>1, SMTT(60) DEF RateLimited, SetupFails, Answers, Admit, SnapsAgree
<1>2. CASE ToolEvent
  BY <1>2, SMTT(60) DEF ToolEvent
<1>3. CASE Abandon
  BY <1>3, SMTT(60) DEF Abandon, LeavesTasks, SnapsAgree
<1>4. CASE BlockedAnswer
  BY <1>4, SMTT(60) DEF BlockedAnswer, PersistStarts, SnapsAgree, Budgets
<1>5. CASE GraphEnds
  BY <1>5, SMTT(60) DEF GraphEnds, Done, SnapsAgree, Budgets
<1>6. CASE GraphFails
  BY <1>6, SMTT(60) DEF GraphFails, Done, PersistStarts, SnapsAgree, Budgets
<1>7. CASE TurnSaved
  BY <1>7, SMTT(60) DEF TurnSaved, PersistStarts
<1>8. CASE SendFinalEvents
  BY <1>8, SMTT(60) DEF SendFinalEvents, LeavesTasks
<1>9. CASE SkipEvaluation
  BY <1>9, SMTT(60) DEF SkipEvaluation, EndsInline, SnapsAgree
<1>10. CASE Evaluate
  BY <1>10, SMTT(60) DEF Evaluate
<1>11. CASE EvaluationEnds
  BY <1>11, SMTT(60) DEF EvaluationEnds, EndsInline, SnapsAgree
<1>12. CASE EvaluationFails
  BY <1>12, SMTT(60) DEF EvaluationFails, EndsInline, SnapsAgree
<1>13. CASE CommitRow
  BY <1>13, SMTT(60) DEF CommitRow
<1>14. CASE CommitDetails
  BY <1>14, SMTT(60) DEF CommitDetails
<1>15. CASE CommitFails
  BY <1>15, SMTT(60) DEF CommitFails, EndsInline, WriteLost, SnapsAgree
<1>16. CASE ReportFails
  BY <1>16, SMTT(60) DEF ReportFails, WriteLost
<1>17. CASE Push
  BY <1>17, SMTT(60) DEF Push
<1>18. CASE PushFails
  BY <1>18, SMTT(60) DEF PushFails, PersistStarts, SnapsAgree
<1>19. ASSUME NEW t \in Persisters, UpsertRow(t) PROVE HandedOver'
  BY <1>19, SMTT(60) DEF UpsertRow, AfterPersist
<1>20. ASSUME NEW t \in Persisters, StoreEvents(t) PROVE HandedOver'
  BY <1>20, SMTT(60) DEF StoreEvents, AfterPersist
<1>21. ASSUME NEW t \in Persisters, AttemptFails(t) PROVE HandedOver'
  BY <1>21, SMTT(60) DEF AttemptFails, WriteLost, AfterPersist
<1>22. CASE UNCHANGED vars
  BY <1>22 DEF vars
<1> QED
  BY <1>1, <1>2, <1>3, <1>4, <1>5, <1>6, <1>7, <1>8, <1>9, <1>10, <1>11, <1>12, <1>13, <1>14,
     <1>15, <1>16, <1>17, <1>18, <1>19, <1>20, <1>21, <1>22
  DEF Next, Streaming, Persisting, Committing, Pushing, Rests

(* Steps that write what was told, and tell nothing new.                    *)
LEMMA WritersTell ==
    ASSUME StreamInv, LifecycleIsTold, Next, UNCHANGED <<collector, snap>>,
           \A t \in Tasks : Writing(t)' => Writing(t)
    PROVE  LifecycleIsTold'
<1>1. \A t \in Tasks : Writing(t)' => Told(snap[t])'
  BY DEF LifecycleIsTold, Told
<1>2. row' # NoRow => Told(row)'
  <2> SUFFICES ASSUME row' # NoRow PROVE Told(row)'
    OBVIOUS
  <2>1. CASE row' = row
    BY <2>1 DEF LifecycleIsTold, Told
  <2>2. ASSUME NEW t \in Tasks, Writing(t), row' = snap[t] PROVE Told(row)'
    BY <2>2 DEF LifecycleIsTold, Told
  <2> QED BY <2>1, <2>2, RowWrites
<1> QED BY <1>1, <1>2 DEF LifecycleIsTold

(* on_done speaks before anybody has written.                               *)
LEMMA DoneTells ==
    ASSUME StreamInv, pc["stream"] \in {"blocked", "graph", "saving"},
           Moves("stream", "upserting"), Told(snap["stream"])', row' = row,
           row # NoRow => Told(row)'
    PROVE  LifecycleIsTold'
<1>1. \A t \in Tasks : Writing(t)' => t = "stream"
  BY DEF StreamInv, SnapsAgree, TypeOK, Moves, Writing, Tasks
<1> QED BY <1>1 DEF LifecycleIsTold

(* The end of the evaluation, or its failure, is told by the commit alone:   *)
(* it turns "none" into what a row may be behind of, or into "failed".       *)
LEMMA InlineTells ==
    ASSUME StreamInv, HandedOver, LifecycleIsTold,
           NEW inline \in {"skipped", "complete", "failed"}, NEW n, NEW to \in Labels,
           EndsInline(inline, n, to), pc["commit"] # "none",
           inline # "failed" => pc["commit"] \in {"deciding", "evaluating"},
           row' # row => row' = snap["commit"] /\ Writing("commit") /\ inline = "failed"
    PROVE  LifecycleIsTold'
<1> USE DEF StreamInv, TypeOK, Tasks, Collectors
<1>1. collector' = [collector EXCEPT !.inline = inline]
  BY DEF EndsInline
<1>2. collector'.shadow = collector.shadow /\ collector'.inline = inline
  BY <1>1
<1>3. Told(snap["commit"])'
  BY DEF EndsInline, Takes, Told, Dict
<1>4. ASSUME NEW r, Told(r) PROVE Told(r)'
  BY <1>2, <1>4 DEF Told, HandedOver
<1>5. \A t \in Tasks : Writing(t)' => t = "commit" \/ (Writing(t) /\ snap'[t] = snap[t])
  BY DEF EndsInline, Takes, Moves, Writing
<1>6. \A t \in Tasks : Writing(t)' => Told(snap[t])'
  <2> TAKE t \in Tasks
  <2> HAVE Writing(t)'
  <2>1. CASE t = "commit"
    BY <2>1, <1>3
  <2>2. CASE Writing(t) /\ snap'[t] = snap[t]
    <3>1. Told(snap[t])
      BY <2>2 DEF LifecycleIsTold
    <3>2. PICK r : r = snap[t]
      OBVIOUS
    <3>3. Told(r)'
      BY <3>1, <3>2, <1>4
    <3> QED BY <2>2, <3>2, <3>3 DEF Told
  <2> QED BY <2>1, <2>2, <1>5
<1>7. row' # NoRow => Told(row)'
  <2> HAVE row' # NoRow
  <2>1. Told(row')
    BY DEF LifecycleIsTold
  <2>2. PICK r : r = row'
    OBVIOUS
  <2>3. Told(r)'
    BY <2>1, <2>2, <1>4
  <2> QED BY <2>2, <2>3 DEF Told
<1> QED BY <1>6, <1>7 DEF LifecycleIsTold

LEMMA LifecycleIsToldStays ==
    ASSUME StreamInv, HandedOver, LifecycleIsTold, Next
    PROVE  LifecycleIsTold'
<1> USE DEF Tasks, Persisters, Moves, request, stores
<1>1. CASE RateLimited \/ SetupFails \/ Admit \/ ToolEvent
  <2>1. UNCHANGED <<collector, snap>> /\ \A t \in Tasks : Writing(t)' => Writing(t)
    BY <1>1 DEF RateLimited, SetupFails, Answers, Admit, ToolEvent, Writing, StreamInv, TypeOK
  <2> QED BY <2>1, WritersTell
<1>2. CASE Abandon \/ SendFinalEvents
  <2>1. UNCHANGED <<collector, snap>> /\ \A t \in Tasks : Writing(t)' => Writing(t)
    BY <1>2 DEF Abandon, SendFinalEvents, LeavesTasks, Writing, StreamInv, TypeOK
  <2> QED BY <2>1, WritersTell
<1>3. CASE Evaluate \/ CommitRow \/ CommitDetails \/ ReportFails
  <2>1. UNCHANGED <<collector, snap>> /\ \A t \in Tasks : Writing(t)' => Writing(t)
    BY <1>3 DEF Evaluate, CommitRow, CommitDetails, ReportFails, Writing, StreamInv, TypeOK
  <2> QED BY <2>1, WritersTell
<1>4. CASE Push \/ UNCHANGED vars
  <2>1. UNCHANGED <<collector, snap>> /\ \A t \in Tasks : Writing(t)' => Writing(t)
    BY <1>4 DEF Push, vars, Writing, StreamInv, TypeOK
  <2> QED BY <2>1, WritersTell
<1>5. ASSUME NEW t \in Persisters, Persisting(t) PROVE LifecycleIsTold'
  <2>1. UNCHANGED <<collector, snap>>
    BY <1>5 DEF Persisting, UpsertRow, StoreEvents, AttemptFails
  <2>2. \A u \in Tasks : Writing(u)' => Writing(u)
    BY <1>5 DEF Persisting, UpsertRow, StoreEvents, AttemptFails, Writing, StreamInv, TypeOK
  <2> QED BY <2>1, <2>2, WritersTell
<1>6. CASE GraphEnds
  BY <1>6 DEF GraphEnds, LifecycleIsTold, StreamInv, SnapsAgree, TypeOK, Writing
<1>7. CASE BlockedAnswer
  <2>1. row' = row /\ pc["stream"] \in {"blocked", "graph", "saving"}
    BY <1>7 DEF BlockedAnswer
  <2>2. row # NoRow => Told(row)'
    BY <1>7 DEF BlockedAnswer, StreamInv, SnapsAgree
  <2>3. Moves("stream", "upserting")
    BY <1>7 DEF BlockedAnswer, PersistStarts
  <2>4. Told(snap["stream"])'
    BY <1>7 DEF BlockedAnswer, PersistStarts, Takes, Told, Dict, StreamInv, TypeOK
  <2> QED BY <2>1, <2>2, <2>3, <2>4, DoneTells
<1>8. CASE GraphFails
  <2>1. row' = row /\ pc["stream"] \in {"blocked", "graph", "saving"}
    BY <1>8 DEF GraphFails
  <2>2. row # NoRow => Told(row)'
    BY <1>8 DEF GraphFails, StreamInv, SnapsAgree
  <2>3. Moves("stream", "upserting")
    BY <1>8 DEF GraphFails, PersistStarts
  <2>4. Told(snap["stream"])'
    BY <1>8 DEF GraphFails, PersistStarts, Takes, Told, Dict, StreamInv, TypeOK
  <2> QED BY <2>1, <2>2, <2>3, <2>4, DoneTells
<1>9. CASE TurnSaved
  <2>1. row' = row /\ collector' = collector /\ pc["stream"] \in {"blocked", "graph", "saving"}
    BY <1>9 DEF TurnSaved
  <2>2. row # NoRow => Told(row)'
    BY <2>1 DEF LifecycleIsTold, Told
  <2>3. Moves("stream", "upserting")
    BY <1>9 DEF TurnSaved, PersistStarts
  <2>4. Told(snap["stream"])'
    BY <1>9 DEF TurnSaved, PersistStarts, Takes, Told, Dict, StreamInv, TypeOK
  <2> QED BY <2>1, <2>2, <2>3, <2>4, DoneTells
<1>10. CASE SkipEvaluation
  BY <1>10, InlineTells DEF SkipEvaluation, Labels
<1>11. CASE EvaluationEnds
  BY <1>11, InlineTells DEF EvaluationEnds, Labels
<1>12. CASE EvaluationFails
  BY <1>12, InlineTells DEF EvaluationFails, Labels
<1>13. CASE CommitFails
  <2>1. row' # row => row' = snap["commit"] /\ Writing("commit")
    BY <1>13 DEF CommitFails, WriteLost, Writing
  <2> QED BY <1>13, <2>1, InlineTells DEF CommitFails, Labels
<1>14. CASE PushFails
  <2>1. collector' = [collector EXCEPT !.shadow = "failed"]
    BY <1>14 DEF PushFails
  <2>2. collector'.shadow = "failed" /\ collector'.inline = collector.inline
    BY <2>1 DEF StreamInv, TypeOK, Collectors
  <2>3. Told(snap["enqueue"])'
    BY <1>14 DEF PushFails, PersistStarts, Takes, Told, Dict, StreamInv, TypeOK
  <2>4. \A t \in Tasks : Writing(t)' => t = "enqueue" \/ (Writing(t) /\ snap'[t] = snap[t])
    BY <1>14 DEF PushFails, PersistStarts, Takes, Writing, StreamInv, TypeOK
  <2>5. row' = row
    BY <1>14 DEF PushFails
  <2> QED BY <2>2, <2>3, <2>4, <2>5 DEF LifecycleIsTold, Told
<1> QED
  BY <1>1, <1>2, <1>3, <1>4, <1>5, <1>6, <1>7, <1>8, <1>9, <1>10, <1>11, <1>12, <1>13, <1>14
  DEF Next, Streaming, Committing, Pushing, Rests

(* The row's details are written only after its commit.                     *)
LEMMA CommitTellsStays ==
    ASSUME StreamInv, CommitTells, Next
    PROVE  /\ CommitTells'
           /\ pc'["commit"] = "detailing" => CommitRow \/ pc["commit"] = "detailing"
           /\ pc["commit"] = "detailing" /\ pc'["commit"] = "detailing" =>
                 collector'.inline = collector.inline
<1> USE DEF StreamInv, TypeOK, CommitTells, Writing, Tasks, Persisters, Moves, Collectors, request, stores
<1>1. CASE RateLimited \/ SetupFails \/ Admit \/ ToolEvent
  BY <1>1 DEF RateLimited, SetupFails, Answers, Admit, ToolEvent
<1>2. CASE Abandon \/ SendFinalEvents
  BY <1>2 DEF Abandon, SendFinalEvents, LeavesTasks, SnapsAgree
<1>3. CASE BlockedAnswer \/ GraphEnds \/ GraphFails \/ TurnSaved
  <2>1. pc["commit"] = "none"
    BY <1>3 DEF BlockedAnswer, GraphEnds, GraphFails, TurnSaved, SnapsAgree
  <2>2. pc' = [pc EXCEPT !["stream"] = "upserting"] \/ pc' = [pc EXCEPT !["stream"] = "saving"]
    BY <1>3 DEF BlockedAnswer, GraphEnds, GraphFails, TurnSaved, PersistStarts
  <2>3. pc'["commit"] = "none"
    BY <2>1, <2>2
  <2> QED BY <2>1, <2>3
<1>4. CASE Evaluate \/ CommitRow \/ CommitDetails \/ ReportFails
  BY <1>4 DEF Evaluate, CommitRow, CommitDetails, ReportFails
<1>5. ASSUME NEW inline \in InlineStates, NEW n,
             NEW to \in {"committing", "reporting"}, EndsInline(inline, n, to)
      PROVE  CommitTells' /\ pc'["commit"] # "detailing"
  BY <1>5 DEF EndsInline, Takes, Dict
<1>6. CASE SkipEvaluation \/ EvaluationEnds \/ EvaluationFails \/ CommitFails
  BY <1>5, <1>6 DEF SkipEvaluation, EvaluationEnds, EvaluationFails, CommitFails, InlineStates
<1>7. CASE Push \/ UNCHANGED vars
  BY <1>7 DEF Push, vars
<1>8. CASE PushFails
  BY <1>8 DEF PushFails, PersistStarts, Takes
<1>9. ASSUME NEW t \in Persisters, Persisting(t)
      PROVE  CommitTells' /\ pc'["commit"] = pc["commit"] /\ UNCHANGED collector
  BY <1>9 DEF Persisting, UpsertRow, StoreEvents, AttemptFails
<1> QED
  BY <1>1, <1>2, <1>3, <1>4, <1>6, <1>7, <1>8, <1>9
  DEF Next, Streaming, Committing, Pushing, Rests

LEMMA LifecycleStays ==
    ASSUME StreamInv, LifecycleInv, [StatusNext]_<<vars, statusVars>>
    PROVE  LifecycleInv'
<1> USE DEF LifecycleInv
<1>1. CASE StreamStep
  <2>1. Next
    BY <1>1 DEF StreamStep
  <2>2. HandedOver' /\ LifecycleIsTold'
    BY <2>1, HandedOverStays, LifecycleIsToldStays
  <2>3. CommitTells'
    BY <2>1, CommitTellsStays
  <2>4. ResultsAwaited'
    <3> SUFFICES ASSUME pc'["commit"] = "detailing", collector'.inline = "complete"
                 PROVE  age' = "fresh"
      BY DEF ResultsAwaited
    <3>1. CASE CommitRow
      BY <1>1, <3>1 DEF StreamStep
    <3>2. CASE pc["commit"] = "detailing"
      BY <1>1, <2>1, <3>2, CommitTellsStays DEF StreamStep, ResultsAwaited
    <3> QED BY <2>1, <3>1, <3>2, CommitTellsStays
  <2> QED BY <2>2, <2>3, <2>4
<1>2. CASE UNCHANGED vars /\ (age' = age \/ ~Writing("commit"))
  BY <1>2
  DEF vars, request, stores, HandedOver, LifecycleIsTold, Told, Writing, CommitTells, ResultsAwaited
<1> QED
  BY <1>1, <1>2 DEF StatusNext, Judge, GraceEnds, QueueTimesOut, statusVars, Tasks

(* Whatever the status adds, the stream behind it behaves as its own         *)
(* specification says: what is proved of Spec holds of StatusSpec.          *)
THEOREM StatusImplementsSpec == StatusSpec => Spec
<1>1. StatusInit => Init
  BY DEF StatusInit
<1> QED BY <1>1, StatusImplementsStream, PTL DEF StatusSpec, Spec

(* The lifecycle the rows tell is the collector's, whatever the tasks do.    *)
THEOREM StatusInvariant == StatusSpec => [](StreamInv /\ RecordInv /\ LifecycleInv)
<1>1. StreamInv /\ RecordInv /\ LifecycleInv /\ [StatusNext]_<<vars, statusVars>> =>
          StreamInv' /\ RecordInv' /\ LifecycleInv'
  BY StatusImplementsStream, NextInv, RecordStays, LifecycleStays
<1> QED BY <1>1, StatusStarts, PTL DEF StatusSpec

(* A client that was told of its trace finds it: the row was written before, *)
(* or as often as the stream may try it failed.                             *)
THEOREM ToldTracesAreFound == StatusSpec => []ToldTraceIsFound
<1>1. StreamInv /\ RecordInv => ToldTraceIsFound
  BY DEF StreamInv, TypeOK, RecordInv, FailuresCount, ToldTraceIsFound, Status
<1> QED BY <1>1, StatusInvariant, PTL

(* "unavailable", at which the widget stops, is not the last answer before   *)
(* "complete", however the writers, the worker and time interleave, unless   *)
(* the trace waited too long or its push was reported as failed.            *)
THEOREM CompleteFollowsPending == StatusSpec => UnavailableHolds
<1>1. ASSUME StreamInv, LifecycleInv, [StatusNext]_<<vars, statusVars>>
      PROVE  [Status = "unavailable" /\ Status' = "complete" /\ ~abandoned =>
                timedOut \/ (collector.shadow = "failed" /\ verdict')]_<<vars, statusVars>>
  <2> SUFFICES ASSUME StatusNext, Status = "unavailable", Status' = "complete", ~abandoned,
                      ~timedOut
               PROVE  collector.shadow = "failed" /\ verdict'
    BY <1>1 DEF vars, statusVars
  <2>1. /\ row # NoRow /\ ~results /\ ~verdict /\ row.shadow # "queued"
        /\ ~(age = "fresh" /\ row.inline \in {"none", "complete"})
    BY DEF Status, Evaluated
  <2>2. results' \/ verdict'
    BY DEF Status, Evaluated
  <2>3. CASE StreamStep
    <3>1. pc["commit"] = "detailing" /\ snap["commit"].inline = "complete"
      BY <2>1, <2>2, <2>3 DEF StreamStep
    <3>2. collector.inline = "complete" /\ age = "fresh"
      BY <1>1, <3>1 DEF LifecycleInv, CommitTells, ResultsAwaited, Writing
    <3>3. row.inline \in {"none", "complete"}
      BY <1>1, <2>1, <3>2 DEF LifecycleInv, LifecycleIsTold, Told
    <3> QED BY <2>1, <3>2, <3>3
  <2>4. CASE Judge
    <3>1. collector.shadow \in {"queued", "failed"}
      BY <1>1, <2>4 DEF Judge, LifecycleInv, HandedOver
    <3>2. collector.shadow # "queued"
      BY <1>1, <2>1 DEF LifecycleInv, LifecycleIsTold, Told
    <3> QED BY <2>4, <3>1, <3>2 DEF Judge
  <2>5. CASE GraceEnds \/ QueueTimesOut
    BY <2>1, <2>2, <2>5 DEF GraceEnds, QueueTimesOut
  <2> QED BY <2>3, <2>4, <2>5 DEF StatusNext
<1> QED BY <1>1, StatusInvariant, PTL DEF StatusSpec, UnavailableHolds

-----------------------------------------------------------------------------
(* The judge's queue                                                        *)

(* What still circulates has retries left: the last one dead-letters it.     *)
LiveItem == [trace : Traces, retries : 0..MaxRetries]

QueueTyped ==
    /\ queue \in Seq(LiveItem) /\ dlq \in Seq(Item)
    /\ batch \in [Workers -> Seq(LiveItem)]
    /\ enq \in [Traces -> Enqueuing] /\ doing \in [Workers -> Doing]
    /\ evals \in [Traces -> Nat]
    /\ mirror \subseteq Traces /\ trimmed \subseteq Traces /\ lost \subseteq Traces
    /\ ambiguous \subseteq Traces

Single(s) == \A i, j \in DOMAIN s : s[i].trace = s[j].trace => i = j

(* A trace is in one place, once: one of the lists, or one worker's batch.   *)
OneCopy ==
    /\ Single(queue) /\ Single(dlq) /\ TracesOf(queue) \cap TracesOf(dlq) = {}
    /\ \A w \in Workers :
          /\ Single(batch[w])
          /\ TracesOf(batch[w]) \cap (TracesOf(queue) \cup TracesOf(dlq)) = {}
          /\ \A v \in Workers \ {w} : TracesOf(batch[v]) \cap TracesOf(batch[w]) = {}

Held(t) == \E w \in Workers : t \in TracesOf(batch[w])
Listed(t) == t \in TracesOf(queue) \cup TracesOf(dlq)

(* From the push on a trace is accounted for, and before it is nowhere.      *)
Accounted ==
    \A t \in Traces :
        IF enq[t] \in {"new", "refused"} THEN ~Held(t) /\ ~Listed(t) /\ evals[t] = 0
        ELSE Listed(t) \/ Held(t) \/ evals[t] > 0 \/ t \in trimmed \cup lost

(* A trace with a row circulates no more, but for the batch being mirrored,   *)
(* unless its insert was in doubt.                                          *)
RowsAreFinal ==
    /\ \A t \in Traces \ ambiguous : evals[t] > 0 =>
          /\ evals[t] = 1 /\ ~Listed(t)
          /\ \A w \in Workers : t \in TracesOf(batch[w]) => doing[w] = "mirroring"
    /\ \A w \in Workers : doing[w] = "mirroring" => \A t \in TracesOf(batch[w]) : evals[t] > 0
    /\ \A t \in mirror : evals[t] > 0

QueueInv == QueueTyped /\ OneCopy /\ Accounted /\ RowsAreFinal

(* What the operations of a list do to the traces in it.                     *)
LEMMA Prepended ==
    ASSUME NEW S, NEW s \in Seq(S), NEW x \in S
    PROVE  /\ <<x>> \o s \in Seq(S)
           /\ TracesOf(<<x>> \o s) = TracesOf(s) \cup {x.trace}
           /\ Single(s) /\ x.trace \notin TracesOf(s) => Single(<<x>> \o s)
<1> DEFINE r == <<x>> \o s
<1>1. r \in Seq(S) /\ Len(r) = Len(s) + 1
  OBVIOUS
<1>2. r[1] = x /\ \A i \in 1..Len(s) : r[i + 1] = s[i]
  OBVIOUS
<1>3. DOMAIN r = 1..(Len(s) + 1) /\ DOMAIN s = 1..Len(s) /\ Len(s) \in Nat
  BY <1>1
<1>4. \A i \in DOMAIN r : i = 1 \/ (i - 1 \in DOMAIN s /\ r[i] = s[i - 1])
  BY <1>2, <1>3
<1> HIDE DEF r
<1>5. TracesOf(r) = TracesOf(s) \cup {x.trace}
  <2>1. TracesOf(r) \subseteq TracesOf(s) \cup {x.trace}
    BY <1>2, <1>4 DEF TracesOf
  <2>2. x.trace \in TracesOf(r)
    BY <1>2, <1>3 DEF TracesOf
  <2>3. \A i \in DOMAIN s : i + 1 \in DOMAIN r /\ r[i + 1] = s[i]
    BY <1>2, <1>3
  <2> QED BY <2>1, <2>2, <2>3 DEF TracesOf
<1>6. ASSUME Single(s), x.trace \notin TracesOf(s) PROVE Single(r)
  <2> SUFFICES ASSUME NEW i \in DOMAIN r, NEW j \in DOMAIN r, r[i].trace = r[j].trace
               PROVE  i = j
    BY DEF Single
  <2>1. \A k \in DOMAIN s : s[k].trace # x.trace
    BY <1>6 DEF TracesOf
  <2>2. CASE i = 1 \/ j = 1
    BY <1>2, <1>4, <2>1, <2>2
  <2>3. CASE i # 1 /\ j # 1
    <3>1. i - 1 = j - 1
      BY <1>4, <1>6, <2>3 DEF Single
    <3> QED BY <1>3, <3>1
  <2> QED BY <2>2, <2>3
<1> QED BY <1>1, <1>5, <1>6 DEF r

LEMMA Appended ==
    ASSUME NEW S, NEW s \in Seq(S), NEW x \in S
    PROVE  /\ Append(s, x) \in Seq(S)
           /\ TracesOf(Append(s, x)) = TracesOf(s) \cup {x.trace}
           /\ Single(s) /\ x.trace \notin TracesOf(s) => Single(Append(s, x))
<1> DEFINE r == Append(s, x)
<1>1. r \in Seq(S) /\ Len(r) = Len(s) + 1
  OBVIOUS
<1>2. r[Len(s) + 1] = x /\ \A i \in 1..Len(s) : r[i] = s[i]
  OBVIOUS
<1>3. DOMAIN r = 1..(Len(s) + 1) /\ DOMAIN s = 1..Len(s) /\ Len(s) \in Nat
  BY <1>1
<1>4. \A i \in DOMAIN r : i = Len(s) + 1 \/ (i \in DOMAIN s /\ r[i] = s[i])
  BY <1>2, <1>3
<1>5. \A i \in DOMAIN s : i \in DOMAIN r /\ r[i] = s[i]
  BY <1>2, <1>3
<1> HIDE DEF r
<1>6. TracesOf(r) = TracesOf(s) \cup {x.trace}
  <2>1. TracesOf(r) \subseteq TracesOf(s) \cup {x.trace}
    BY <1>2, <1>4 DEF TracesOf
  <2>2. x.trace \in TracesOf(r)
    BY <1>2, <1>3 DEF TracesOf
  <2> QED BY <1>5, <2>1, <2>2 DEF TracesOf
<1>7. ASSUME Single(s), x.trace \notin TracesOf(s) PROVE Single(r)
  <2> SUFFICES ASSUME NEW i \in DOMAIN r, NEW j \in DOMAIN r, r[i].trace = r[j].trace
               PROVE  i = j
    BY DEF Single
  <2>1. \A k \in DOMAIN s : s[k].trace # x.trace
    BY <1>7 DEF TracesOf
  <2> QED BY <1>2, <1>4, <1>7, <2>1 DEF Single
<1> QED BY <1>1, <1>6, <1>7 DEF r

(* The parts of a list without repetitions.                                 *)
LEMMA Parted ==
    ASSUME NEW S, NEW s \in Seq(S), NEW n \in Nat, n <= Len(s)
    PROVE  /\ SubSeq(s, 1, n) \in Seq(S) /\ SubSeq(s, n + 1, Len(s)) \in Seq(S)
           /\ TracesOf(s) = TracesOf(SubSeq(s, 1, n)) \cup TracesOf(SubSeq(s, n + 1, Len(s)))
           /\ Single(s) => Single(SubSeq(s, 1, n)) /\ Single(SubSeq(s, n + 1, Len(s)))
<1> DEFINE a == SubSeq(s, 1, n)
           b == SubSeq(s, n + 1, Len(s))
<1>1. DOMAIN s = 1..Len(s) /\ Len(s) \in Nat
  OBVIOUS
<1>2. a \in Seq(S) /\ Len(a) = n /\ \A i \in 1..n : a[i] = s[i]
  OBVIOUS
<1>3. b \in Seq(S) /\ Len(b) = Len(s) - n /\ \A i \in 1..(Len(s) - n) : b[i] = s[n + i]
  OBVIOUS
<1> HIDE DEF a, b
<1>4. \A i \in DOMAIN a : i \in DOMAIN s /\ a[i] = s[i]
  BY <1>1, <1>2
<1>5. \A i \in DOMAIN b : n + i \in DOMAIN s /\ b[i] = s[n + i]
  <2>1. DOMAIN b = 1..(Len(s) - n)
    BY <1>1, <1>3
  <2> QED BY <1>1, <1>3, <2>1
<1>6. \A i \in DOMAIN s : (i \in DOMAIN a /\ a[i] = s[i])
                          \/ (i - n \in DOMAIN b /\ b[i - n] = s[i])
  <2> SUFFICES ASSUME NEW i \in DOMAIN s
               PROVE  (i \in DOMAIN a /\ a[i] = s[i]) \/ (i - n \in DOMAIN b /\ b[i - n] = s[i])
    OBVIOUS
  <2>1. CASE i <= n
    BY <1>1, <1>2, <2>1
  <2>2. CASE i > n
    <3>1. i - n \in 1..(Len(s) - n) /\ n + (i - n) = i
      BY <1>1, <2>2
    <3>2. DOMAIN b = 1..(Len(s) - n) /\ b[i - n] = s[n + (i - n)]
      BY <1>1, <1>3, <3>1
    <3> QED BY <3>1, <3>2
  <2> QED BY <1>1, <2>1, <2>2
<1>7. TracesOf(s) = TracesOf(a) \cup TracesOf(b)
  BY <1>4, <1>5, <1>6 DEF TracesOf
<1>8. ASSUME Single(s) PROVE Single(a) /\ Single(b)
  <2>1. Single(a)
    BY <1>4, <1>8 DEF Single
  <2>2. ASSUME NEW i \in DOMAIN b, NEW j \in DOMAIN b, b[i].trace = b[j].trace PROVE i = j
    <3>1. n + i = n + j
      BY <1>5, <1>8, <2>2 DEF Single
    <3>2. i \in Nat /\ j \in Nat
      BY <1>3, <2>2
    <3> QED BY <3>1, <3>2
  <2> QED BY <2>1, <2>2 DEF Single
<1> QED BY <1>2, <1>3, <1>7, <1>8 DEF a, b
LEMMA Trimmed ==
    ASSUME NEW S, NEW s \in Seq(S), NEW n \in Nat
    PROVE  /\ Kept(s, n) \in Seq(S)
           /\ TracesOf(s) = TracesOf(Kept(s, n)) \cup TracesOf(Cut(s, n))
           /\ Single(s) => Single(Kept(s, n))
<1>1. CASE n > 0 /\ Len(s) > n
  <2>1. n <= Len(s)
    BY <1>1
  <2> QED BY <1>1, <2>1, Parted DEF Kept, Cut
<1>2. CASE ~(n > 0 /\ Len(s) > n)
  <2>1. Kept(s, n) = s /\ Cut(s, n) = <<>>
    BY <1>2 DEF Kept, Cut
  <2>2. TracesOf(<<>>) = {}
    BY DEF TracesOf
  <2> QED BY <2>1, <2>2
<1> QED BY <1>1, <1>2

LEMMA OldestTaken ==
    ASSUME NEW S, NEW s \in Seq(S), s # <<>>
    PROVE  /\ SubSeq(s, 1, Len(s) - 1) \in Seq(S) /\ s[Len(s)] \in S
           /\ TracesOf(s) = TracesOf(SubSeq(s, 1, Len(s) - 1)) \cup {s[Len(s)].trace}
           /\ Single(s) => /\ Single(SubSeq(s, 1, Len(s) - 1))
                           /\ s[Len(s)].trace \notin TracesOf(SubSeq(s, 1, Len(s) - 1))
<1> DEFINE r == SubSeq(s, 1, Len(s) - 1)
<1>1. DOMAIN s = 1..Len(s) /\ Len(s) \in Nat \ {0} /\ s[Len(s)] \in S
  OBVIOUS
<1>2. r \in Seq(S) /\ Len(r) = Len(s) - 1 /\ \A i \in 1..(Len(s) - 1) : r[i] = s[i]
  <2>1. r \in Seq(S) /\ Len(r) = Len(s) - 1
    BY <1>1
  <2> SUFFICES ASSUME NEW i \in 1..(Len(s) - 1) PROVE r[i] = s[i]
    BY <2>1
  <2> QED BY <1>1
<1> HIDE DEF r
<1>3. DOMAIN r = 1..(Len(s) - 1)
  BY <1>1, <1>2
<1>4. \A i \in DOMAIN s : i = Len(s) \/ (i \in DOMAIN r /\ r[i] = s[i])
  BY <1>1, <1>2, <1>3
<1>5. \A i \in DOMAIN r : i \in DOMAIN s /\ i # Len(s) /\ r[i] = s[i]
  BY <1>1, <1>2, <1>3
<1>6. TracesOf(s) = TracesOf(r) \cup {s[Len(s)].trace}
  BY <1>1, <1>4, <1>5 DEF TracesOf
<1>7. ASSUME Single(s) PROVE Single(r) /\ s[Len(s)].trace \notin TracesOf(r)
  BY <1>1, <1>5, <1>7 DEF Single, TracesOf
<1> QED BY <1>1, <1>2, <1>6, <1>7 DEF r

LEMMA FirstTaken ==
    ASSUME NEW S, NEW s \in Seq(S), s # <<>>
    PROVE  /\ Tail(s) \in Seq(S) /\ Head(s) \in S
           /\ TracesOf(s) = TracesOf(Tail(s)) \cup {Head(s).trace}
           /\ Single(s) => Single(Tail(s)) /\ Head(s).trace \notin TracesOf(Tail(s))
<1> DEFINE r == Tail(s)
<1>1. DOMAIN s = 1..Len(s) /\ Len(s) \in Nat \ {0} /\ Head(s) = s[1] /\ s[1] \in S
  OBVIOUS
<1>2. r \in Seq(S) /\ Len(r) = Len(s) - 1 /\ \A i \in 1..(Len(s) - 1) : r[i] = s[i + 1]
  <2>1. r \in Seq(S) /\ Len(r) = Len(s) - 1
    OBVIOUS
  <2> SUFFICES ASSUME NEW i \in 1..(Len(s) - 1) PROVE r[i] = s[i + 1]
    BY <2>1
  <2> QED BY <1>1
<1> HIDE DEF r
<1>3. DOMAIN r = 1..(Len(s) - 1)
  BY <1>1, <1>2
<1>4. \A i \in DOMAIN s : i = 1 \/ (i - 1 \in DOMAIN r /\ r[i - 1] = s[i])
  <2> SUFFICES ASSUME NEW i \in DOMAIN s, i # 1 PROVE i - 1 \in DOMAIN r /\ r[i - 1] = s[i]
    OBVIOUS
  <2>1. i - 1 \in 1..(Len(s) - 1) /\ (i - 1) + 1 = i
    BY <1>1
  <2>2. r[i - 1] = s[(i - 1) + 1]
    BY <1>2, <2>1
  <2> QED BY <1>3, <2>1, <2>2
<1>5. \A i \in DOMAIN r : i + 1 \in DOMAIN s /\ i + 1 # 1 /\ r[i] = s[i + 1]
  BY <1>1, <1>2, <1>3
<1>6. TracesOf(s) = TracesOf(r) \cup {s[1].trace}
  <2>1. 1 \in DOMAIN s
    BY <1>1
  <2> QED BY <1>4, <1>5, <2>1 DEF TracesOf
<1>7. ASSUME Single(s) PROVE Single(r) /\ s[1].trace \notin TracesOf(r)
  <2>1. s[1].trace \notin TracesOf(r)
    <3>1. 1 \in DOMAIN s
      BY <1>1
    <3> QED BY <1>5, <1>7, <3>1 DEF Single, TracesOf
  <2>2. ASSUME NEW i \in DOMAIN r, NEW j \in DOMAIN r, r[i].trace = r[j].trace PROVE i = j
    <3>1. i + 1 = j + 1
      BY <1>5, <1>7, <2>2 DEF Single
    <3>2. i \in Nat /\ j \in Nat
      BY <1>1, <1>3, <2>2
    <3> QED BY <3>1, <3>2
  <2> QED BY <2>1, <2>2 DEF Single
<1> QED BY <1>1, <1>2, <1>6, <1>7 DEF r

LEMMA Counted ==
    ASSUME NEW s, Single(s), NEW t
    PROVE  Count(t, s) = IF t \in TracesOf(s) THEN 1 ELSE 0
<1>1. CASE t \notin TracesOf(s)
  <2>1. {i \in DOMAIN s : s[i].trace = t} = {}
    BY <1>1 DEF TracesOf
  <2> QED BY <1>1, <2>1, FS_EmptySet DEF Count
<1>2. CASE t \in TracesOf(s)
  <2>1. PICK k \in DOMAIN s : s[k].trace = t
    BY <1>2 DEF TracesOf
  <2>2. {i \in DOMAIN s : s[i].trace = t} = {k}
    BY <2>1 DEF Single
  <2> QED BY <1>2, <2>2, FS_Singleton DEF Count
<1> QED BY <1>1, <1>2
LEMMA Emptied == TracesOf(<<>>) = {} /\ Single(<<>>)
BY DEF TracesOf, Single

LEMMA TracesTyped ==
    ASSUME QueueTyped
    PROVE  /\ TracesOf(queue) \subseteq Traces /\ TracesOf(dlq) \subseteq Traces
           /\ \A w \in Workers : TracesOf(batch[w]) \subseteq Traces
<1>1. ASSUME NEW S, NEW s \in Seq(S), \A x \in S : x.trace \in Traces
      PROVE  TracesOf(s) \subseteq Traces
  <2>1. \A i \in DOMAIN s : s[i] \in S
    OBVIOUS
  <2> QED BY <1>1, <2>1 DEF TracesOf
<1>2. (\A x \in Item : x.trace \in Traces) /\ (\A x \in LiveItem : x.trace \in Traces)
  BY DEF Item, LiveItem
<1> QED BY <1>1, <1>2 DEF QueueTyped

LEMMA BatchBecomes ==
    ASSUME QueueTyped, NEW w \in Workers, NEW s \in Seq(LiveItem),
           batch' = [batch EXCEPT ![w] = s]
    PROVE  /\ batch' \in [Workers -> Seq(LiveItem)] /\ batch'[w] = s
           /\ \A v \in Workers \ {w} : batch'[v] = batch[v]
BY DEF QueueTyped

LEMMA WorkerGoes ==
    ASSUME QueueTyped, NEW w \in Workers, NEW to \in Doing, Goes(w, to)
    PROVE  /\ doing' \in [Workers -> Doing] /\ doing'[w] = to
           /\ \A v \in Workers \ {w} : doing'[v] = doing[v]
BY DEF QueueTyped, Goes

(* What only shrinks keeps every trace in one place.                        *)
LEMMA ShrinkingKeepsOneCopy ==
    ASSUME OneCopy,
           TracesOf(queue') \subseteq TracesOf(queue), Single(queue'),
           TracesOf(dlq') \subseteq TracesOf(dlq), Single(dlq'),
           \A w \in Workers : TracesOf(batch'[w]) \subseteq TracesOf(batch[w]) /\ Single(batch'[w])
    PROVE  OneCopy'
<1>1. Single(queue)' = Single(queue') /\ Single(dlq)' = Single(dlq')
      /\ TracesOf(queue)' = TracesOf(queue') /\ TracesOf(dlq)' = TracesOf(dlq')
      /\ \A w \in Workers : Single(batch[w])' = Single(batch'[w])
                            /\ TracesOf(batch[w])' = TracesOf(batch'[w])
  BY DEF Single, TracesOf
<1> QED BY <1>1 DEF OneCopy

LEMMA QueueStarts ==
    ASSUME QueueInit
    PROVE  QueueInv
<1>1. QueueTyped
  BY DEF QueueInit, QueueTyped, Enqueuing, Doing
<1>2. OneCopy
  BY Emptied DEF QueueInit, OneCopy
<1>3. Accounted /\ RowsAreFinal
  BY Emptied DEF QueueInit, Accounted, RowsAreFinal, Held, Listed
<1> QED BY <1>1, <1>2, <1>3 DEF QueueInv

(* The steps that only take a worker further.                               *)
LEMMA WorkerStepStays ==
    ASSUME QueueInv, NEW w \in Workers, NEW to \in Doing \ {"mirroring"}, Goes(w, to),
           doing[w] # "mirroring", UNCHANGED <<lists, enq, batch, rows, history>>
    PROVE  QueueInv'
<1>1. UNCHANGED <<queue, dlq, enq, batch, evals, mirror, trimmed, lost, ambiguous>>
  BY DEF lists, rows, history
<1>2. /\ doing' \in [Workers -> Doing] /\ doing'[w] = to
      /\ \A v \in Workers \ {w} : doing'[v] = doing[v]
  BY WorkerGoes DEF QueueInv
<1>3. QueueTyped'
  BY <1>1, <1>2 DEF QueueInv, QueueTyped
<1>4. OneCopy'
  BY <1>1 DEF QueueInv, OneCopy
<1>5. Accounted'
  BY <1>1 DEF QueueInv, Accounted, Held, Listed
<1>6. RowsAreFinal'
  BY <1>1, <1>2 DEF QueueInv, RowsAreFinal, Listed
<1> QED BY <1>3, <1>4, <1>5, <1>6 DEF QueueInv

LEMMA EnqueueStays ==
    ASSUME QueueInv, NEW t \in Traces, Enqueue(t)
    PROVE  QueueInv'
<1> DEFINE item == [trace |-> t, retries |-> 0]
<1>1. /\ enq[t] = "new" /\ enq' = [enq EXCEPT ![t] = "pushed"] /\ queue' = <<item>> \o queue
      /\ UNCHANGED <<dlq, doing, batch, evals, mirror, trimmed, lost, ambiguous>>
  BY DEF Enqueue, rows, history
<1>2. item \in LiveItem /\ item.trace = t
  BY QueueAssumption DEF LiveItem
<1>3. ~Held(t) /\ ~Listed(t) /\ evals[t] = 0
  BY <1>1 DEF QueueInv, Accounted
<1>4. queue' \in Seq(LiveItem) /\ TracesOf(queue') = TracesOf(queue) \cup {t} /\ Single(queue')
  <2>1. Single(queue) /\ t \notin TracesOf(queue) /\ queue \in Seq(LiveItem)
    BY <1>3 DEF QueueInv, OneCopy, Listed, QueueTyped
  <2> HIDE DEF item
  <2> QED BY <1>1, <1>2, <2>1, Prepended
<1>5. enq' \in [Traces -> Enqueuing] /\ enq'[t] = "pushed" /\ \A u \in Traces \ {t} : enq'[u] = enq[u]
  BY <1>1 DEF QueueInv, QueueTyped, Enqueuing
<1>6. QueueTyped'
  BY <1>1, <1>4, <1>5 DEF QueueInv, QueueTyped
<1>7. OneCopy'
  <2>1. Single(queue') /\ Single(dlq') /\ TracesOf(queue') \cap TracesOf(dlq') = {}
    BY <1>1, <1>3, <1>4 DEF QueueInv, OneCopy, Listed
  <2>2. \A w \in Workers : TracesOf(batch[w]) \cap (TracesOf(queue') \cup TracesOf(dlq)) = {}
    BY <1>3, <1>4 DEF QueueInv, OneCopy, Held
  <2> QED BY <1>1, <2>1, <2>2 DEF QueueInv, OneCopy
<1>8. Accounted'
  BY <1>1, <1>4, <1>5 DEF QueueInv, Accounted, Held, Listed
<1>9. RowsAreFinal'
  BY <1>1, <1>3, <1>4 DEF QueueInv, RowsAreFinal, Listed
<1> QED BY <1>6, <1>7, <1>8, <1>9 DEF QueueInv

(* An enqueuer that only moves on: past the push or not.                    *)
LEMMA EnqueueFailsStays ==
    ASSUME QueueInv, NEW t \in Traces, EnqueueFails(t)
    PROVE  QueueInv'
<1>1. /\ enq[t] \in {"new", "pushed"}
      /\ enq' = [enq EXCEPT ![t] = IF enq[t] = "new" THEN "refused" ELSE "untrimmed"]
      /\ UNCHANGED <<queue, dlq, doing, batch, evals, mirror, trimmed, lost, ambiguous>>
  BY DEF EnqueueFails, lists, rows
<1>2. /\ enq' \in [Traces -> Enqueuing] /\ \A u \in Traces \ {t} : enq'[u] = enq[u]
      /\ enq[t] = "new" => enq'[t] = "refused"
      /\ enq[t] = "pushed" => enq'[t] = "untrimmed"
  BY <1>1 DEF QueueInv, QueueTyped, Enqueuing
<1>3. QueueTyped'
  BY <1>1, <1>2 DEF QueueInv, QueueTyped
<1>4. OneCopy' /\ RowsAreFinal'
  BY <1>1 DEF QueueInv, OneCopy, RowsAreFinal, Listed
<1>5. Accounted'
  BY <1>1, <1>2 DEF QueueInv, Accounted, Held, Listed
<1> QED BY <1>3, <1>4, <1>5 DEF QueueInv

(* What a trim cuts off is accounted for.                                   *)
LEMMA TrimStays ==
    ASSUME QueueInv, QueueTyped', UNCHANGED <<batch, evals, mirror, lost, ambiguous>>,
           TracesOf(queue') \subseteq TracesOf(queue), Single(queue'),
           TracesOf(dlq') \subseteq TracesOf(dlq), Single(dlq'),
           TracesOf(queue) \cup TracesOf(dlq) \subseteq TracesOf(queue') \cup TracesOf(dlq') \cup trimmed',
           trimmed \subseteq trimmed',
           \A w \in Workers : doing'[w] = "mirroring" <=> doing[w] = "mirroring",
           \A t \in Traces : enq'[t] \in {"new", "refused"} <=> enq[t] \in {"new", "refused"}
    PROVE  QueueInv'
<1>1. OneCopy'
  BY ShrinkingKeepsOneCopy DEF QueueInv, OneCopy
<1>2. Accounted'
  BY DEF QueueInv, Accounted, Held, Listed
<1>3. RowsAreFinal'
  BY DEF QueueInv, RowsAreFinal, Listed
<1> QED BY <1>1, <1>2, <1>3 DEF QueueInv

LEMMA TrimAfterPushStays ==
    ASSUME QueueInv, NEW t \in Traces, TrimAfterPush(t)
    PROVE  QueueInv'
<1>1. /\ enq[t] = "pushed" /\ enq' = [enq EXCEPT ![t] = "done"] /\ queue' = Kept(queue, MaxLen)
      /\ trimmed' = trimmed \cup TracesOf(Cut(queue, MaxLen))
      /\ UNCHANGED <<dlq, doing, batch, evals, mirror, lost, ambiguous>>
  BY DEF TrimAfterPush, rows
<1>2. /\ queue' \in Seq(LiveItem) /\ Single(queue')
      /\ TracesOf(queue) = TracesOf(queue') \cup TracesOf(Cut(queue, MaxLen))
  BY <1>1, Trimmed, QueueAssumption DEF QueueInv, OneCopy, QueueTyped
<1>3. enq' \in [Traces -> Enqueuing] /\ enq'[t] = "done" /\ \A u \in Traces \ {t} : enq'[u] = enq[u]
  BY <1>1 DEF QueueInv, QueueTyped, Enqueuing
<1>4. QueueTyped'
  BY <1>1, <1>2, <1>3, TracesTyped DEF QueueInv, QueueTyped
<1>5. \A u \in Traces : enq'[u] \in {"new", "refused"} <=> enq[u] \in {"new", "refused"}
  BY <1>1, <1>3
<1> QED BY <1>1, <1>2, <1>4, <1>5, TrimStays DEF QueueInv, OneCopy

LEMMA TrimQueueStays ==
    ASSUME QueueInv, NEW w \in Workers, TrimQueue(w)
    PROVE  QueueInv'
<1>1. /\ doing[w] = "requeueing" /\ queue' = Kept(queue, MaxLen)
      /\ trimmed' = trimmed \cup TracesOf(Cut(queue, MaxLen))
      /\ UNCHANGED <<dlq, enq, batch, evals, mirror, lost, ambiguous>>
  BY DEF TrimQueue, rows
<1>2. /\ queue' \in Seq(LiveItem) /\ Single(queue')
      /\ TracesOf(queue) = TracesOf(queue') \cup TracesOf(Cut(queue, MaxLen))
  BY <1>1, Trimmed, QueueAssumption DEF QueueInv, OneCopy, QueueTyped
<1>3. /\ doing' \in [Workers -> Doing] /\ doing'[w] = "dlqtrim"
      /\ \A v \in Workers \ {w} : doing'[v] = doing[v]
  BY WorkerGoes DEF QueueInv, TrimQueue, Doing
<1>4. QueueTyped'
  BY <1>1, <1>2, <1>3, TracesTyped DEF QueueInv, QueueTyped
<1> QED BY <1>1, <1>2, <1>3, <1>4, TrimStays DEF QueueInv, OneCopy

LEMMA TrimDlqStays ==
    ASSUME QueueInv, NEW w \in Workers, TrimDlq(w)
    PROVE  QueueInv'
<1>1. /\ doing[w] = "dlqtrim" /\ dlq' = Kept(dlq, DlqMaxLen)
      /\ trimmed' = trimmed \cup TracesOf(Cut(dlq, DlqMaxLen))
      /\ UNCHANGED <<queue, enq, batch, evals, mirror, lost, ambiguous>>
  BY DEF TrimDlq, rows
<1>2. /\ dlq' \in Seq(Item) /\ Single(dlq')
      /\ TracesOf(dlq) = TracesOf(dlq') \cup TracesOf(Cut(dlq, DlqMaxLen))
  BY <1>1, Trimmed, QueueAssumption DEF QueueInv, OneCopy, QueueTyped
<1>3. /\ doing' \in [Workers -> Doing] /\ doing'[w] = "idle"
      /\ \A v \in Workers \ {w} : doing'[v] = doing[v]
  BY WorkerGoes DEF QueueInv, TrimDlq, Doing
<1>4. QueueTyped'
  BY <1>1, <1>2, <1>3, TracesTyped DEF QueueInv, QueueTyped
<1> QED BY <1>1, <1>2, <1>3, <1>4, TrimStays DEF QueueInv, OneCopy
LEMMA PopOneStays ==
    ASSUME QueueInv, NEW w \in Workers, PopOne(w)
    PROVE  QueueInv'
<1> DEFINE x == queue[Len(queue)]
           t == x.trace
<1>1. /\ doing[w] \in {"idle", "popping"} /\ queue # <<>>
      /\ batch' = [batch EXCEPT ![w] = Append(batch[w], x)]
      /\ queue' = SubSeq(queue, 1, Len(queue) - 1) /\ Goes(w, "popping")
      /\ UNCHANGED <<dlq, enq, evals, mirror, trimmed, lost, ambiguous>>
  BY DEF PopOne, rows, history
<1>2. /\ queue' \in Seq(LiveItem) /\ x \in LiveItem /\ Single(queue')
      /\ TracesOf(queue) = TracesOf(queue') \cup {t} /\ t \notin TracesOf(queue')
  BY <1>1, OldestTaken DEF QueueInv, QueueTyped, OneCopy
<1> HIDE DEF x
<1>3. t \in Traces /\ t \notin TracesOf(dlq) /\ \A v \in Workers : t \notin TracesOf(batch[v])
  BY <1>2, TracesTyped DEF QueueInv, OneCopy
<1>4. /\ Append(batch[w], x) \in Seq(LiveItem) /\ Single(Append(batch[w], x))
      /\ TracesOf(Append(batch[w], x)) = TracesOf(batch[w]) \cup {t}
  <2>1. batch[w] \in Seq(LiveItem) /\ Single(batch[w])
    BY DEF QueueInv, QueueTyped, OneCopy
  <2> QED BY <1>2, <1>3, <2>1, Appended
<1>5. /\ batch' \in [Workers -> Seq(LiveItem)] /\ Single(batch'[w])
      /\ TracesOf(batch'[w]) = TracesOf(batch[w]) \cup {t}
      /\ \A v \in Workers \ {w} : batch'[v] = batch[v]
  BY <1>1, <1>4, BatchBecomes DEF QueueInv
<1>6. /\ doing' \in [Workers -> Doing] /\ doing'[w] = "popping"
      /\ \A v \in Workers \ {w} : doing'[v] = doing[v]
  BY <1>1, WorkerGoes DEF QueueInv, Doing
<1> HIDE DEF t
<1>7. QueueTyped'
  BY <1>1, <1>2, <1>5, <1>6 DEF QueueInv, QueueTyped
<1>8. OneCopy'
  <2>1. Single(queue') /\ Single(dlq') /\ TracesOf(queue') \cap TracesOf(dlq') = {}
    BY <1>1, <1>2 DEF QueueInv, OneCopy
  <2>2. \A v \in Workers : Single(batch'[v])
    BY <1>5 DEF QueueInv, OneCopy
  <2>3. \A v \in Workers : TracesOf(batch'[v]) \cap (TracesOf(queue') \cup TracesOf(dlq)) = {}
    BY <1>2, <1>3, <1>5 DEF QueueInv, OneCopy
  <2>4. \A u \in Workers : \A v \in Workers \ {u} : TracesOf(batch'[v]) \cap TracesOf(batch'[u]) = {}
    <3>1. ASSUME NEW u \in Workers, NEW v \in Workers \ {u}
          PROVE  TracesOf(batch[v]) \cap TracesOf(batch[u]) = {}
      BY <3>1 DEF QueueInv, OneCopy
    <3>2. ASSUME NEW u \in Workers \ {w}
          PROVE  /\ TracesOf(batch'[u]) \cap TracesOf(batch'[w]) = {}
                 /\ TracesOf(batch'[w]) \cap TracesOf(batch'[u]) = {}
      BY <1>3, <1>5, <3>1, <3>2
    <3>3. ASSUME NEW u \in Workers \ {w}, NEW v \in Workers \ {u, w}
          PROVE  TracesOf(batch'[v]) \cap TracesOf(batch'[u]) = {}
      BY <1>5, <3>1, <3>3
    <3> QED BY <3>2, <3>3
  <2> QED BY <1>1, <2>1, <2>2, <2>3, <2>4 DEF OneCopy
<1>9. Accounted'
  BY <1>1, <1>2, <1>5 DEF QueueInv, Accounted, Held, Listed
<1>10. RowsAreFinal'
  <2>1. t \notin ambiguous => evals[t] = 0
    BY <1>2, <1>3 DEF QueueInv, RowsAreFinal, Listed, QueueTyped
  <2> QED BY <1>1, <1>2, <1>5, <1>6, <2>1 DEF QueueInv, RowsAreFinal, Listed
<1> QED BY <1>7, <1>8, <1>9, <1>10 DEF QueueInv

(* The rows of a batch: one more for each of its traces.                     *)
LEMMA RowsAdded ==
    ASSUME QueueInv, NEW w \in Workers, AddRows(w)
    PROVE  /\ evals' \in [Traces -> Nat]
           /\ \A t \in Traces : evals'[t] = IF t \in TracesOf(batch[w]) THEN evals[t] + 1 ELSE evals[t]
<1>1. \A t \in Traces : Count(t, batch[w]) = IF t \in TracesOf(batch[w]) THEN 1 ELSE 0
  BY Counted DEF QueueInv, OneCopy
<1>2. \A t \in Traces : evals[t] \in Nat
  BY DEF QueueInv, QueueTyped
<1> QED BY <1>1, <1>2 DEF AddRows

LEMMA InsertRowsStays ==
    ASSUME QueueInv, NEW w \in Workers, InsertRows(w)
    PROVE  QueueInv'
<1>1. /\ doing[w] = "persisting" /\ AddRows(w) /\ Goes(w, "mirroring")
      /\ UNCHANGED <<queue, dlq, enq, batch, mirror, trimmed, lost, ambiguous>>
  BY DEF InsertRows, lists, history
<1>2. /\ evals' \in [Traces -> Nat]
      /\ \A t \in Traces : evals'[t] = IF t \in TracesOf(batch[w]) THEN evals[t] + 1 ELSE evals[t]
  BY <1>1, RowsAdded
<1>3. /\ doing' \in [Workers -> Doing] /\ doing'[w] = "mirroring"
      /\ \A v \in Workers \ {w} : doing'[v] = doing[v]
  BY <1>1, WorkerGoes DEF QueueInv, Doing
<1>4. QueueTyped'
  BY <1>1, <1>2, <1>3 DEF QueueInv, QueueTyped
<1>5. OneCopy'
  BY <1>1 DEF QueueInv, OneCopy
<1>6. \A t \in Traces : evals[t] \in Nat /\ evals'[t] \in Nat /\ (evals[t] > 0 => evals'[t] > 0)
  <2> SUFFICES ASSUME NEW t \in Traces
               PROVE  evals[t] \in Nat /\ evals'[t] \in Nat /\ (evals[t] > 0 => evals'[t] > 0)
    OBVIOUS
  <2>1. evals[t] \in Nat
    BY DEF QueueInv, QueueTyped
  <2>2. evals'[t] = evals[t] \/ evals'[t] = evals[t] + 1
    BY <1>2
  <2> QED BY <2>1, <2>2
<1>7. Accounted'
  <2>1. \A t \in Traces : t \in TracesOf(batch[w]) => Held(t)
    BY DEF Held
  <2> QED BY <1>1, <1>2, <1>6, <2>1 DEF QueueInv, Accounted, Held, Listed
<1>8. RowsAreFinal'
  <2>1. \A t \in TracesOf(batch[w]) :
           /\ evals'[t] > 0 /\ ~Listed(t) /\ \A v \in Workers \ {w} : t \notin TracesOf(batch[v])
           /\ t \notin ambiguous => evals'[t] = 1
    <3> SUFFICES ASSUME NEW t \in TracesOf(batch[w])
                 PROVE  /\ evals'[t] > 0 /\ ~Listed(t)
                        /\ \A v \in Workers \ {w} : t \notin TracesOf(batch[v])
                        /\ t \notin ambiguous => evals'[t] = 1
      OBVIOUS
    <3>1. t \in Traces
      BY TracesTyped DEF QueueInv
    <3>2. t \notin ambiguous => evals[t] = 0
      BY <1>1, <1>6, <3>1 DEF QueueInv, RowsAreFinal
    <3>3. ~Listed(t) /\ \A v \in Workers \ {w} : t \notin TracesOf(batch[v])
      BY DEF QueueInv, OneCopy, Listed
    <3> QED BY <1>2, <1>6, <3>1, <3>2, <3>3
  <2>2. \A t \in Traces \ ambiguous : evals'[t] > 0 =>
           /\ evals'[t] = 1 /\ ~Listed(t)
           /\ \A v \in Workers : t \in TracesOf(batch[v]) => doing'[v] = "mirroring"
    BY <1>2, <1>3, <2>1 DEF QueueInv, RowsAreFinal
  <2>3. \A v \in Workers : doing'[v] = "mirroring" => \A t \in TracesOf(batch[v]) : evals'[t] > 0
    BY <1>3, <1>6, <2>1, TracesTyped DEF QueueInv, RowsAreFinal
  <2>4. \A t \in mirror : evals'[t] > 0
    BY <1>6 DEF QueueInv, RowsAreFinal, QueueTyped
  <2> QED BY <1>1, <2>2, <2>3, <2>4 DEF RowsAreFinal, Listed
<1> QED BY <1>4, <1>5, <1>7, <1>8 DEF QueueInv

(* A failed insert, whether it was committed or not.                        *)
LEMMA InsertRaisesStays ==
    ASSUME QueueInv, NEW w \in Workers, InsertRaises(w)
    PROVE  QueueInv'
<1>1. /\ doing[w] = "persisting" /\ Goes(w, "requeueing")
      /\ UNCHANGED <<queue, dlq, enq, batch, mirror, trimmed, lost>>
  BY DEF InsertRaises, lists
<1>2. CASE UNCHANGED <<evals, ambiguous>>
  BY <1>1, <1>2, WorkerStepStays DEF Doing, lists, rows, history
<1>3. CASE AddRows(w) /\ ambiguous' = ambiguous \cup TracesOf(batch[w])
  <2>1. /\ evals' \in [Traces -> Nat]
        /\ \A t \in Traces : evals'[t] = IF t \in TracesOf(batch[w]) THEN evals[t] + 1 ELSE evals[t]
    BY <1>3, RowsAdded
  <2>2. /\ doing' \in [Workers -> Doing] /\ doing'[w] = "requeueing"
        /\ \A v \in Workers \ {w} : doing'[v] = doing[v]
    BY <1>1, WorkerGoes DEF QueueInv, Doing
  <2>3. QueueTyped'
    BY <1>1, <1>3, <2>1, <2>2, TracesTyped DEF QueueInv, QueueTyped
  <2>4. OneCopy'
    BY <1>1 DEF QueueInv, OneCopy
  <2>5. \A t \in Traces : evals[t] \in Nat /\ evals'[t] \in Nat /\ (evals[t] > 0 => evals'[t] > 0)
    <3> SUFFICES ASSUME NEW t \in Traces
                 PROVE  evals[t] \in Nat /\ evals'[t] \in Nat /\ (evals[t] > 0 => evals'[t] > 0)
      OBVIOUS
    <3>1. evals[t] \in Nat
      BY DEF QueueInv, QueueTyped
    <3>2. evals'[t] = evals[t] \/ evals'[t] = evals[t] + 1
      BY <2>1
    <3> QED BY <3>1, <3>2
  <2>6. Accounted'
    <3>1. \A t \in Traces : t \in TracesOf(batch[w]) => Held(t)
      BY DEF Held
    <3> QED BY <1>1, <2>1, <2>5, <3>1 DEF QueueInv, Accounted, Held, Listed
  <2>7. RowsAreFinal'
    <3>1. \A t \in Traces \ ambiguous' : evals'[t] > 0 =>
             /\ evals'[t] = 1 /\ ~Listed(t)
             /\ \A v \in Workers : t \in TracesOf(batch[v]) => doing'[v] = "mirroring"
      BY <1>1, <1>3, <2>1, <2>2 DEF QueueInv, RowsAreFinal
    <3>2. \A v \in Workers : doing'[v] = "mirroring" => \A t \in TracesOf(batch[v]) : evals'[t] > 0
      BY <2>2, <2>5, TracesTyped DEF QueueInv, RowsAreFinal
    <3>3. \A t \in mirror : evals'[t] > 0
      BY <2>5 DEF QueueInv, RowsAreFinal, QueueTyped
    <3> QED BY <1>1, <3>1, <3>2, <3>3 DEF RowsAreFinal, Listed
  <2> QED BY <2>3, <2>4, <2>6, <2>7 DEF QueueInv
<1> QED BY <1>2, <1>3 DEF InsertRaises

(* A batch that is let go: it was written, or it is lost.                   *)
LEMMA BatchGoes ==
    ASSUME QueueInv, NEW w \in Workers, Goes(w, "idle"), batch' = [batch EXCEPT ![w] = <<>>],
           UNCHANGED <<queue, dlq, enq, evals, trimmed, ambiguous>>,
           lost' \in {lost, lost \cup TracesOf(batch[w])},
           doing[w] = "mirroring" \/ lost' = lost \cup TracesOf(batch[w]),
           mirror' \subseteq Traces, \A t \in mirror' : evals[t] > 0
    PROVE  QueueInv'
<1>1. /\ batch' \in [Workers -> Seq(LiveItem)] /\ batch'[w] = <<>>
      /\ \A v \in Workers \ {w} : batch'[v] = batch[v]
  <2>1. <<>> \in Seq(LiveItem)
    OBVIOUS
  <2> QED BY <2>1, BatchBecomes DEF QueueInv
<1>2. /\ doing' \in [Workers -> Doing] /\ doing'[w] = "idle"
      /\ \A v \in Workers \ {w} : doing'[v] = doing[v]
  BY WorkerGoes DEF QueueInv, Doing
<1>3. TracesOf(batch'[w]) = {} /\ Single(batch'[w])
  BY <1>1, Emptied
<1>4. QueueTyped'
  BY <1>1, <1>2, TracesTyped DEF QueueInv, QueueTyped
<1>5. OneCopy'
  BY <1>1, <1>3, ShrinkingKeepsOneCopy DEF QueueInv, OneCopy
<1>6. Accounted'
  <2>1. \A t \in TracesOf(batch[w]) : t \in lost' \/ evals[t] > 0
    BY DEF QueueInv, RowsAreFinal
  <2>2. \A t \in Traces : Held(t)' => Held(t)
    BY <1>1, <1>3 DEF Held
  <2>3. \A t \in Traces : Held(t) => Held(t)' \/ t \in lost' \/ evals[t] > 0
    BY <1>1, <2>1 DEF Held
  <2> QED BY <2>2, <2>3 DEF QueueInv, Accounted, Listed
<1>7. RowsAreFinal'
  BY <1>1, <1>2, <1>3 DEF QueueInv, RowsAreFinal, Listed
<1> QED BY <1>4, <1>5, <1>6, <1>7 DEF QueueInv

LEMMA MirrorStays ==
    ASSUME QueueInv, NEW w \in Workers, Mirror(w)
    PROVE  QueueInv'
<1>1. /\ doing[w] = "mirroring" /\ mirror' \in {mirror, mirror \cup TracesOf(batch[w])}
      /\ batch' = [batch EXCEPT ![w] = <<>>] /\ Goes(w, "idle")
      /\ UNCHANGED <<queue, dlq, enq, evals, trimmed, lost, ambiguous>>
  BY DEF Mirror, lists, history
<1>2. mirror' \subseteq Traces /\ \A t \in mirror' : evals[t] > 0
  BY <1>1, TracesTyped DEF QueueInv, QueueTyped, RowsAreFinal
<1> QED BY <1>1, <1>2, BatchGoes

LEMMA DropBatchStays ==
    ASSUME QueueInv, NEW w \in Workers, DropBatch(w)
    PROVE  QueueInv'
<1>1. /\ lost' = lost \cup TracesOf(batch[w])
      /\ batch' = [batch EXCEPT ![w] = <<>>] /\ Goes(w, "idle")
      /\ UNCHANGED <<queue, dlq, enq, evals, mirror, trimmed, ambiguous>>
  BY DEF DropBatch, lists, rows
<1>2. mirror' \subseteq Traces /\ \A t \in mirror' : evals[t] > 0
  BY <1>1 DEF QueueInv, QueueTyped, RowsAreFinal
<1> QED BY <1>1, <1>2, BatchGoes

LEMMA RequeueStays ==
    ASSUME QueueInv, NEW w \in Workers, Requeue(w)
    PROVE  QueueInv'
<1>1. PICK x \in LiveItem : x = Head(batch[w])
  BY FirstTaken DEF QueueInv, QueueTyped, Requeue
<1>2. PICK item : item = [x EXCEPT !.retries = x.retries + 1]
  OBVIOUS
<1>3. /\ doing[w] = "requeueing" /\ batch[w] # <<>>
      /\ IF item.retries > MaxRetries THEN dlq' = <<item>> \o dlq /\ queue' = queue
         ELSE queue' = <<item>> \o queue /\ dlq' = dlq
      /\ batch' = [batch EXCEPT ![w] = Tail(batch[w])]
      /\ UNCHANGED <<enq, doing, evals, mirror, trimmed, lost, ambiguous>>
  BY <1>1, <1>2 DEF Requeue, rows, history
<1>4. PICK t \in Traces : t = x.trace
  BY DEF LiveItem
<1>5. item \in Item /\ item.trace = t /\ (~(item.retries > MaxRetries) => item \in LiveItem)
  BY <1>2, <1>4, QueueAssumption DEF LiveItem, Item
<1>6. /\ Tail(batch[w]) \in Seq(LiveItem) /\ Single(Tail(batch[w]))
      /\ TracesOf(batch[w]) = TracesOf(Tail(batch[w])) \cup {t}
      /\ t \notin TracesOf(Tail(batch[w]))
  <2>1. batch[w] \in Seq(LiveItem) /\ Single(batch[w])
    BY DEF QueueInv, QueueTyped, OneCopy
  <2> QED BY <1>1, <1>3, <1>4, <2>1, FirstTaken
<1>7. ~Listed(t) /\ \A v \in Workers \ {w} : t \notin TracesOf(batch[v])
  BY <1>6 DEF QueueInv, OneCopy, Listed
<1>8. /\ queue' \in Seq(LiveItem) /\ dlq' \in Seq(Item) /\ Single(queue') /\ Single(dlq')
      /\ \/ TracesOf(queue') = TracesOf(queue) \cup {t} /\ dlq' = dlq
         \/ TracesOf(dlq') = TracesOf(dlq) \cup {t} /\ queue' = queue
  <2>1. /\ queue \in Seq(LiveItem) /\ dlq \in Seq(Item) /\ Single(queue) /\ Single(dlq)
        /\ t \notin TracesOf(queue) /\ t \notin TracesOf(dlq)
    BY <1>7 DEF QueueInv, QueueTyped, OneCopy, Listed
  <2>2. CASE item.retries > MaxRetries
    <3>1. dlq' = <<item>> \o dlq /\ queue' = queue
      BY <1>3, <2>2
    <3>2. /\ <<item>> \o dlq \in Seq(Item) /\ Single(<<item>> \o dlq)
          /\ TracesOf(<<item>> \o dlq) = TracesOf(dlq) \cup {t}
      BY <1>5, <2>1, Prepended
    <3> QED BY <2>1, <3>1, <3>2
  <2>3. CASE ~(item.retries > MaxRetries)
    <3>1. queue' = <<item>> \o queue /\ dlq' = dlq /\ item \in LiveItem
      BY <1>3, <1>5, <2>3
    <3>2. /\ <<item>> \o queue \in Seq(LiveItem) /\ Single(<<item>> \o queue)
          /\ TracesOf(<<item>> \o queue) = TracesOf(queue) \cup {t}
      BY <1>5, <2>1, <3>1, Prepended
    <3> QED BY <2>1, <3>1, <3>2
  <2> QED BY <2>2, <2>3
<1>9. /\ batch' \in [Workers -> Seq(LiveItem)] /\ Single(batch'[w])
      /\ TracesOf(batch[w]) = TracesOf(batch'[w]) \cup {t} /\ t \notin TracesOf(batch'[w])
      /\ \A v \in Workers \ {w} : batch'[v] = batch[v]
  BY <1>3, <1>6, BatchBecomes DEF QueueInv
<1>10. QueueTyped'
  BY <1>3, <1>8, <1>9 DEF QueueInv, QueueTyped
<1>11. OneCopy'
  <2>1. TracesOf(queue') \cap TracesOf(dlq') = {}
    BY <1>7, <1>8 DEF QueueInv, OneCopy, Listed
  <2>2. \A v \in Workers : Single(batch'[v])
    BY <1>9 DEF QueueInv, OneCopy
  <2>3. \A v \in Workers : t \notin TracesOf(batch'[v]) /\ TracesOf(batch'[v]) \subseteq TracesOf(batch[v])
    BY <1>7, <1>9
  <2>4. \A v \in Workers : TracesOf(batch'[v]) \cap (TracesOf(queue') \cup TracesOf(dlq')) = {}
    BY <1>8, <2>3 DEF QueueInv, OneCopy
  <2>5. \A u \in Workers : \A v \in Workers \ {u} : TracesOf(batch'[v]) \cap TracesOf(batch'[u]) = {}
    BY <2>3 DEF QueueInv, OneCopy
  <2> QED BY <1>8, <2>1, <2>2, <2>4, <2>5 DEF OneCopy
<1>12. Accounted'
  <2>1. Held(t) /\ enq[t] \notin {"new", "refused"}
    BY <1>6, <1>7 DEF QueueInv, Accounted, Held
  <2>2. \A u \in Traces : u # t => (Held(u)' <=> Held(u)) /\ (Listed(u)' <=> Listed(u))
    <3> SUFFICES ASSUME NEW u \in Traces, u # t
                 PROVE  (Held(u)' <=> Held(u)) /\ (Listed(u)' <=> Listed(u))
      OBVIOUS
    <3>1. \A v \in Workers : u \in TracesOf(batch'[v]) <=> u \in TracesOf(batch[v])
      BY <1>9
    <3>2. u \in TracesOf(queue') \cup TracesOf(dlq') <=> u \in TracesOf(queue) \cup TracesOf(dlq)
      BY <1>8
    <3> QED BY <3>1, <3>2 DEF Held, Listed
  <2>3. Listed(t)'
    BY <1>8 DEF Listed
  <2> QED BY <1>3, <2>1, <2>2, <2>3 DEF QueueInv, Accounted
<1>13. RowsAreFinal'
  <2>1. t \notin ambiguous => ~(evals[t] > 0)
    BY <1>3, <1>6, <1>7 DEF QueueInv, RowsAreFinal
  <2> QED BY <1>3, <1>8, <1>9, <2>1 DEF QueueInv, RowsAreFinal, Listed
<1> QED BY <1>10, <1>11, <1>12, <1>13 DEF QueueInv

LEMMA QueueStays ==
    ASSUME QueueInv, [QueueNext]_queueVars
    PROVE  QueueInv'
<1>1. CASE UNCHANGED queueVars
  <2>1. UNCHANGED <<queue, dlq, enq, doing, batch, evals, mirror, trimmed, lost, ambiguous>>
    BY <1>1 DEF queueVars, lists, rows, history
  <2>2. QueueTyped' /\ OneCopy'
    BY <2>1 DEF QueueInv, QueueTyped, OneCopy
  <2> QED BY <2>1, <2>2 DEF QueueInv, Accounted, RowsAreFinal, Held, Listed
<1>2. ASSUME NEW w \in Workers,
             PopDone(w) \/ PrimaryAnswers(w) \/ PrimaryFails(w) \/ FallbackYieldsRows(w)
             \/ FallbackRaises(w)
      PROVE  QueueInv'
  <2>1. /\ doing[w] # "mirroring" /\ UNCHANGED <<lists, enq, batch, rows, history>>
        /\ \E to \in Doing \ {"mirroring"} : Goes(w, to)
    BY <1>2 DEF PopDone, PrimaryAnswers, PrimaryFails, FallbackYieldsRows, FallbackRaises, Doing
  <2> QED BY <2>1, WorkerStepStays
<1>3. ASSUME NEW w \in Workers, Working(w) PROVE QueueInv'
  BY <1>2, <1>3, PopOneStays, InsertRowsStays, InsertRaisesStays, MirrorStays, RequeueStays,
     TrimQueueStays, TrimDlqStays DEF Working
<1> QED BY <1>1, <1>3, EnqueueStays, TrimAfterPushStays, EnqueueFailsStays, DropBatchStays
        DEF QueueNext

(* However many traces and workers there are, and however long the lists: a  *)
(* trace is in one place at most, and those in none are accounted for.       *)
THEOREM QueueInvariant == QueueSpec => []QueueInv
<1>1. QueueInit => QueueInv
  BY QueueStarts
<1>2. QueueInv /\ [QueueNext]_queueVars => QueueInv'
  BY QueueStays
<1> QED BY <1>1, <1>2, PTL DEF QueueSpec

(* No retry, fallback or dead letter drops a trace that reached the queue:   *)
(* it is judged, or cut off by a full list, or lost with a failing worker.   *)
THEOREM NoTraceIsDropped == QueueSpec => []NothingDropped
<1>1. QueueInv => NothingDropped
  <2> SUFFICES ASSUME QueueInv, NEW t \in Traces, enq[t] \in {"pushed", "done", "untrimmed"},
                      ~(evals[t] > 0), t \notin trimmed \cup lost, HeldBy(t) = {}
               PROVE  Queued(t) = 1
    BY DEF NothingDropped
  <2>1. Listed(t) \/ Held(t)
    BY DEF QueueInv, Accounted
  <2>2. ~Held(t)
    BY DEF Held, HeldBy
  <2>3. /\ Count(t, queue) = IF t \in TracesOf(queue) THEN 1 ELSE 0
        /\ Count(t, dlq) = IF t \in TracesOf(dlq) THEN 1 ELSE 0
    BY Counted DEF QueueInv, OneCopy
  <2>4. t \notin TracesOf(queue) \/ t \notin TracesOf(dlq)
    BY DEF QueueInv, OneCopy
  <2> QED BY <2>1, <2>2, <2>3, <2>4 DEF Queued, Listed
<1> QED BY <1>1, QueueInvariant, PTL

(* A trace gets one row, and circulates no more once it has it, unless the    *)
(* acknowledgement of an insert was lost; the mirror shows judged traces.    *)
THEOREM TracesHaveOneRow == QueueSpec => []OneRowPerTrace
<1>1. QueueInv => OneRowPerTrace
  <2> SUFFICES ASSUME QueueInv, NEW t \in Traces
               PROVE  /\ t \notin ambiguous => evals[t] <= 1 /\ (evals[t] = 1 => Queued(t) = 0)
                      /\ t \in mirror => evals[t] > 0
    BY DEF OneRowPerTrace
  <2>1. evals[t] \in Nat
    BY DEF QueueInv, QueueTyped
  <2>2. ~Listed(t) => Queued(t) = 0
    <3>1. /\ Count(t, queue) = IF t \in TracesOf(queue) THEN 1 ELSE 0
          /\ Count(t, dlq) = IF t \in TracesOf(dlq) THEN 1 ELSE 0
      BY Counted DEF QueueInv, OneCopy
    <3> QED BY <3>1 DEF Queued, Listed
  <2> QED BY <2>1, <2>2 DEF QueueInv, RowsAreFinal
<1> QED BY <1>1, QueueInvariant, PTL

-----------------------------------------------------------------------------
(* How long a trace circulates                                              *)

Entry(t, r) == [trace |-> t, retries |-> r]

(* What a worker at a point has left to do until it lets go of item i of l;   *)
(* in the queue a trace also has to wait for the older ones.                *)
WorkLeft(where, l, i) ==
    IF where = "popping" THEN 2 * BatchSize + 4 - l
    ELSE IF where = "judging" THEN BatchSize + 3
    ELSE IF where = "fallback" THEN BatchSize + 2
    ELSE IF where = "persisting" THEN BatchSize + 1
    ELSE IF where = "requeueing" THEN i
    ELSE 0

InList(s, t, r, n) ==
    \E i \in DOMAIN s : s[i] = Entry(t, r) /\ n = 2 * BatchSize + 4 + Len(s) - i

InBatch(s, where, t, r, n) ==
    \E i \in DOMAIN s : s[i] = Entry(t, r) /\ n = WorkLeft(where, Len(s), i)

(* Trace t circulates, tried r times again, with n steps to go in this round. *)
Circulates(t, r, n) ==
    InList(queue, t, r, n) \/ \E w \in Workers : InBatch(batch[w], doing[w], t, r, n)

Retried(t, r) == r > 0 /\ \E m \in Nat : Circulates(t, r - 1, m)

(* What circulates is pushed for the first time, or was pushed back and has   *)
(* one retry less left, or has no more steps to go than before, and fewer if *)
(* the step was one of the worker that has it.                              *)
RunsDown ==
    \A t \in Traces, r, n \in Nat : Circulates(t, r, n)' =>
        /\ r <= MaxRetries
        /\ enq[t] = "new" \/ Retried(t, r) \/ \E m \in Nat : Circulates(t, r, m) /\ n <= m
        /\ \A w \in Workers : Working(w) /\ t \in TracesOf(batch[w]) =>
              Retried(t, r) \/ \E m \in Nat : Circulates(t, r, m) /\ n < m

BatchesFit ==
    \A w \in Workers : /\ Len(batch[w]) <= BatchSize
                       /\ doing[w] \in {"idle", "dlqtrim"} => batch[w] = <<>>

LEMMA Sizes == BatchSize \in Nat /\ BatchSize >= 1 /\ MaxLen \in Nat
BY QueueAssumption

LEMMA WorkTyped ==
    ASSUME NEW where, NEW l \in 0..BatchSize, NEW i \in 1..l
    PROVE  WorkLeft(where, l, i) \in 0..(2 * BatchSize + 3)
<1>1. l >= 1 /\ l \in Nat /\ i \in Nat /\ i <= BatchSize
  BY Sizes
<1> QED BY <1>1, Sizes DEF WorkLeft

(* From one point of a worker to the next there is less left.               *)
LEMMA StagesFall ==
    ASSUME NEW l \in 0..BatchSize, NEW i \in 1..l
    PROVE  /\ WorkLeft("judging", l, i) < WorkLeft("popping", l, i)
           /\ WorkLeft("persisting", l, i) < WorkLeft("judging", l, i)
           /\ WorkLeft("fallback", l, i) < WorkLeft("judging", l, i)
           /\ WorkLeft("persisting", l, i) < WorkLeft("fallback", l, i)
           /\ WorkLeft("requeueing", l, i) < WorkLeft("fallback", l, i)
           /\ WorkLeft("mirroring", l, i) < WorkLeft("persisting", l, i)
           /\ WorkLeft("requeueing", l, i) < WorkLeft("persisting", l, i)
<1>1. l \in Nat /\ l <= BatchSize /\ i \in Nat /\ i <= BatchSize
  BY Sizes
<1> QED BY <1>1, Sizes DEF WorkLeft

(* Whoever is somewhere is one of its traces.                               *)
LEMMA Somewhere ==
    ASSUME NEW s, NEW t, NEW r, NEW n, NEW where
    PROVE  /\ InList(s, t, r, n) => t \in TracesOf(s)
           /\ InBatch(s, where, t, r, n) => t \in TracesOf(s)
BY DEF InList, InBatch, TracesOf, Entry

(* What the operations of a list do to the steps its items have to go.       *)
LEMMA PopMoves ==
    ASSUME NEW S, NEW s \in Seq(S), s # <<>>, NEW t, NEW r, NEW n \in Nat,
           InList(SubSeq(s, 1, Len(s) - 1), t, r, n)
    PROVE  InList(s, t, r, n + 1)
<1> DEFINE q == SubSeq(s, 1, Len(s) - 1)
<1>1. Len(s) \in Nat \ {0} /\ DOMAIN s = 1..Len(s)
  OBVIOUS
<1>2. q \in Seq(S) /\ Len(q) = Len(s) - 1
  BY <1>1
<1>3. \A i \in 1..(Len(s) - 1) : q[i] = s[i]
  BY <1>1
<1> HIDE DEF q
<1>4. PICK i \in DOMAIN q : q[i] = Entry(t, r) /\ n = 2 * BatchSize + 4 + Len(q) - i
  BY DEF InList, q
<1>5. i \in 1..(Len(s) - 1)
  BY <1>1, <1>2
<1>6. i \in DOMAIN s /\ s[i] = Entry(t, r)
  BY <1>1, <1>3, <1>4, <1>5
<1>7. n + 1 = 2 * BatchSize + 4 + Len(s) - i
  BY <1>1, <1>2, <1>4, <1>5, Sizes
<1> QED BY <1>6, <1>7 DEF InList

LEMMA TrimMoves ==
    ASSUME NEW S, NEW s \in Seq(S), NEW k \in Nat, NEW t, NEW r, NEW n \in Nat,
           InList(Kept(s, k), t, r, n)
    PROVE  \E m \in Nat : InList(s, t, r, m) /\ n <= m
<1>1. CASE ~(k > 0 /\ Len(s) > k)
  BY <1>1 DEF Kept
<1>2. CASE k > 0 /\ Len(s) > k
  <2> DEFINE q == SubSeq(s, 1, k)
  <2>1. Len(s) \in Nat /\ DOMAIN s = 1..Len(s)
    OBVIOUS
  <2>2. q \in Seq(S) /\ Len(q) = k /\ \A i \in 1..k : q[i] = s[i]
    BY <1>2, <2>1
  <2>3. Kept(s, k) = q
    BY <1>2 DEF Kept
  <2> HIDE DEF q
  <2>4. PICK i \in DOMAIN q : q[i] = Entry(t, r) /\ n = 2 * BatchSize + 4 + k - i
    BY <2>2, <2>3 DEF InList
  <2>5. i \in 1..k /\ i \in Nat
    BY <2>2
  <2>6. i \in DOMAIN s /\ s[i] = Entry(t, r)
    BY <1>2, <2>1, <2>2, <2>4, <2>5
  <2>7. PICK m \in Nat : m = 2 * BatchSize + 4 + Len(s) - i /\ n <= m
    BY <1>2, <2>1, <2>4, <2>5, Sizes
  <2> QED BY <2>6, <2>7 DEF InList
<1> QED BY <1>1, <1>2

LEMMA PushMoves ==
    ASSUME NEW S, NEW s \in Seq(S), NEW x \in S, NEW t, NEW r, NEW n \in Nat,
           InList(<<x>> \o s, t, r, n)
    PROVE  x = Entry(t, r) \/ InList(s, t, r, n)
<1> DEFINE q == <<x>> \o s
<1>1. Len(s) \in Nat /\ DOMAIN s = 1..Len(s)
  OBVIOUS
<1>2. q \in Seq(S) /\ Len(q) = Len(s) + 1 /\ q[1] = x /\ \A i \in 1..Len(s) : q[i + 1] = s[i]
  OBVIOUS
<1> HIDE DEF q
<1>3. PICK i \in DOMAIN q : q[i] = Entry(t, r) /\ n = 2 * BatchSize + 4 + Len(q) - i
  BY DEF InList, q
<1>4. i \in 1..(Len(s) + 1)
  BY <1>1, <1>2
<1>5. CASE i = 1
  BY <1>2, <1>3, <1>5
<1>6. CASE i # 1
  <2>1. PICK j \in 1..Len(s) : j + 1 = i
    <3>1. i - 1 \in 1..Len(s) /\ (i - 1) + 1 = i
      BY <1>1, <1>4, <1>6
    <3> QED BY <3>1
  <2>2. j \in DOMAIN s /\ s[j] = Entry(t, r)
    BY <1>1, <1>2, <1>3, <2>1
  <2>3. n = 2 * BatchSize + 4 + Len(s) - j
    BY <1>1, <1>2, <1>3, <2>1, Sizes
  <2> QED BY <2>2, <2>3 DEF InList
<1> QED BY <1>5, <1>6

LEMMA TakeMoves ==
    ASSUME NEW S, NEW s \in Seq(S), NEW x \in S, NEW t, NEW r, NEW n \in Nat,
           InBatch(Append(s, x), "popping", t, r, n)
    PROVE  \/ x = Entry(t, r) /\ n = 2 * BatchSize + 3 - Len(s)
           \/ InBatch(s, "popping", t, r, n + 1)
<1> DEFINE q == Append(s, x)
<1>1. Len(s) \in Nat /\ DOMAIN s = 1..Len(s)
  OBVIOUS
<1>2. q \in Seq(S) /\ Len(q) = Len(s) + 1 /\ q[Len(s) + 1] = x /\ \A i \in 1..Len(s) : q[i] = s[i]
  OBVIOUS
<1> HIDE DEF q
<1>3. PICK i \in DOMAIN q : q[i] = Entry(t, r) /\ n = 2 * BatchSize + 4 - Len(q)
  BY DEF InBatch, WorkLeft, q
<1>4. i \in 1..(Len(s) + 1)
  BY <1>1, <1>2
<1>5. n = 2 * BatchSize + 3 - Len(s) /\ n + 1 = 2 * BatchSize + 4 - Len(s)
  BY <1>1, <1>2, <1>3, Sizes
<1>6. CASE i = Len(s) + 1
  BY <1>2, <1>3, <1>5, <1>6
<1>7. CASE i # Len(s) + 1
  <2>1. i \in 1..Len(s)
    BY <1>1, <1>4, <1>7
  <2>2. i \in DOMAIN s /\ s[i] = Entry(t, r)
    BY <1>1, <1>2, <1>3, <2>1
  <2> QED BY <1>5, <2>2 DEF InBatch, WorkLeft
<1> QED BY <1>6, <1>7

LEMMA ReturnMoves ==
    ASSUME NEW S, NEW s \in Seq(S), s # <<>>, NEW t, NEW r, NEW n \in Nat,
           InBatch(Tail(s), "requeueing", t, r, n)
    PROVE  InBatch(s, "requeueing", t, r, n + 1)
<1> DEFINE q == Tail(s)
<1>1. Len(s) \in Nat \ {0} /\ DOMAIN s = 1..Len(s)
  OBVIOUS
<1>2. q \in Seq(S) /\ Len(q) = Len(s) - 1
  OBVIOUS
<1>3. \A i \in 1..(Len(s) - 1) : q[i] = s[i + 1]
  BY <1>1
<1> HIDE DEF q
<1>4. PICK i \in DOMAIN q : q[i] = Entry(t, r) /\ n = i
  BY DEF InBatch, WorkLeft, q
<1>5. i \in 1..(Len(s) - 1)
  BY <1>1, <1>2
<1>6. i + 1 \in DOMAIN s /\ s[i + 1] = Entry(t, r)
  BY <1>1, <1>3, <1>4, <1>5
<1> QED BY <1>4, <1>6 DEF InBatch, WorkLeft


(* A step of a worker is the others' stutter.                               *)
LEMMA OthersStay ==
    ASSUME QueueTyped, NEW w \in Workers, Working(w) \/ DropBatch(w)
    PROVE  \A v \in Workers \ {w} : batch'[v] = batch[v] /\ doing'[v] = doing[v]
<1>1. batch \in [Workers -> Seq(LiveItem)] /\ doing \in [Workers -> Doing]
  BY DEF QueueTyped
<1>2. batch' = batch \/ \E s : batch' = [batch EXCEPT ![w] = s]
  BY DEF Working, DropBatch, PopOne, PopDone, PrimaryAnswers, PrimaryFails, FallbackYieldsRows,
         FallbackRaises, InsertRows, InsertRaises, Mirror, Requeue, TrimQueue, TrimDlq
<1>3. doing' = doing \/ \E to : doing' = [doing EXCEPT ![w] = to]
  BY DEF Working, DropBatch, PopOne, PopDone, PrimaryAnswers, PrimaryFails, FallbackYieldsRows,
         FallbackRaises, InsertRows, InsertRaises, Mirror, Requeue, TrimQueue, TrimDlq, Goes
<1> QED BY <1>1, <1>2, <1>3

(* A worker that moves on with its batch unchanged.                          *)
GoesOn(w) ==
    \/ PopDone(w) \/ PrimaryAnswers(w) \/ PrimaryFails(w) \/ FallbackYieldsRows(w)
    \/ FallbackRaises(w) \/ InsertRows(w) \/ InsertRaises(w)

LEMMA MovesOn ==
    ASSUME QueueTyped, NEW w \in Workers, GoesOn(w)
    PROVE  /\ batch' = batch /\ queue' = queue /\ enq' = enq
           /\ doing'[w] \in Doing \ {"idle", "dlqtrim"}
           /\ \A l \in 0..BatchSize : \A i \in 1..l :
                 WorkLeft(doing'[w], l, i) < WorkLeft(doing[w], l, i)
<1>1. batch' = batch /\ queue' = queue /\ enq' = enq
  BY DEF GoesOn, PopDone, PrimaryAnswers, PrimaryFails, FallbackYieldsRows, FallbackRaises,
         InsertRows, InsertRaises, lists
<1>2. \/ doing[w] = "popping" /\ doing'[w] = "judging"
      \/ doing[w] = "judging" /\ doing'[w] \in {"persisting", "fallback"}
      \/ doing[w] = "fallback" /\ doing'[w] \in {"persisting", "requeueing"}
      \/ doing[w] = "persisting" /\ doing'[w] \in {"mirroring", "requeueing"}
  BY DEF GoesOn, PopDone, PrimaryAnswers, PrimaryFails, FallbackYieldsRows, FallbackRaises,
         InsertRows, InsertRaises, Goes, QueueTyped
<1>3. \A l \in 0..BatchSize : \A i \in 1..l :
          WorkLeft(doing'[w], l, i) < WorkLeft(doing[w], l, i)
  BY <1>2, StagesFall
<1> QED BY <1>1, <1>2, <1>3 DEF Doing

LEMMA BatchesStart ==
    ASSUME QueueInit
    PROVE  BatchesFit
<1>1. Len(<<>>) = 0
  OBVIOUS
<1> QED BY <1>1, Sizes DEF QueueInit, BatchesFit

(* One worker's batch fits a batch.                                         *)
Fits(s, where) == Len(s) <= BatchSize /\ (where \in {"idle", "dlqtrim"} => s = <<>>)

LEMMA EmptyFits == ASSUME NEW where PROVE Fits(<<>>, where)
<1>1. Len(<<>>) = 0
  OBVIOUS
<1> QED BY <1>1, Sizes DEF Fits

LEMMA BatchesStay ==
    ASSUME QueueTyped, BatchesFit, [QueueNext]_queueVars
    PROVE  BatchesFit'
<1>1. \A w \in Workers : Fits(batch[w], doing[w])
  BY DEF BatchesFit, Fits
<1>2. SUFFICES \A w \in Workers : Fits(batch'[w], doing'[w])
  BY DEF BatchesFit, Fits
<1>3. CASE batch' = batch /\ doing' = doing
  BY <1>1, <1>3
<1>4. ASSUME NEW w \in Workers, Working(w) \/ DropBatch(w)
      PROVE  Fits(batch'[w], doing'[w])
  <2>1. /\ batch[w] \in Seq(LiveItem) /\ Len(batch[w]) \in Nat /\ Len(batch[w]) <= BatchSize
        /\ batch \in [Workers -> Seq(LiveItem)] /\ doing \in [Workers -> Doing]
    BY DEF QueueTyped, BatchesFit
  <2>2. CASE GoesOn(w)
    <3>1. batch'[w] = batch[w] /\ doing'[w] \notin {"idle", "dlqtrim"}
      BY <2>2, MovesOn
    <3> QED BY <2>1, <3>1 DEF Fits
  <2>3. CASE PopOne(w)
    <3>1. PICK x \in LiveItem : batch' = [batch EXCEPT ![w] = Append(batch[w], x)]
      BY <2>3, OldestTaken DEF PopOne, QueueTyped
    <3>2. Len(batch[w]) < BatchSize /\ doing'[w] = "popping"
      BY <2>1, <2>3 DEF PopOne, Goes
    <3>3. batch'[w] = Append(batch[w], x) /\ Len(Append(batch[w], x)) = Len(batch[w]) + 1
      BY <2>1, <3>1
    <3>4. Len(batch'[w]) <= BatchSize
      BY <2>1, <3>2, <3>3, Sizes
    <3> QED BY <3>2, <3>4 DEF Fits
  <2>4. CASE Mirror(w) \/ DropBatch(w)
    <3>1. batch'[w] = <<>>
      BY <2>1, <2>4 DEF Mirror, DropBatch
    <3> QED BY <3>1, EmptyFits
  <2>5. CASE Requeue(w)
    <3>1. batch'[w] = Tail(batch[w]) /\ batch[w] # <<>> /\ doing'[w] = "requeueing"
      BY <2>1, <2>5 DEF Requeue
    <3>2. Len(Tail(batch[w])) = Len(batch[w]) - 1
      BY <2>1, <3>1
    <3>3. Len(batch'[w]) <= BatchSize
      BY <2>1, <3>1, <3>2, Sizes
    <3> QED BY <3>1, <3>3 DEF Fits
  <2>6. CASE TrimQueue(w) \/ TrimDlq(w)
    <3>1. batch'[w] = <<>>
      BY <1>1, <2>6 DEF TrimQueue, TrimDlq, Fits
    <3> QED BY <3>1, EmptyFits
  <2> QED BY <1>4, <2>2, <2>3, <2>4, <2>5, <2>6 DEF Working, GoesOn
<1>5. ASSUME NEW w \in Workers, Working(w) \/ DropBatch(w)
      PROVE  \A v \in Workers : Fits(batch'[v], doing'[v])
  BY <1>1, <1>4, <1>5, OthersStay
<1>6. ASSUME NEW t \in Traces, Enqueue(t) \/ TrimAfterPush(t) \/ EnqueueFails(t)
      PROVE  batch' = batch /\ doing' = doing
  BY <1>6 DEF Enqueue, TrimAfterPush, EnqueueFails
<1>7. UNCHANGED queueVars => batch' = batch /\ doing' = doing
  BY DEF queueVars
<1> QED BY <1>3, <1>5, <1>6, <1>7 DEF QueueNext

(* A trace that stays where it is, or moves within reach.                    *)
Later(t, r, n) == Retried(t, r) \/ \E m \in Nat : Circulates(t, r, m) /\ n <= m
Sooner(t, r, n) == Retried(t, r) \/ \E m \in Nat : Circulates(t, r, m) /\ n < m

LEMMA SoonerIsLater ==
    ASSUME NEW t, NEW r, NEW n \in Nat, Sooner(t, r, n)
    PROVE  Later(t, r, n)
<1>1. \A m \in Nat : n < m => n <= m
  OBVIOUS
<1> QED BY <1>1 DEF Sooner, Later

LEMMA Stays ==
    ASSUME NEW t, NEW r, NEW n \in Nat, Circulates(t, r, n)
    PROVE  Later(t, r, n)
<1>1. n <= n
  OBVIOUS
<1> QED BY <1>1 DEF Later

LEMMA OneSooner ==
    ASSUME NEW t, NEW r, NEW n \in Nat, Circulates(t, r, n + 1)
    PROVE  Sooner(t, r, n)
<1>1. n + 1 \in Nat /\ n < n + 1
  OBVIOUS
<1> QED BY <1>1 DEF Sooner

(* The queue untouched, a trace in it is in no batch.                         *)
LEMMA QueueRests ==
    ASSUME OneCopy, queue' = queue, NEW w \in Workers, NEW t, NEW r, NEW n \in Nat,
           InList(queue', t, r, n)
    PROVE  Later(t, r, n) /\ t \notin TracesOf(batch[w])
<1>1. Circulates(t, r, n)
  BY DEF Circulates
<1>2. t \in TracesOf(queue)
  BY Somewhere
<1> QED BY <1>1, <1>2, Stays DEF OneCopy

LEMMA OthersRest ==
    ASSUME OneCopy, NEW w \in Workers, NEW v \in Workers \ {w},
           batch'[v] = batch[v], doing'[v] = doing[v], NEW t, NEW r, NEW n \in Nat,
           InBatch(batch'[v], doing'[v], t, r, n)
    PROVE  Later(t, r, n) /\ t \notin TracesOf(batch[w])
<1>1. Circulates(t, r, n)
  BY DEF Circulates
<1>2. t \in TracesOf(batch[v])
  BY Somewhere
<1> QED BY <1>1, <1>2, Stays DEF OneCopy

LEMMA EmptyHasNone == ASSUME NEW where, NEW t, NEW r, NEW n PROVE ~InBatch(<<>>, where, t, r, n)
BY DEF InBatch

(* What a worker's own step does to what it holds and to the queue.          *)
LEMMA MoveIsSooner ==
    ASSUME QueueTyped, BatchesFit, NEW w \in Workers, GoesOn(w), NEW t, NEW r, NEW n \in Nat,
           InBatch(batch'[w], doing'[w], t, r, n)
    PROVE  Sooner(t, r, n)
<1>1. /\ batch[w] \in Seq(LiveItem) /\ Len(batch[w]) \in 0..BatchSize
      /\ DOMAIN batch[w] = 1..Len(batch[w])
  BY Sizes DEF QueueTyped, BatchesFit
<1>2. batch' = batch /\ \A l \in 0..BatchSize : \A i \in 1..l :
          WorkLeft(doing'[w], l, i) < WorkLeft(doing[w], l, i)
  BY MovesOn
<1>3. PICK i \in 1..Len(batch[w]) :
          batch[w][i] = Entry(t, r) /\ n = WorkLeft(doing'[w], Len(batch[w]), i)
  BY <1>1, <1>2 DEF InBatch
<1>4. PICK m \in Nat : m = WorkLeft(doing[w], Len(batch[w]), i)
  <2>1. WorkLeft(doing[w], Len(batch[w]), i) \in 0..(2 * BatchSize + 3)
    BY <1>1, WorkTyped
  <2> QED BY <2>1
<1>5. Circulates(t, r, m)
  BY <1>1, <1>3, <1>4 DEF Circulates, InBatch
<1>6. n < m
  BY <1>1, <1>2, <1>3, <1>4
<1> QED BY <1>5, <1>6 DEF Sooner

LEMMA PopIsSooner ==
    ASSUME QueueTyped, BatchesFit, NEW w \in Workers, PopOne(w), NEW t, NEW r, NEW n \in Nat,
           InList(queue', t, r, n) \/ InBatch(batch'[w], doing'[w], t, r, n)
    PROVE  Sooner(t, r, n)
<1>1. /\ queue \in Seq(LiveItem) /\ queue # <<>> /\ batch[w] \in Seq(LiveItem)
      /\ queue' = SubSeq(queue, 1, Len(queue) - 1) /\ doing'[w] = "popping"
      /\ batch'[w] = Append(batch[w], queue[Len(queue)])
      /\ doing[w] \in {"idle", "popping"}
  BY DEF PopOne, QueueTyped, Goes
<1>2. CASE InList(queue', t, r, n)
  <2>1. InList(queue, t, r, n + 1)
    BY <1>1, <1>2, PopMoves
  <2> QED BY <2>1, OneSooner DEF Circulates
<1>3. CASE InBatch(batch'[w], doing'[w], t, r, n)
  <2>1. Len(queue) \in DOMAIN queue /\ queue[Len(queue)] \in LiveItem
        /\ Len(queue) \in Nat /\ Len(batch[w]) \in Nat
    BY <1>1
  <2>2. \/ queue[Len(queue)] = Entry(t, r) /\ n = 2 * BatchSize + 3 - Len(batch[w])
        \/ InBatch(batch[w], "popping", t, r, n + 1)
    BY <1>1, <1>3, <2>1, TakeMoves
  <2>3. CASE InBatch(batch[w], "popping", t, r, n + 1)
    <3>1. doing[w] = "popping"
      BY <1>1, <2>3, EmptyHasNone DEF BatchesFit
    <3> QED BY <2>3, <3>1, OneSooner DEF Circulates
  <2>4. CASE queue[Len(queue)] = Entry(t, r) /\ n = 2 * BatchSize + 3 - Len(batch[w])
    <3>1. PICK k \in Nat, l \in Nat : k = Len(queue) /\ l = Len(batch[w])
      BY <2>1
    <3>2. 2 * BatchSize + 4 \in Nat /\ 2 * BatchSize + 4 = 2 * BatchSize + 4 + k - k
      BY Sizes
    <3>3. PICK m \in Nat : m = 2 * BatchSize + 4 /\ m = 2 * BatchSize + 4 + k - k
      BY <3>2
    <3>4. n < m
      <4>1. n = 2 * BatchSize + 3 - l /\ m = 2 * BatchSize + 4
        BY <2>4, <3>1, <3>3
      <4>2. PICK b \in Nat : b = 2 * BatchSize
        BY Sizes
      <4>3. n = b + 3 - l /\ m = b + 4
        BY <4>1, <4>2
      <4> QED BY <4>3
    <3>5. InList(queue, t, r, m)
      <4>1. k \in DOMAIN queue /\ queue[k] = Entry(t, r)
        BY <2>1, <2>4, <3>1
      <4>2. m = 2 * BatchSize + 4 + Len(queue) - k
        BY <3>1, <3>3
      <4> QED BY <4>1, <4>2 DEF InList
    <3> QED BY <3>4, <3>5 DEF Sooner, Circulates
  <2> QED BY <2>2, <2>3, <2>4
<1> QED BY <1>2, <1>3

LEMMA RequeueMoves ==
    ASSUME QueueInv, NEW w \in Workers, Requeue(w), NEW t, NEW r \in Nat, NEW n \in Nat
    PROVE  /\ InBatch(batch'[w], doing'[w], t, r, n) => Sooner(t, r, n)
           /\ InList(queue', t, r, n) =>
                 Sooner(t, r, n) \/ (Later(t, r, n) /\ t \notin TracesOf(batch[w]))
<1>1. /\ batch[w] \in Seq(LiveItem) /\ batch[w] # <<>> /\ queue \in Seq(LiveItem)
      /\ batch'[w] = Tail(batch[w]) /\ doing'[w] = "requeueing" /\ doing[w] = "requeueing"
  BY DEF Requeue, QueueInv, QueueTyped
<1>2. ASSUME InBatch(batch'[w], doing'[w], t, r, n) PROVE Sooner(t, r, n)
  <2>1. InBatch(batch[w], "requeueing", t, r, n + 1)
    BY <1>1, <1>2, ReturnMoves
  <2> QED BY <1>1, <2>1, OneSooner DEF Circulates
<1>3. ASSUME InList(queue', t, r, n), queue' = queue
      PROVE  Later(t, r, n) /\ t \notin TracesOf(batch[w])
  BY <1>3, QueueRests DEF QueueInv
<1>4. ASSUME InList(queue', t, r, n), queue' # queue
      PROVE  Sooner(t, r, n) \/ (Later(t, r, n) /\ t \notin TracesOf(batch[w]))
  <2>1. PICK x \in LiveItem : x = Head(batch[w]) /\ x = batch[w][1] /\ 1 \in DOMAIN batch[w]
    BY <1>1
  <2>2. PICK item : item = [x EXCEPT !.retries = x.retries + 1]
    OBVIOUS
  <2>3. queue' = <<item>> \o queue /\ ~(item.retries > MaxRetries)
    BY <1>4, <2>1, <2>2 DEF Requeue
  <2>4. item \in LiveItem
    <3>1. item \in Item /\ (~(item.retries > MaxRetries) => item \in LiveItem)
      BY <2>2, QueueAssumption DEF LiveItem, Item
    <3> QED BY <2>3, <3>1
  <2>5. item = Entry(t, r) \/ InList(queue, t, r, n)
    BY <1>1, <1>4, <2>3, <2>4, PushMoves
  <2>6. CASE InList(queue, t, r, n)
    <3>1. Circulates(t, r, n) /\ t \in TracesOf(queue)
      BY <2>6, Somewhere DEF Circulates
    <3> QED BY <3>1, Stays DEF QueueInv, OneCopy
  <2>7. CASE item = Entry(t, r)
    <3>1. x.retries \in Nat /\ r = x.retries + 1 /\ x.trace = t
      BY <2>1, <2>2, <2>7, QueueAssumption DEF LiveItem, Entry
    <3>2. x = Entry(t, r - 1) /\ r > 0
      <4>1. r - 1 = x.retries /\ r > 0
        BY <3>1
      <4> QED BY <2>1, <3>1, <4>1 DEF LiveItem, Entry
    <3>3. InBatch(batch[w], "requeueing", t, r - 1, 1)
      BY <2>1, <3>2 DEF InBatch, WorkLeft
    <3>4. Retried(t, r)
      BY <1>1, <3>2, <3>3 DEF Retried, Circulates
    <3> QED BY <3>4 DEF Sooner
  <2> QED BY <2>5, <2>6, <2>7
<1> QED BY <1>2, <1>3, <1>4

LEMMA TrimIsLater ==
    ASSUME QueueTyped, queue' = Kept(queue, MaxLen), NEW t, NEW r, NEW n \in Nat,
           InList(queue', t, r, n)
    PROVE  Later(t, r, n)
<1>1. \E m \in Nat : InList(queue, t, r, m) /\ n <= m
  BY TrimMoves, Sizes DEF QueueTyped
<1> QED BY <1>1 DEF Later, Circulates

(* Where a trace is after a step of w: in the queue, with w or with another. *)
Near(w, t, r, n) ==
    InList(queue', t, r, n) \/ InBatch(batch'[w], doing'[w], t, r, n)

Away(w, t, r, n) ==
    \E v \in Workers \ {w} : InBatch(batch'[v], doing'[v], t, r, n)

LEMMA Whereabouts ==
    ASSUME NEW w \in Workers, NEW t, NEW r, NEW n, Circulates(t, r, n)'
    PROVE  Near(w, t, r, n) \/ Away(w, t, r, n)
<1>1. InList(queue', t, r, n) \/ \E v \in Workers : InBatch(batch'[v], doing'[v], t, r, n)
  BY DEF Circulates, InList, InBatch, Entry, WorkLeft
<1> QED BY <1>1 DEF Near, Away

(* Every step of a worker brings what it has nearer to the end.              *)
LEMMA WorkRunsDown ==
    ASSUME QueueInv, BatchesFit, NEW w \in Workers, Working(w),
           NEW t, NEW r \in Nat, NEW n \in Nat, Circulates(t, r, n)'
    PROVE  Sooner(t, r, n) \/ (Later(t, r, n) /\ t \notin TracesOf(batch[w]))
<1>1. QueueTyped /\ OneCopy
  BY DEF QueueInv
<1>2. CASE Away(w, t, r, n)
  <2>1. PICK v \in Workers \ {w} : InBatch(batch'[v], doing'[v], t, r, n)
    BY <1>2 DEF Away
  <2>2. batch'[v] = batch[v] /\ doing'[v] = doing[v]
    BY <1>1, OthersStay
  <2> QED BY <1>1, <2>1, <2>2, OthersRest
<1>3. CASE Near(w, t, r, n)
  <2>1. CASE GoesOn(w)
    <3>1. queue' = queue
      BY <1>1, <2>1, MovesOn
    <3> QED BY <1>1, <1>3, <2>1, <3>1, MoveIsSooner, QueueRests DEF Near
  <2>2. CASE PopOne(w)
    BY <1>1, <1>3, <2>2, PopIsSooner DEF Near
  <2>3. CASE Mirror(w)
    <3>1. batch'[w] = <<>> /\ queue' = queue
      BY <1>1, <2>3 DEF Mirror, QueueTyped, lists
    <3> QED BY <1>1, <1>3, <3>1, EmptyHasNone, QueueRests DEF Near
  <2>4. CASE Requeue(w)
    BY <1>3, <2>4, RequeueMoves DEF Near
  <2>5. CASE TrimQueue(w)
    <3>1. batch[w] = <<>> /\ batch'[w] = <<>> /\ queue' = Kept(queue, MaxLen)
      BY <2>5 DEF TrimQueue
    <3> QED BY <1>1, <1>3, <3>1, EmptyHasNone, Emptied, TrimIsLater DEF Near
  <2>6. CASE TrimDlq(w)
    <3>1. batch[w] = <<>> /\ batch'[w] = <<>> /\ queue' = queue
      BY <2>6 DEF TrimDlq, BatchesFit
    <3> QED BY <1>1, <1>3, <3>1, EmptyHasNone, QueueRests DEF Near
  <2> QED BY <2>1, <2>2, <2>3, <2>4, <2>5, <2>6 DEF Working, GoesOn
<1> QED BY <1>2, <1>3, Whereabouts

LEMMA DropRunsDown ==
    ASSUME QueueInv, NEW w \in Workers, DropBatch(w),
           NEW t, NEW r, NEW n \in Nat, Circulates(t, r, n)'
    PROVE  Later(t, r, n)
<1>1. QueueTyped /\ OneCopy
  BY DEF QueueInv
<1>2. batch'[w] = <<>> /\ queue' = queue
  BY <1>1 DEF DropBatch, QueueTyped, lists
<1>3. CASE Away(w, t, r, n)
  <2>1. PICK v \in Workers \ {w} : InBatch(batch'[v], doing'[v], t, r, n)
    BY <1>3 DEF Away
  <2>2. batch'[v] = batch[v] /\ doing'[v] = doing[v]
    BY <1>1, OthersStay
  <2> QED BY <1>1, <2>1, <2>2, OthersRest
<1>4. CASE Near(w, t, r, n)
  BY <1>1, <1>2, <1>4, EmptyHasNone, QueueRests DEF Near
<1> QED BY <1>3, <1>4, Whereabouts

(* An API process pushes a new trace, or cuts the queue, and touches no batch. *)
LEMMA PushRunsDown ==
    ASSUME QueueInv, NEW u \in Traces, Enqueue(u) \/ TrimAfterPush(u) \/ EnqueueFails(u),
           NEW t, NEW r, NEW n \in Nat, Circulates(t, r, n)'
    PROVE  enq[t] = "new" \/ Later(t, r, n)
<1>1. QueueTyped /\ batch' = batch /\ doing' = doing
  BY DEF Enqueue, TrimAfterPush, EnqueueFails, QueueInv
<1>2. InList(queue', t, r, n) \/ \E v \in Workers : InBatch(batch[v], doing[v], t, r, n)
  BY <1>1 DEF Circulates, InList, InBatch, Entry, WorkLeft
<1>3. ASSUME NEW v \in Workers, InBatch(batch[v], doing[v], t, r, n) PROVE Later(t, r, n)
  BY <1>3, Stays DEF Circulates
<1>4. ASSUME InList(queue, t, r, n) PROVE Later(t, r, n)
  BY <1>4, Stays DEF Circulates
<1>5. CASE InList(queue', t, r, n)
  <2>1. CASE Enqueue(u)
    <3>1. queue' = <<Entry(u, 0)>> \o queue /\ enq[u] = "new"
      BY <2>1 DEF Enqueue, Entry
    <3>2. Entry(u, 0) \in LiveItem /\ queue \in Seq(LiveItem)
      BY <1>1, QueueAssumption DEF Entry, LiveItem, QueueTyped
    <3>3. Entry(u, 0) = Entry(t, r) \/ InList(queue, t, r, n)
      BY <1>5, <3>1, <3>2, PushMoves
    <3>4. Entry(u, 0) = Entry(t, r) => u = t
      BY DEF Entry
    <3> QED BY <1>4, <3>1, <3>3, <3>4
  <2>2. CASE TrimAfterPush(u)
    <3>1. queue' = Kept(queue, MaxLen)
      BY <2>2 DEF TrimAfterPush
    <3> QED BY <1>1, <1>5, <3>1, TrimIsLater
  <2>3. CASE EnqueueFails(u)
    <3>1. queue' = queue
      BY <2>3 DEF EnqueueFails, lists
    <3> QED BY <1>4, <1>5, <3>1
  <2> QED BY <2>1, <2>2, <2>3
<1> QED BY <1>2, <1>3, <1>5

LEMMA RetriesLeft ==
    ASSUME QueueTyped', NEW t, NEW r, NEW n, Circulates(t, r, n)'
    PROVE  r <= MaxRetries
<1>1. \A s \in Seq(LiveItem) : \A i \in DOMAIN s : s[i] \in LiveItem
  OBVIOUS
<1>2. Entry(t, r) \in LiveItem
  BY <1>1 DEF QueueTyped, Circulates, InList, InBatch
<1>3. Entry(t, r).retries = r
  BY DEF Entry
<1> QED BY <1>2, <1>3, QueueAssumption DEF LiveItem

LEMMA StepRunsDown ==
    ASSUME QueueInv, QueueInv', BatchesFit, [QueueNext]_queueVars
    PROVE  RunsDown
<1> SUFFICES ASSUME NEW t \in Traces, NEW r \in Nat, NEW n \in Nat, Circulates(t, r, n)'
             PROVE  /\ r <= MaxRetries
                    /\ enq[t] = "new" \/ Later(t, r, n)
                    /\ \A w \in Workers :
                          Working(w) /\ t \in TracesOf(batch[w]) => Sooner(t, r, n)
  BY DEF RunsDown, Later, Sooner
<1>1. r <= MaxRetries
  BY RetriesLeft DEF QueueInv
<1>2. ASSUME NEW w \in Workers, Working(w), t \in TracesOf(batch[w]) PROVE Sooner(t, r, n)
  BY <1>2, WorkRunsDown
<1>3. ASSUME NEW w \in Workers, Working(w) PROVE Later(t, r, n)
  BY <1>3, WorkRunsDown, SoonerIsLater
<1>4. ASSUME NEW w \in Workers, DropBatch(w) PROVE Later(t, r, n)
  BY <1>4, DropRunsDown
<1>5. ASSUME NEW u \in Traces, Enqueue(u) \/ TrimAfterPush(u) \/ EnqueueFails(u)
      PROVE  enq[t] = "new" \/ Later(t, r, n)
  BY <1>5, PushRunsDown
<1>6. ASSUME UNCHANGED queueVars PROVE Later(t, r, n)
  <2>1. queue' = queue /\ batch' = batch /\ doing' = doing
    BY <1>6 DEF queueVars, lists
  <2>2. Circulates(t, r, n)
    BY <2>1 DEF Circulates, InList, InBatch, Entry, WorkLeft
  <2> QED BY <2>2, Stays
<1> QED BY <1>1, <1>2, <1>3, <1>4, <1>5, <1>6 DEF QueueNext

(* The safety half of TracesSettle: once pushed, a trace is taken back by no  *)
(* step, every step of the worker that holds it brings it nearer to the end  *)
(* of its round, and it has at most MaxRetries rounds after the first: a     *)
(* model that always fails cannot keep it circulating.                       *)
THEOREM TracesRunDown == QueueSpec => [][RunsDown]_queueVars
<1>1. QueueInit => BatchesFit
  BY BatchesStart
<1>2. QueueInv /\ BatchesFit /\ [QueueNext]_queueVars => BatchesFit'
  BY BatchesStay DEF QueueInv
<1>3. QueueInv /\ QueueInv' /\ BatchesFit /\ [QueueNext]_queueVars => RunsDown
  BY StepRunsDown
<1> QED BY <1>1, <1>2, <1>3, QueueInvariant, PTL DEF QueueSpec

=============================================================================
