--------------------------- MODULE ChatTurnProofs ---------------------------
(***************************************************************************)
(* Proofs about the turns of a session, the classification beside them and   *)
(* the tool server's session behind them, for any number of turns, queries,  *)
(* tools, calls, customers and loans: what the server runs and for whom, that *)
(* a turn's loop winds down, how a transcript ends and how the console shows  *)
(* it, and what the banks hold when they are used.                           *)
(***************************************************************************)
EXTENDS ChatTurn, McpSession, TLAPS

-----------------------------------------------------------------------------
(* The classification                                                       *)

Stages == {"new", "readying", "queueing", "sentiment", "reason", "embedding", "model",
           "answerability", "waiting", "vectors", "deciding", "done"}

RouterTyped ==
    /\ stage \in [Queries -> Stages]
    /\ built \subseteq Banks /\ ready \in BOOLEAN
    /\ buildLock \in Queries \cup {Nobody} /\ cacheLock \in Queries \cup {Nobody}

(* The banks are built in order, and what is ready stays so.                 *)
RouterInv ==
    /\ RouterTyped
    /\ \A q \in Queries :
          /\ stage[q] = "reason" => "sentiment" \in built
          /\ stage[q] = "embedding" => ready
    /\ ready => built = Banks
    /\ BanksAreWhole

LEMMA RouterStepInv == RouterInv /\ [RouterNext]_routerVars => RouterInv'
<1> SUFFICES ASSUME RouterInv, [RouterNext]_routerVars PROVE RouterInv'
  OBVIOUS
<1>1. ASSUME NEW q \in Queries,
             \/ Classify(q)
             \/ EnsureReady(q) \/ EnterBuild(q) \/ BuildSentiment(q) \/ BuildReason(q) \/ EmbeddingFails(q)
             \/ Score(q) \/ AskModel(q)
             \/ LookUpVectors(q) \/ EnterCache(q) \/ EmbedTools(q) \/ ComparesWords(q) \/ Decide(q)
             \/ GiveUp(q) \/ NextQuery(q)
      PROVE  RouterInv'
  <2> USE RouterAssumption DEF RouterInv, RouterTyped, BanksAreWhole, Stages, To, worker, toolCache, Banks, Release
  <2>1. CASE Classify(q) \/ Score(q) \/ AskModel(q) \/ LookUpVectors(q) \/ Decide(q) \/ NextQuery(q)
    <3>1. /\ \E next \in Stages \ {"sentiment", "reason", "embedding", "vectors"} : To(q, next)
          /\ stage[q] \notin {"sentiment", "reason", "vectors"}
          /\ UNCHANGED <<stored, built, ready, buildLock, cacheLock>>
      BY <2>1 DEF Classify, Score, AskModel, LookUpVectors, Decide, NextQuery
    <3> QED BY <3>1
  <2>2. CASE EnsureReady(q)
    BY <2>2 DEF EnsureReady
  <2>3. CASE EnterBuild(q)
    BY <2>3 DEF EnterBuild
  <2>4. CASE BuildSentiment(q)
    BY <2>4 DEF BuildSentiment, Builds
  <2>5. CASE BuildReason(q)
    BY <2>5 DEF BuildReason, Builds
  <2>6. CASE EmbeddingFails(q)
    BY <2>6 DEF EmbeddingFails
  <2>7. CASE EnterCache(q)
    BY <2>7 DEF EnterCache
  <2>8. CASE EmbedTools(q)
    BY <2>8 DEF EmbedTools
  <2>9. CASE ComparesWords(q)
    BY <2>9 DEF ComparesWords
  <2>10. CASE GiveUp(q)
    BY <2>10 DEF GiveUp
  <2> QED BY <1>1, <2>1, <2>2, <2>3, <2>4, <2>5, <2>6, <2>7, <2>8, <2>9, <2>10
<1>2. CASE UNCHANGED routerVars
  BY <1>2 DEF routerVars, RouterInv, RouterTyped, BanksAreWhole
<1> QED BY <1>1, <1>2 DEF RouterNext

-----------------------------------------------------------------------------
(* The turns                                                                *)

Transcripts == [turns : SUBSET (Turns \cup {None}), last : Turns \cup {None}, kind : {"none", "human", "ai", "tool"},
                dangling : BOOLEAN]

TurnTyped ==
    /\ pc \in [Turns -> Points]
    /\ DOMAIN calls = Turns /\ calls = [t \in Turns |-> calls[t]]
    /\ cache \in [Turns -> SUBSET SideEffect]
    /\ ran \in [Turns -> [SideEffect -> Nat]]
    /\ thread \in Transcripts
    /\ mine \in [Turns -> Transcripts] /\ found \in [Turns -> Transcripts]
    /\ cut \subseteq Turns /\ overlapped \subseteq Turns

(* What the server has run is in the cache of a turn that goes on; what is   *)
(* being called is not, and what is called again has no side effect.        *)
OnceInv ==
    /\ SideEffectsRunOnce
    /\ \A t \in Turns :
          /\ pc[t] # "done" => \A op \in SideEffect \ cache[t] : ran[t][op] = 0
          /\ pc[t] = "calling" => Head(calls[t]) \notin cache[t]
          /\ pc[t] \in {"lock", "closing", "opening", "retry"} => Head(calls[t]) \notin SideEffect

(* While nothing overlaps there is one turn at most, it carries the latest   *)
(* checkpoint, and only its tools leave calls unanswered.                   *)
ClosedInv ==
    /\ overlapped = {} => \A t, u \in Turns : Running(t) /\ Running(u) => t = u
    /\ cut = {} /\ overlapped = {} /\ thread.dangling =>
          \E t \in Turns : pc[t] \in {"tools", "calling", "lock", "closing", "opening", "retry"}
    /\ overlapped = {} => \A t \in Turns : Running(t) => mine[t].dangling = thread.dangling

TurnsInv == TurnTyped /\ OnceInv /\ ClosedInv

(* What all the steps of a turn leave alone.                                *)
LEMMA GoesTyped ==
    ASSUME TurnTyped, NEW t \in Turns, NEW to \in Points, Goes(t, to)
    PROVE  /\ pc' \in [Turns -> Points] /\ pc'[t] = to
           /\ \A u \in Turns \ {t} : pc'[u] = pc[u]
BY DEF TurnTyped, Goes

LEMMA EndsTyped ==
    ASSUME TurnTyped, NEW t \in Turns, Ends(t)
    PROVE  /\ pc' \in [Turns -> Points] /\ pc'[t] = "done"
           /\ DOMAIN calls' = Turns /\ calls' = [u \in Turns |-> calls'[u]]
           /\ cache' \in [Turns -> SUBSET SideEffect]
           /\ mine' \in [Turns -> Transcripts] /\ found' \in [Turns -> Transcripts]
           /\ \A u \in Turns \ {t} : /\ pc'[u] = pc[u] /\ calls'[u] = calls[u] /\ cache'[u] = cache[u]
                                     /\ mine'[u] = mine[u]
<1>1. NoThread \in Transcripts
  BY DEF NoThread, Transcripts
<1> QED BY <1>1 DEF Ends, Goes, Points, TurnTyped

LEMMA AnsweredTyped ==
    ASSUME TurnTyped, NEW t \in Turns, NEW done, Answered(t, done)
    PROVE  /\ pc' \in [Turns -> Points] /\ pc'[t] = "tools"
           /\ DOMAIN calls' = Turns /\ calls' = [u \in Turns |-> calls'[u]]
           /\ cache' \in [Turns -> SUBSET SideEffect] /\ cache'[t] = cache[t] \cup (done \cap SideEffect)
           /\ \A u \in Turns \ {t} : pc'[u] = pc[u] /\ calls'[u] = calls[u] /\ cache'[u] = cache[u]
BY DEF Answered, Goes, Points, TurnTyped

LEMMA RanOnce ==
    ASSUME TurnTyped, NEW t \in Turns, Ran(t)
    PROVE  /\ ran' \in [Turns -> [SideEffect -> Nat]]
           /\ \A u \in Turns, op \in SideEffect :
                 ran'[u][op] = IF u = t /\ op = Head(calls[t]) THEN ran[u][op] + 1 ELSE ran[u][op]
BY DEF Ran, TurnTyped

LEMMA AppendedTyped ==
    ASSUME NEW m \in Transcripts, NEW t \in Turns, NEW kind \in {"none", "human", "ai", "tool"},
           NEW dangling \in BOOLEAN
    PROVE  /\ Appended(m, t, kind, dangling) \in Transcripts
           /\ Appended(m, t, kind, dangling).dangling = (m.dangling \/ dangling)
<1> DEFINE d == m.dangling \/ dangling
<1>1. d \in BOOLEAN
  OBVIOUS
<1>2. Appended(m, t, kind, dangling) = [m EXCEPT !.last = t, !.kind = kind, !.dangling = d, !.turns = @ \cup {t}]
  BY DEF Appended
<1> HIDE DEF d
<1>3. [m EXCEPT !.last = t, !.kind = kind, !.dangling = d, !.turns = @ \cup {t}] \in Transcripts
  BY <1>1 DEF Transcripts
<1>4. [m EXCEPT !.last = t, !.kind = kind, !.dangling = d, !.turns = @ \cup {t}].dangling = d
  BY <1>1 DEF Transcripts
<1> QED BY <1>2, <1>3, <1>4 DEF d

LEMMA AppendedKeeps ==
    ASSUME NEW m \in Transcripts, NEW t \in Turns, NEW kind \in {"none", "human", "ai", "tool"}
    PROVE  /\ Appended(m, t, kind, FALSE) \in Transcripts /\ Appended(m, t, kind, TRUE) \in Transcripts
           /\ Appended(m, t, kind, FALSE).dangling = m.dangling
<1>1. m.dangling \in BOOLEAN /\ Appended(m, t, kind, FALSE).dangling = (m.dangling \/ FALSE)
  <2>1. m.dangling \in BOOLEAN
    BY DEF Transcripts
  <2>2. \A d \in BOOLEAN : Appended(m, t, kind, d).dangling = (m.dangling \/ d)
    BY AppendedTyped
  <2>3. FALSE \in BOOLEAN
    OBVIOUS
  <2> QED BY <2>1, <2>2, <2>3, Zenon
<1>2. Appended(m, t, kind, FALSE) \in Transcripts /\ Appended(m, t, kind, TRUE) \in Transcripts
  BY AppendedTyped
<1>3. CASE m.dangling = TRUE
  BY <1>1, <1>2, <1>3
<1>4. CASE m.dangling = FALSE
  BY <1>1, <1>2, <1>4
<1> QED BY <1>1, <1>3, <1>4

LEMMA ToolsAnsweredTyped ==
    ASSUME NEW m \in Transcripts
    PROVE  /\ [m EXCEPT !.kind = "tool", !.dangling = FALSE] \in Transcripts
           /\ [m EXCEPT !.kind = "tool", !.dangling = FALSE].dangling = FALSE
BY DEF Transcripts

LEMMA SavesTyped ==
    ASSUME TurnTyped, NEW t \in Turns, NEW m \in Transcripts, Saves(t, m)
    PROVE  /\ thread' = m /\ thread' \in Transcripts
           /\ mine' \in [Turns -> Transcripts] /\ mine'[t] = m
           /\ \A u \in Turns \ {t} : mine'[u] = mine[u]
BY DEF Saves, TurnTyped

(* What a step does that writes a transcript and moves to a point.          *)
Wrote(t, to) ==
    /\ thread' \in Transcripts /\ mine' \in [Turns -> Transcripts] /\ mine'[t] = thread'
    /\ pc' \in [Turns -> Points] /\ pc'[t] = to
    /\ \A u \in Turns \ {t} : mine'[u] = mine[u] /\ pc'[u] = pc[u]

LEMMA SavesMoves ==
    ASSUME TurnTyped, NEW t \in Turns, NEW m \in Transcripts, NEW to \in Points, Saves(t, m), Goes(t, to)
    PROVE  Wrote(t, to) /\ thread' = m
BY SavesTyped, GoesTyped DEF Wrote

LEMMA StartMoves ==
    ASSUME TurnTyped, NEW t \in Turns, Start(t)
    PROVE  pc[t] = "new" /\ Wrote(t, "model") /\ thread'.dangling = thread.dangling
<1> DEFINE m == Appended(thread, t, "human", FALSE)
<1>1. m \in Transcripts /\ m.dangling = thread.dangling
  BY AppendedKeeps DEF TurnTyped
<1>2. pc[t] = "new" /\ Saves(t, m) /\ Goes(t, "model")
  BY DEF Start
<1> HIDE DEF m
<1> QED BY <1>1, <1>2, SavesMoves DEF Points

LEMMA AnswerMoves ==
    ASSUME TurnTyped, NEW t \in Turns, Answer(t)
    PROVE  pc[t] = "model" /\ Wrote(t, "answered") /\ thread'.dangling = mine[t].dangling
<1> DEFINE m == Appended(mine[t], t, "ai", FALSE)
<1>1. m \in Transcripts /\ m.dangling = mine[t].dangling
  BY AppendedKeeps DEF TurnTyped
<1>2. pc[t] = "model" /\ Saves(t, m) /\ Goes(t, "answered")
  BY DEF Answer
<1> HIDE DEF m
<1> QED BY <1>1, <1>2, SavesMoves DEF Points

LEMMA CallToolsMoves ==
    ASSUME TurnTyped, NEW t \in Turns, CallTools(t)
    PROVE  /\ pc[t] = "model"
           /\ \/ Wrote(t, "tools") /\ cut' = cut
              \/ Wrote(t, "answered") /\ cut' = cut \cup {t}
<1> DEFINE m == Appended(mine[t], t, "ai", TRUE)
<1>1. m \in Transcripts
  BY AppendedKeeps DEF TurnTyped
<1>2. /\ pc[t] = "model" /\ Saves(t, m)
      /\ \/ Goes(t, "tools") /\ cut' = cut
         \/ Goes(t, "answered") /\ cut' = cut \cup {t}
  BY DEF CallTools
<1> HIDE DEF m
<1> QED BY <1>1, <1>2, SavesMoves DEF Points

LEMMA ToolsDoneMoves ==
    ASSUME TurnTyped, NEW t \in Turns, ToolsDone(t)
    PROVE  pc[t] = "tools" /\ Wrote(t, "model") /\ thread'.dangling = FALSE
<1> DEFINE m == [mine[t] EXCEPT !.kind = "tool", !.dangling = FALSE]
<1>1. m \in Transcripts /\ m.dangling = FALSE
  BY ToolsAnsweredTyped DEF TurnTyped
<1>2. pc[t] = "tools" /\ Saves(t, m) /\ Goes(t, "model")
  BY DEF ToolsDone
<1> HIDE DEF m
<1> QED BY <1>1, <1>2, SavesMoves DEF Points

LEMMA StampedTyped ==
    ASSUME NEW m \in Transcripts, NEW owner \in Turns \cup {None}
    PROVE  Stamped(m, owner) \in Transcripts /\ Stamped(m, owner).dangling = m.dangling
<1> DEFINE l == IF owner \in m.turns THEN m.last ELSE owner
           k == IF owner \in m.turns THEN m.kind ELSE "ai"
<1>1. Stamped(m, owner) = [m EXCEPT !.turns = @ \cup {owner}, !.last = l, !.kind = k]
  BY DEF Stamped
<1>2. l \in Turns \cup {None} /\ k \in {"none", "human", "ai", "tool"}
  BY DEF Transcripts
<1>3. m.turns \cup {owner} \in SUBSET (Turns \cup {None})
  BY DEF Transcripts
<1> HIDE DEF l, k
<1> QED BY <1>1, <1>2, <1>3 DEF Transcripts

LEMMA TurnTypedStep ==
    ASSUME TurnTyped, NEW t \in Turns, Start(t) \/ Refuse(t) \/ Step(t) \/ Cancel(t)
    PROVE  TurnTyped'
<1> USE DEF manager, loop, history
<1>1. thread \in Transcripts /\ mine[t] \in Transcripts /\ cut \subseteq Turns /\ overlapped \subseteq Turns
      /\ found[t].last \in Turns \cup {None}
  BY DEF TurnTyped, Transcripts
<1>2. CASE Start(t)
  <2>1. overlapped' \subseteq Turns
    BY <1>1, <1>2 DEF Start
  <2>2. UNCHANGED <<calls, cache, ran, found, cut>>
    BY <1>2 DEF Start
  <2> QED BY <1>2, <2>1, <2>2, StartMoves DEF Wrote, TurnTyped
<1>3. CASE Refuse(t) \/ Invoke(t) \/ Acquire(t) \/ Close(t) \/ Open(t)
  BY <1>3, GoesTyped DEF Refuse, Invoke, Acquire, Close, Open, TurnTyped, Points
<1>4. CASE Answer(t) \/ ToolsDone(t)
  <2>1. UNCHANGED <<calls, cache, ran, found, cut, overlapped>>
    BY <1>4 DEF Answer, ToolsDone
  <2>2. \E to : Wrote(t, to)
    BY <1>4, AnswerMoves, ToolsDoneMoves
  <2> QED BY <2>1, <2>2 DEF Wrote, TurnTyped
<1>5. CASE CallTools(t)
  <2>1. DOMAIN calls' = Turns /\ calls' = [u \in Turns |-> calls'[u]] /\ UNCHANGED <<cache, found, ran, overlapped>>
    BY <1>5 DEF CallTools, TurnTyped
  <2> QED BY <1>1, <1>5, <2>1, CallToolsMoves DEF Wrote, TurnTyped
<1>6. CASE ModelFails(t) \/ Reply(t)
  BY <1>6, EndsTyped DEF ModelFails, Reply, TurnTyped
<1>7. CASE Skip(t) \/ CloseFails(t) \/ OpenFails(t)
  BY <1>7, AnsweredTyped DEF Skip, CloseFails, OpenFails, TurnTyped
<1>8. CASE Returns(t) \/ Retry(t)
  BY <1>8, AnsweredTyped, RanOnce DEF Returns, Retry, TurnTyped
<1>9. CASE Breaks(t)
  <2>1. ran' \in [Turns -> [SideEffect -> Nat]]
    BY <1>9, RanOnce DEF Breaks, TurnTyped
  <2>2. /\ pc' \in [Turns -> Points] /\ DOMAIN calls' = Turns /\ calls' = [u \in Turns |-> calls'[u]]
        /\ cache' \in [Turns -> SUBSET SideEffect]
    BY <1>9, AnsweredTyped, GoesTyped DEF Breaks, TurnTyped, Points
  <2> QED BY <1>9, <2>1, <2>2 DEF Breaks, TurnTyped
<1>10. CASE FindLast(t)
  <2>1. CASE thread.kind = "ai"
    <3>1. Goes(t, "stamp") /\ found' = [found EXCEPT ![t] = thread]
          /\ UNCHANGED <<calls, cache, mine, thread, ran, cut, overlapped>>
      BY <1>10, <2>1 DEF FindLast
    <3>2. found' \in [Turns -> Transcripts]
      BY <1>1, <3>1 DEF TurnTyped
    <3> QED BY <3>1, <3>2, GoesTyped DEF TurnTyped, Points
  <2>2. CASE thread.kind # "ai"
    BY <1>10, <2>2, EndsTyped DEF FindLast, TurnTyped
  <2> QED BY <2>1, <2>2
<1>11. CASE Stamp(t)
  BY <1>1, <1>11, StampedTyped, EndsTyped DEF Stamp, TurnTyped
<1>12. CASE Cancel(t)
  <2>1. cut' \subseteq Turns /\ UNCHANGED <<thread, ran, overlapped>> /\ (Ends(t) \/ BreaksOff(t))
    BY <1>1, <1>12 DEF Cancel
  <2>2. CASE Ends(t)
    BY <2>1, <2>2, EndsTyped DEF TurnTyped
  <2>3. CASE BreaksOff(t)
    BY <2>1, <2>3, GoesTyped DEF BreaksOff, TurnTyped, Points
  <2> QED BY <2>1, <2>2, <2>3
<1> QED BY <1>2, <1>3, <1>4, <1>5, <1>6, <1>7, <1>8, <1>9, <1>10, <1>11, <1>12 DEF Step

(* The points at which a call of the last message is under way or to come.   *)
ToolPoints == {"tools", "calling", "lock", "closing", "opening", "retry"}

LEMMA OnceStep ==
    ASSUME TurnTyped, OnceInv, NEW t \in Turns, Start(t) \/ Refuse(t) \/ Step(t) \/ Cancel(t)
    PROVE  OnceInv'
<1> USE DEF manager, loop, history, OnceInv, SideEffectsRunOnce
<1>1. \A u \in Turns, op \in SideEffect : ran[u][op] \in Nat
  BY DEF TurnTyped
<1>2. CASE Start(t) \/ Refuse(t) \/ Answer(t) \/ ToolsDone(t)
  <2>1. UNCHANGED <<calls, cache, ran>>
    BY <1>2 DEF Start, Refuse, Answer, ToolsDone
  <2>2. /\ pc[t] # "done" /\ pc'[t] \in {"model", "refused", "answered"}
        /\ \A u \in Turns \ {t} : pc'[u] = pc[u]
    BY <1>2, StartMoves, AnswerMoves, ToolsDoneMoves, GoesTyped DEF Refuse, Points, Wrote
  <2> QED BY <2>1, <2>2
<1>3. CASE Invoke(t) \/ Acquire(t) \/ Close(t) \/ Open(t)
  BY <1>3, GoesTyped DEF Invoke, Acquire, Close, Open, Points
<1>4. CASE CallTools(t)
  <2>1. /\ pc'[t] \in {"answered", "tools"} /\ pc[t] = "model"
        /\ \A u \in Turns \ {t} : pc'[u] = pc[u] /\ calls'[u] = calls[u]
        /\ ran' = ran /\ cache' = cache
    BY <1>4, GoesTyped DEF CallTools, Points, TurnTyped
  <2> QED BY <2>1
<1>5. CASE ModelFails(t) \/ Stamp(t) \/ Reply(t) \/ (Cancel(t) /\ ~BreaksOff(t))
  <2>1. ran' = ran /\ Ends(t)
    BY <1>5 DEF ModelFails, Stamp, Reply, Cancel
  <2> QED BY <2>1, EndsTyped
<1>6. CASE FindLast(t)
  <2>1. CASE thread.kind = "ai"
    BY <1>6, <2>1, GoesTyped DEF FindLast, Points
  <2>2. CASE thread.kind # "ai"
    BY <1>6, <2>2, EndsTyped DEF FindLast
  <2> QED BY <2>1, <2>2
<1>7. CASE Skip(t) \/ CloseFails(t) \/ OpenFails(t)
  <2>1. ran' = ran /\ Answered(t, {}) /\ pc[t] # "done"
    BY <1>7 DEF Skip, CloseFails, OpenFails
  <2> QED BY <2>1, AnsweredTyped
<1>8. CASE Returns(t) \/ (Breaks(t) /\ Head(calls[t]) \in SideEffect)
  <2>1. /\ pc[t] = "calling" /\ Answered(t, {Head(calls[t])})
        /\ Ran(t) \/ UNCHANGED ran
    BY <1>8 DEF Returns, Breaks
  <2>2. \A op \in SideEffect : ran'[t][op] # ran[t][op] => op = Head(calls[t]) /\ ran'[t][op] = 1
    BY <1>1, <2>1, RanOnce
  <2>3. \A u \in Turns \ {t}, op \in SideEffect : ran'[u][op] = ran[u][op]
    BY <2>1, RanOnce
  <2> QED BY <1>1, <2>1, <2>2, <2>3, AnsweredTyped
<1>9. CASE Breaks(t) /\ Head(calls[t]) \notin SideEffect
  <2>1. Goes(t, "lock") /\ UNCHANGED <<calls, cache>> /\ (Ran(t) \/ UNCHANGED ran)
    BY <1>9 DEF Breaks
  <2>2. \A u \in Turns, op \in SideEffect : ran'[u][op] = ran[u][op]
    BY <1>9, <2>1, RanOnce
  <2> QED BY <1>9, <2>1, <2>2, GoesTyped DEF Breaks, Points
<1>10. CASE Retry(t)
  <2>1. Answered(t, {}) /\ pc[t] = "retry" /\ (Ran(t) \/ UNCHANGED ran)
    BY <1>10 DEF Retry
  <2>2. \A u \in Turns, op \in SideEffect : ran'[u][op] = ran[u][op]
    BY <2>1, RanOnce
  <2> QED BY <2>1, <2>2, AnsweredTyped
<1>11. CASE Cancel(t) /\ BreaksOff(t)
  <2>1. UNCHANGED <<calls, cache, ran>> /\ Goes(t, "answered") /\ pc[t] # "done"
    BY <1>11 DEF Cancel, BreaksOff
  <2> QED BY <2>1, GoesTyped DEF Points
<1> QED BY <1>2, <1>3, <1>4, <1>5, <1>6, <1>7, <1>8, <1>9, <1>10, <1>11 DEF Step

LEMMA ClosedStep ==
    ASSUME TurnTyped, ClosedInv, NEW t \in Turns, Start(t) \/ Refuse(t) \/ Step(t) \/ Cancel(t)
    PROVE  ClosedInv'
<1> USE DEF manager, loop, history, Running
<1>1. thread \in Transcripts /\ mine[t] \in Transcripts /\ cut \subseteq Turns /\ overlapped \subseteq Turns
      /\ found[t].last \in Turns \cup {None}
  BY DEF TurnTyped, Transcripts
<1>2. CASE Start(t)
  <2>1. cut' = cut /\ overlapped' = overlapped \cup (IF {u \in Turns \ {t} : Running(u)} = {} THEN {}
                                                     ELSE {u \in Turns \ {t} : Running(u)} \cup {t})
    BY <1>2 DEF Start
  <2>2. overlapped' = {} => overlapped = {} /\ \A u \in Turns \ {t} : ~Running(u)
    BY <2>1
  <2> QED BY <1>2, <2>1, <2>2, StartMoves DEF ClosedInv, Wrote
<1>3. CASE Refuse(t) \/ Invoke(t) \/ Acquire(t) \/ Close(t) \/ Open(t)
  BY <1>3, GoesTyped DEF Refuse, Invoke, Acquire, Close, Open, Points, ClosedInv
<1>4. CASE Answer(t)
  <2>1. cut' = cut /\ overlapped' = overlapped
    BY <1>4 DEF Answer
  <2> QED BY <1>4, <2>1, AnswerMoves DEF ClosedInv, Wrote
<1>5. CASE CallTools(t)
  <2>1. overlapped' = overlapped
    BY <1>5 DEF CallTools
  <2> QED BY <1>5, <2>1, CallToolsMoves DEF ClosedInv, Wrote
<1>6. CASE ModelFails(t) \/ Reply(t)
  <2>1. Ends(t) /\ thread' = thread /\ cut' = cut /\ overlapped' = overlapped /\ pc[t] \in {"model", "answered"}
    BY <1>6 DEF ModelFails, Reply
  <2> QED BY <2>1, EndsTyped DEF ClosedInv
<1>7. CASE Skip(t) \/ CloseFails(t) \/ OpenFails(t) \/ Returns(t) \/ Retry(t)
  <2>1. /\ \E done : Answered(t, done)
        /\ thread' = thread /\ mine' = mine /\ cut' = cut /\ overlapped' = overlapped
        /\ pc[t] \in {"tools", "closing", "opening", "calling", "retry"}
    BY <1>7 DEF Skip, CloseFails, OpenFails, Returns, Retry
  <2> QED BY <2>1, AnsweredTyped DEF ClosedInv
<1>8. CASE Breaks(t)
  <2>1. /\ pc'[t] \in {"tools", "lock"} /\ \A u \in Turns \ {t} : pc'[u] = pc[u]
        /\ thread' = thread /\ mine' = mine /\ cut' = cut /\ overlapped' = overlapped /\ pc[t] = "calling"
    BY <1>8, AnsweredTyped, GoesTyped DEF Breaks, Points
  <2> QED BY <2>1 DEF ClosedInv
<1>9. CASE ToolsDone(t)
  <2>1. cut' = cut /\ overlapped' = overlapped
    BY <1>9 DEF ToolsDone
  <2> QED BY <1>9, <2>1, ToolsDoneMoves DEF ClosedInv, Wrote
<1>10. CASE FindLast(t)
  <2>1. CASE thread.kind = "ai"
    BY <1>10, <2>1, GoesTyped DEF FindLast, Points, ClosedInv
  <2>2. CASE thread.kind # "ai"
    BY <1>10, <2>2, EndsTyped DEF FindLast, ClosedInv
  <2> QED BY <2>1, <2>2
<1>11. CASE Stamp(t)
  <2>1. thread'.dangling = thread.dangling /\ Ends(t) /\ cut' = cut /\ overlapped' = overlapped /\ pc[t] = "stamp"
    BY <1>1, <1>11, StampedTyped DEF Stamp
  <2> QED BY <2>1, EndsTyped DEF ClosedInv
<1>12. CASE Cancel(t)
  <2>1. /\ Ends(t) \/ (BreaksOff(t) /\ Running(t))
        /\ thread' = thread /\ t \in cut' /\ overlapped' = overlapped
    BY <1>12 DEF Cancel
  <2>2. CASE Ends(t)
    BY <2>1, <2>2, EndsTyped DEF ClosedInv
  <2>3. CASE BreaksOff(t) /\ Running(t)
    <3>1. mine' = mine /\ \A u \in Turns : Running(u)' <=> Running(u)
      BY <2>3, GoesTyped DEF BreaksOff, Points
    <3> QED BY <2>1, <3>1 DEF ClosedInv
  <2> QED BY <2>1, <2>2, <2>3
<1> QED BY <1>2, <1>3, <1>4, <1>5, <1>6, <1>7, <1>8, <1>9, <1>10, <1>11, <1>12 DEF Step

LEMMA TurnsStepInv == TurnsInv /\ [Next]_vars => TurnsInv'
<1>1. ASSUME TurnsInv, Next PROVE TurnsInv'
  BY <1>1, TurnTypedStep, OnceStep, ClosedStep DEF TurnsInv, Next
<1>2. ASSUME TurnsInv, UNCHANGED vars PROVE TurnsInv'
  BY <1>2 DEF vars, manager, loop, history, TurnsInv, TurnTyped, OnceInv, SideEffectsRunOnce, ClosedInv, Running
<1> QED BY <1>1, <1>2

-----------------------------------------------------------------------------
(* The loop of a turn and its reconnects                                    *)

(* A turn's loop runs at most MaxIterations times, each time with at most     *)
(* MaxCalls calls, and who holds call_lock is the one that reconnects.       *)
Invoked == {"calling", "lock", "closing", "opening", "retry"}
Reconnecting == {"closing", "opening", "retry"}

TurnLoop(t) ==
    /\ calls[t] \in Seq(Tools \cup {Ghost}) /\ Len(calls[t]) <= MaxCalls
    /\ iteration[t] \in 0..MaxIterations
    /\ pc[t] \in Invoked \cup {"tools"} => iteration[t] < MaxIterations
    /\ pc[t] \in Invoked => calls[t] # <<>>

LocksAreHeld ==
    /\ lock \in Turns \cup {None}
    /\ \A t \in Turns : pc[t] \in Reconnecting <=> lock = t

LoopInv ==
    /\ loaded \in {"none", "open", "closed"} /\ bound \in [Turns -> BOOLEAN]
    /\ DOMAIN iteration = Turns
    /\ LocksAreHeld
    /\ \A t \in Turns : TurnLoop(t)

(* What is left of a turn: the rounds of its loop, the calls of this round    *)
(* and the steps of a call, or the steps after its answer.                   *)
Round == 6 * MaxCalls + 2
StepsOfCall == [calling |-> 1, lock |-> 2, closing |-> 3, opening |-> 4, retry |-> 5]

LeftAt(p, i, n) ==
    IF p = "model" THEN Round * (MaxIterations - i) + 3
    ELSE IF p = "tools" THEN Round * (MaxIterations - 1 - i) + 4 + 6 * n
    ELSE IF p \in Invoked THEN Round * (MaxIterations - 1 - i) + 4 + 6 * n - StepsOfCall[p]
    ELSE IF p = "answered" THEN 2
    ELSE IF p = "stamp" THEN 1
    ELSE 0

Left(t) == LeftAt(pc[t], iteration[t], Len(calls[t]))

(* No step of a turn leads back: each leaves fewer to take, and no step of    *)
(* another turn or of a client gives it more.                               *)
WindsDown ==
    \A t \in Turns :
        /\ Left(t) \in Nat
        /\ Running(t) => Left(t)' <= Left(t)
        /\ Step(t) => Left(t)' < Left(t)

(* What a step of turn t does to the loop: all turns but t keep theirs.      *)
Passes(t, from, to) ==
    /\ pc[t] \in from /\ pc'[t] \in to
    /\ calls'[t] = calls[t] /\ iteration'[t] = iteration[t]

CallsBegin(t) ==
    /\ pc[t] = "model" /\ pc'[t] = "tools"
    /\ iteration[t] < MaxIterations /\ iteration'[t] = iteration[t]
    /\ calls'[t] \in Seq(Tools \cup {Ghost}) /\ Len(calls'[t]) <= MaxCalls

CallAnswered(t) ==
    /\ pc[t] \in {"tools", "calling", "closing", "opening", "retry"} /\ pc'[t] = "tools"
    /\ calls[t] # <<>> /\ calls'[t] = Tail(calls[t]) /\ iteration'[t] = iteration[t]

RoundEnds(t) ==
    /\ pc[t] = "tools" /\ pc'[t] = "model"
    /\ calls'[t] = calls[t] /\ iteration'[t] = iteration[t] + 1

LoopEnds(t) ==
    /\ Running(t) /\ pc'[t] = "done"
    /\ calls'[t] = <<>> /\ iteration'[t] = 0

LoopSteps(t) ==
    \/ Passes(t, {"model"}, {"answered"}) \/ Passes(t, {"answered"}, {"stamp"})
    \/ Passes(t, {"tools"}, {"calling"}) /\ calls[t] # <<>>
    \/ Passes(t, {"calling"}, {"lock"}) \/ Passes(t, {"lock"}, {"closing"})
    \/ Passes(t, {"closing"}, {"opening"}) \/ Passes(t, {"opening"}, {"retry"})
    \/ Passes(t, Invoked \cup {"tools"}, {"answered"})
    \/ CallsBegin(t) \/ CallAnswered(t) \/ RoundEnds(t) \/ LoopEnds(t)

OthersWait(t) ==
    \A u \in Turns \ {t} : pc'[u] = pc[u] /\ calls'[u] = calls[u] /\ iteration'[u] = iteration[u]

LEMMA StepLoops ==
    ASSUME TurnTyped, LoopInv, NEW t \in Turns, Step(t)
    PROVE  LoopSteps(t) /\ OthersWait(t) /\ DOMAIN iteration' = Turns
<1> USE DEF manager, loop, history, LoopInv, OthersWait
<1>0. calls[t] \in Seq(Tools \cup {Ghost}) /\ (pc[t] \in Invoked => calls[t] # <<>>)
  BY DEF TurnLoop
<1>1. CASE Answer(t)
  BY <1>1, AnswerMoves DEF Answer, Wrote, LoopSteps, Passes
<1>2. CASE CallTools(t)
  <2>1. iteration' = iteration /\ pc[t] = "model" /\ \A u \in Turns \ {t} : pc'[u] = pc[u]
    BY <1>2, CallToolsMoves DEF CallTools, Wrote
  <2>2. CASE iteration[t] >= MaxIterations
    BY <1>2, <2>1, <2>2, CallToolsMoves, GoesTyped DEF CallTools, LoopSteps, Passes, Points
  <2>3. CASE ~(iteration[t] >= MaxIterations)
    <3>1. PICK n \in 1..MaxCalls : \E s \in [1..n -> Tools \cup {Ghost}] : calls' = [calls EXCEPT ![t] = s]
      BY <1>2, <2>3 DEF CallTools
    <3>2. PICK s \in [1..n -> Tools \cup {Ghost}] : calls' = [calls EXCEPT ![t] = s]
      BY <3>1
    <3>3. n \in Nat /\ n <= MaxCalls
      BY ToolsAssumption
    <3>4. s \in Seq(Tools \cup {Ghost}) /\ Len(s) = n
      BY <3>3
    <3>5. calls'[t] = s /\ \A u \in Turns \ {t} : calls'[u] = calls[u]
      BY <3>2 DEF TurnTyped
    <3>6. iteration[t] < MaxIterations
      BY <2>3, ToolsAssumption DEF TurnLoop
    <3>7. pc'[t] = "tools"
      BY <1>2, <2>3, GoesTyped DEF CallTools, Points
    <3> QED BY <2>1, <3>3, <3>4, <3>5, <3>6, <3>7 DEF LoopSteps, CallsBegin
  <2> QED BY <2>2, <2>3
<1>3. CASE ModelFails(t) \/ Reply(t) \/ Stamp(t) \/ (FindLast(t) /\ thread.kind # "ai")
  <2>1. Ends(t) /\ Running(t)
    BY <1>3 DEF ModelFails, Reply, Stamp, FindLast, Running
  <2>2. /\ calls'[t] = <<>> /\ iteration'[t] = 0 /\ DOMAIN iteration' = Turns
        /\ \A u \in Turns \ {t} : iteration'[u] = iteration[u]
    BY <2>1 DEF Ends, TurnTyped
  <2> QED BY <2>1, <2>2, EndsTyped DEF LoopSteps, LoopEnds
<1>4. CASE FindLast(t) /\ thread.kind = "ai"
  BY <1>4, GoesTyped DEF FindLast, LoopSteps, Passes, Points
<1>5. CASE Invoke(t) \/ Acquire(t) \/ Close(t) \/ Open(t)
  BY <1>5, GoesTyped DEF Invoke, Acquire, Close, Open, LoopSteps, Passes, Points
<1>6. ASSUME NEW done, Answered(t, done), iteration' = iteration, calls[t] # <<>>,
             pc[t] \in {"tools", "calling", "closing", "opening", "retry"}
      PROVE  CallAnswered(t) /\ OthersWait(t)
  <2>1. calls'[t] = Tail(calls[t])
    BY <1>6 DEF Answered, TurnTyped
  <2> QED BY <1>6, <2>1, AnsweredTyped DEF CallAnswered
<1>7. CASE \/ Skip(t) \/ Returns(t) \/ CloseFails(t) \/ OpenFails(t) \/ Retry(t)
           \/ Breaks(t) /\ Head(calls[t]) \in SideEffect
  <2>1. \E done : Answered(t, done)
    BY <1>7 DEF Skip, Returns, CloseFails, OpenFails, Retry, Breaks
  <2>2. iteration' = iteration /\ calls[t] # <<>> /\ pc[t] \in {"tools", "calling", "closing", "opening", "retry"}
    BY <1>0, <1>7 DEF Skip, Returns, CloseFails, OpenFails, Retry, Breaks, Invoked
  <2> QED BY <1>6, <2>1, <2>2 DEF LoopSteps
<1>8. CASE Breaks(t) /\ Head(calls[t]) \notin SideEffect
  BY <1>8, GoesTyped DEF Breaks, LoopSteps, Passes, Points
<1>9. CASE ToolsDone(t)
  <2>1. iteration'[t] = iteration[t] + 1 /\ DOMAIN iteration' = Turns /\ calls' = calls
        /\ \A u \in Turns \ {t} : iteration'[u] = iteration[u]
    BY <1>9 DEF ToolsDone
  <2> QED BY <1>9, <2>1, ToolsDoneMoves DEF ToolsDone, Wrote, LoopSteps, RoundEnds
<1> QED BY <1>1, <1>2, <1>3, <1>4, <1>5, <1>7, <1>8, <1>9 DEF Step

LEMMA CancelLoops ==
    ASSUME TurnTyped, LoopInv, NEW t \in Turns, Cancel(t)
    PROVE  LoopSteps(t) /\ OthersWait(t) /\ DOMAIN iteration' = Turns
<1>1. Running(t) /\ (Ends(t) \/ BreaksOff(t))
  BY DEF Cancel
<1>2. CASE Ends(t)
  <2>1. /\ calls'[t] = <<>> /\ iteration'[t] = 0 /\ DOMAIN iteration' = Turns
        /\ \A u \in Turns \ {t} : iteration'[u] = iteration[u]
    BY <1>2 DEF Ends, TurnTyped, LoopInv
  <2> QED BY <1>1, <1>2, <2>1, EndsTyped DEF LoopSteps, LoopEnds, OthersWait
<1>3. CASE BreaksOff(t)
  <2>1. /\ pc[t] \in {"model", "tools"} \cup Invoked /\ pc'[t] = "answered"
        /\ UNCHANGED <<calls, iteration>> /\ \A u \in Turns \ {t} : pc'[u] = pc[u]
    BY <1>3, GoesTyped DEF BreaksOff, Invoked, Points, loop
  <2> QED BY <2>1 DEF LoopSteps, Passes, OthersWait, LoopInv
<1> QED BY <1>1, <1>2, <1>3

(* What the step leaves of the turn, and of the others.                     *)
LEMMA LoopKept ==
    ASSUME LoopInv, NEW t \in Turns, LoopSteps(t), OthersWait(t)
    PROVE  \A u \in Turns : TurnLoop(u)'
<1>1. ASSUME NEW u \in Turns, u # t PROVE TurnLoop(u)'
  BY <1>1 DEF OthersWait, LoopInv, TurnLoop
<1> SUFFICES TurnLoop(t)'
  BY <1>1
<1>2. calls[t] \in Seq(Tools \cup {Ghost}) /\ Len(calls[t]) <= MaxCalls /\ iteration[t] \in 0..MaxIterations
      /\ (pc[t] \in Invoked \cup {"tools"} => iteration[t] < MaxIterations)
      /\ (pc[t] \in Invoked => calls[t] # <<>>)
  BY DEF LoopInv, TurnLoop
<1>3. CASE CallsBegin(t)
  BY <1>2, <1>3 DEF CallsBegin, TurnLoop, Invoked
<1>4. CASE CallAnswered(t)
  <2>1. Tail(calls[t]) \in Seq(Tools \cup {Ghost}) /\ Len(Tail(calls[t])) = Len(calls[t]) - 1
    BY <1>2, <1>4 DEF CallAnswered
  <2>2. Len(Tail(calls[t])) <= MaxCalls
    BY <1>2, <2>1, ToolsAssumption
  <2>3. iteration[t] < MaxIterations
    BY <1>2, <1>4 DEF CallAnswered, Invoked
  <2> QED BY <1>2, <1>4, <2>1, <2>2, <2>3 DEF CallAnswered, TurnLoop, Invoked
<1>5. CASE RoundEnds(t)
  <2>1. iteration[t] + 1 \in 0..MaxIterations
    BY <1>2, <1>5, ToolsAssumption DEF RoundEnds
  <2> QED BY <1>2, <1>5, <2>1 DEF RoundEnds, TurnLoop, Invoked
<1>6. CASE LoopEnds(t)
  <2>1. <<>> \in Seq(Tools \cup {Ghost}) /\ Len(<<>>) = 0 /\ 0 <= MaxCalls /\ 0 \in 0..MaxIterations
    BY ToolsAssumption
  <2> QED BY <1>6, <2>1 DEF LoopEnds, TurnLoop, Invoked
<1>7. CASE ~(CallsBegin(t) \/ CallAnswered(t) \/ RoundEnds(t) \/ LoopEnds(t))
  <2>1. calls'[t] = calls[t] /\ iteration'[t] = iteration[t]
    BY <1>7 DEF LoopSteps, Passes
  <2>2. /\ pc'[t] \in Invoked => calls[t] # <<>>
        /\ pc'[t] \in Invoked \cup {"tools"} => pc[t] \in Invoked \cup {"tools"}
    BY <1>2, <1>7 DEF LoopSteps, Passes, Invoked
  <2> QED BY <1>2, <2>1, <2>2 DEF TurnLoop
<1> QED BY <1>1, <1>3, <1>4, <1>5, <1>6, <1>7

LEMMA LockKept ==
    ASSUME TurnTyped, LoopInv, NEW t \in Turns, Start(t) \/ Refuse(t) \/ Step(t) \/ Cancel(t)
    PROVE  LocksAreHeld'
<1> USE DEF manager, LoopInv, LocksAreHeld, Reconnecting
<1>0. None \notin Turns
  BY ToolsAssumption
<1>1. \A u \in Turns \ {t} : pc'[u] = pc[u]
  BY StepLoops, CancelLoops, StartMoves, GoesTyped DEF OthersWait, Wrote, Refuse, Points
<1>2. CASE Start(t) \/ Refuse(t) \/ Answer(t) \/ CallTools(t) \/ ToolsDone(t)
  <2>1. lock' = lock
    BY <1>2 DEF Start, Refuse, Answer, CallTools, ToolsDone
  <2>2. pc[t] \notin Reconnecting /\ pc'[t] \notin Reconnecting
    <3>1. CASE Start(t) \/ Refuse(t)
      BY <3>1, StartMoves, GoesTyped DEF Start, Refuse, Wrote, Points
    <3>2. CASE Answer(t)
      BY <3>2, AnswerMoves, GoesTyped DEF Answer, Wrote, Points
    <3>3. CASE CallTools(t)
      BY <3>3, CallToolsMoves, GoesTyped DEF CallTools, Wrote, Points
    <3>4. CASE ToolsDone(t)
      BY <3>4, ToolsDoneMoves, GoesTyped DEF ToolsDone, Wrote, Points
    <3> QED BY <1>2, <3>1, <3>2, <3>3, <3>4
  <2> QED BY <1>1, <2>1, <2>2
<1>3. CASE ModelFails(t) \/ Reply(t) \/ Stamp(t) \/ FindLast(t)
  <2>1. pc'[t] \in {"done", "stamp"}
    BY <1>3, EndsTyped, GoesTyped DEF ModelFails, Reply, Stamp, FindLast, Points
  <2>2. lock' = lock /\ pc[t] \notin Reconnecting
    BY <1>3 DEF ModelFails, Reply, Stamp, FindLast
  <2> QED BY <1>1, <2>1, <2>2
<1>4. CASE Skip(t) \/ Invoke(t) \/ Returns(t) \/ Breaks(t)
  <2>1. pc'[t] \in {"tools", "calling", "lock"}
    BY <1>4, AnsweredTyped, GoesTyped DEF Skip, Invoke, Returns, Breaks, Points
  <2>2. lock' = lock /\ pc[t] \notin Reconnecting
    BY <1>4 DEF Skip, Invoke, Returns, Breaks
  <2> QED BY <1>1, <2>1, <2>2
<1>5. CASE Acquire(t)
  <2>1. pc'[t] = "closing" /\ lock = None /\ lock' = t
    BY <1>5, GoesTyped DEF Acquire, Points
  <2> QED BY <1>0, <1>1, <2>1
<1>6. CASE Close(t) \/ Open(t)
  <2>1. pc[t] \in Reconnecting /\ pc'[t] \in Reconnecting /\ lock' = lock
    BY <1>6, GoesTyped DEF Close, Open, Points
  <2> QED BY <1>1, <2>1
<1>7. CASE CloseFails(t) \/ OpenFails(t) \/ Retry(t)
  <2>1. pc[t] \in Reconnecting /\ pc'[t] = "tools" /\ lock' = None
    BY <1>7, AnsweredTyped DEF CloseFails, OpenFails, Retry
  <2> QED BY <1>0, <1>1, <2>1
<1>8. CASE Cancel(t)
  <2>1. pc'[t] \in {"done", "answered"} /\ lock' = IF lock = t THEN None ELSE lock
    BY <1>8, EndsTyped, GoesTyped DEF Cancel, BreaksOff, Points
  <2> QED BY <1>0, <1>1, <2>1
<1> QED BY <1>2, <1>3, <1>4, <1>5, <1>6, <1>7, <1>8 DEF Step

LEMMA LoopStep ==
    ASSUME TurnTyped, LoopInv, NEW t \in Turns, Start(t) \/ Refuse(t) \/ Step(t) \/ Cancel(t)
    PROVE  LoopInv'
<1>1. loaded' \in {"none", "open", "closed"} /\ bound' \in [Turns -> BOOLEAN]
  <2> USE DEF manager, LoopInv
  <2>1. CASE Start(t) \/ Refuse(t) \/ Cancel(t)
    <3>1. (loaded = "open") \in BOOLEAN
      OBVIOUS
    <3> QED BY <2>1, <3>1 DEF Start, Refuse, Cancel, SessionEnds
  <2>2. CASE Close(t) \/ CloseFails(t) \/ Open(t)
    BY <2>2 DEF Close, CloseFails, SessionEnds, Open
  <2>3. CASE Step(t) /\ ~Close(t) /\ ~CloseFails(t) /\ ~Open(t)
    <3>1. UNCHANGED <<loaded, bound>>
      BY <2>3 DEF Step, Answer, CallTools, ModelFails, Skip, Invoke, Returns, Breaks, ToolsDone,
                  Acquire, OpenFails, Retry, FindLast, Stamp, Reply
    <3> QED BY <3>1
  <2> QED BY <2>1, <2>2, <2>3
<1>2. DOMAIN iteration' = Turns /\ \A u \in Turns : TurnLoop(u)'
  <2>1. CASE Step(t)
    BY <2>1, StepLoops, LoopKept
  <2>2. CASE Start(t) \/ Refuse(t)
    <3>1. UNCHANGED <<calls, iteration>>
      BY <2>2 DEF Start, Refuse, loop
    <3>2. pc'[t] \in {"model", "refused"} /\ \A u \in Turns \ {t} : pc'[u] = pc[u]
      BY <2>2, StartMoves, GoesTyped DEF Refuse, Points, Wrote
    <3> QED BY <3>1, <3>2 DEF LoopInv, TurnLoop, Invoked
  <2>3. CASE Cancel(t)
    BY <2>3, CancelLoops, LoopKept
  <2> QED BY <2>1, <2>2, <2>3
<1> QED BY <1>1, <1>2, LockKept DEF LoopInv

(* A round of the loop is worth more than its calls.                         *)
LEMMA Rounds ==
    ASSUME NEW i \in 0..MaxIterations
    PROVE  /\ Round \in Nat /\ Round = 6 * MaxCalls + 2
           /\ Round * (MaxIterations - i) \in Nat
           /\ i < MaxIterations =>
                 /\ Round * (MaxIterations - 1 - i) \in Nat
                 /\ Round * (MaxIterations - i) = Round * (MaxIterations - 1 - i) + Round
           /\ Round * (MaxIterations - 1 - i) = Round * (MaxIterations - (i + 1))
<1>1. Round \in Nat /\ Round = 6 * MaxCalls + 2
  BY ToolsAssumption DEF Round
<1>2. \A n, k \in Nat : n * k \in Nat /\ n * (k + 1) = n * k + n
  OBVIOUS
<1>3. MaxIterations - i \in Nat /\ MaxIterations - 1 - i = MaxIterations - (i + 1)
  BY ToolsAssumption
<1> HIDE DEF Round
<1>4. Round * (MaxIterations - i) \in Nat
  BY <1>1, <1>2, <1>3
<1>5. ASSUME i < MaxIterations
      PROVE  /\ Round * (MaxIterations - 1 - i) \in Nat
             /\ Round * (MaxIterations - i) = Round * (MaxIterations - 1 - i) + Round
  <2>1. MaxIterations - 1 - i \in Nat /\ MaxIterations - i = (MaxIterations - 1 - i) + 1
    BY <1>5, ToolsAssumption
  <2> QED BY <1>1, <1>2, <2>1
<1> QED BY <1>1, <1>3, <1>4, <1>5

LEMMA LeftAtPoint ==
    ASSUME NEW i, NEW n
    PROVE  /\ LeftAt("model", i, n) = Round * (MaxIterations - i) + 3
           /\ LeftAt("tools", i, n) = Round * (MaxIterations - 1 - i) + 4 + 6 * n
           /\ LeftAt("calling", i, n) = Round * (MaxIterations - 1 - i) + 4 + 6 * n - 1
           /\ LeftAt("lock", i, n) = Round * (MaxIterations - 1 - i) + 4 + 6 * n - 2
           /\ LeftAt("closing", i, n) = Round * (MaxIterations - 1 - i) + 4 + 6 * n - 3
           /\ LeftAt("opening", i, n) = Round * (MaxIterations - 1 - i) + 4 + 6 * n - 4
           /\ LeftAt("retry", i, n) = Round * (MaxIterations - 1 - i) + 4 + 6 * n - 5
           /\ LeftAt("answered", i, n) = 2 /\ LeftAt("stamp", i, n) = 1
           /\ \A p \in {"new", "done", "refused"} : LeftAt(p, i, n) = 0
BY DEF LeftAt, StepsOfCall, Invoked

(* Within a round, k is what the rounds after it take.                      *)
RoundFrom(i, n, k) ==
    /\ LeftAt("model", i, n) = k + 6 * MaxCalls + 5 /\ LeftAt("model", i + 1, n) = k + 3
    /\ LeftAt("tools", i, n) = k + 4 + 6 * n /\ LeftAt("calling", i, n) = k + 3 + 6 * n
    /\ LeftAt("lock", i, n) = k + 2 + 6 * n /\ LeftAt("closing", i, n) = k + 1 + 6 * n
    /\ LeftAt("opening", i, n) = k + 6 * n /\ LeftAt("retry", i, n) = k + 6 * n - 1

LEMMA LeftInRound ==
    ASSUME NEW i \in 0..MaxIterations, i < MaxIterations
    PROVE  \E k \in Nat : \A n \in Nat : RoundFrom(i, n, k)
<1>1. PICK k \in Nat : k = Round * (MaxIterations - 1 - i)
  BY Rounds
<1>2. /\ Round * (MaxIterations - i) = k + 6 * MaxCalls + 2
      /\ Round * (MaxIterations - (i + 1)) = k
  <2>1. Round * (MaxIterations - i) = k + Round /\ Round = 6 * MaxCalls + 2 /\ MaxCalls \in Nat
    BY <1>1, Rounds, ToolsAssumption
  <2>2. Round * (MaxIterations - (i + 1)) = k
    BY <1>1, Rounds
  <2> HIDE DEF Round
  <2> QED BY <2>1, <2>2
<1>3. ASSUME NEW n \in Nat PROVE RoundFrom(i, n, k)
  <2>1. LeftAt("model", i, n) = k + 6 * MaxCalls + 5 /\ LeftAt("model", i + 1, n) = k + 3
    <3>1. LeftAt("model", i, n) = Round * (MaxIterations - i) + 3
      BY LeftAtPoint
    <3>2. LeftAt("model", i + 1, n) = Round * (MaxIterations - (i + 1)) + 3
      BY LeftAtPoint
    <3>3. k + 6 * MaxCalls + 2 + 3 = k + 6 * MaxCalls + 5
      BY ToolsAssumption
    <3> QED BY <1>2, <3>1, <3>2, <3>3, Zenon
  <2>2. /\ LeftAt("tools", i, n) = k + 4 + 6 * n /\ LeftAt("calling", i, n) = k + 4 + 6 * n - 1
        /\ LeftAt("lock", i, n) = k + 4 + 6 * n - 2 /\ LeftAt("closing", i, n) = k + 4 + 6 * n - 3
        /\ LeftAt("opening", i, n) = k + 4 + 6 * n - 4 /\ LeftAt("retry", i, n) = k + 4 + 6 * n - 5
    BY <1>1, LeftAtPoint, ZenonT(40)
  <2> QED BY <2>1, <2>2 DEF RoundFrom
<1> QED BY <1>3

(* A turn that is under way has something left, and the others nothing.      *)
LEMMA SomeAtPoint ==
    ASSUME NEW p \in Points, NEW i \in 0..MaxIterations, NEW n \in Nat,
           p \in Invoked \cup {"tools"} => i < MaxIterations,
           p \in Invoked => n >= 1
    PROVE  LeftAt(p, i, n) \in Nat /\ (p \notin {"new", "refused", "done"} => LeftAt(p, i, n) >= 1)
<1>1. CASE p = "model"
  BY <1>1, LeftAtPoint, Rounds
<1>2. CASE p \in Invoked \cup {"tools"}
  <2>1. PICK k \in Nat : RoundFrom(i, n, k)
    BY <1>2, LeftInRound
  <2>2. CASE p = "tools"
    BY <2>1, <2>2 DEF RoundFrom
  <2>3. CASE p \in Invoked
    <3>1. PICK l \in Nat : l = k + 6 * n /\ l >= 6
      BY <2>3
    <3>2. LeftAt(p, i, n) \in {l - 1, l, l + 1, l + 2, l + 3}
      BY <2>1, <2>3, <3>1 DEF RoundFrom, Invoked
    <3> QED BY <3>1, <3>2
  <2> QED BY <1>2, <2>2, <2>3
<1>3. CASE p \in {"answered", "stamp", "new", "done", "refused"}
  BY <1>3, LeftAtPoint
<1> QED BY <1>1, <1>2, <1>3 DEF Points, Invoked

LEMMA SomeIsLeft ==
    ASSUME TurnTyped, LoopInv, NEW t \in Turns
    PROVE  Left(t) \in Nat /\ (Running(t) => Left(t) >= 1)
<1>1. /\ iteration[t] \in 0..MaxIterations /\ Len(calls[t]) \in Nat
      /\ pc[t] \in Invoked \cup {"tools"} => iteration[t] < MaxIterations
      /\ pc[t] \in Invoked => Len(calls[t]) >= 1
  BY DEF LoopInv, TurnLoop
<1>2. pc[t] \in Points
  BY DEF TurnTyped
<1> QED BY <1>1, <1>2, SomeAtPoint DEF Left, Running

LEMMA SomeIsLeftNext ==
    ASSUME TurnTyped', LoopInv', NEW t \in Turns
    PROVE  Left(t)' \in Nat
<1>1. /\ iteration'[t] \in 0..MaxIterations /\ Len(calls'[t]) \in Nat
      /\ pc'[t] \in Invoked \cup {"tools"} => iteration'[t] < MaxIterations
      /\ pc'[t] \in Invoked => Len(calls'[t]) >= 1
  BY DEF LoopInv, TurnLoop
<1>2. pc'[t] \in Points
  BY DEF TurnTyped
<1> QED BY <1>1, <1>2, SomeAtPoint DEF Left

(* What is left falls with each step, and with a turn that is cut.           *)
LEMMA LeavesFewer ==
    ASSUME TurnTyped, LoopInv, NEW t \in Turns, LoopSteps(t)
    PROVE  Left(t)' < Left(t)
<1> DEFINE i == iteration[t]
           n == Len(calls[t])
<1>1. /\ i \in 0..MaxIterations /\ n \in Nat /\ n <= MaxCalls
      /\ pc[t] \in Invoked \cup {"tools"} => i < MaxIterations
      /\ pc[t] \in Invoked => n >= 1
      /\ calls[t] \in Seq(Tools \cup {Ghost})
  BY DEF LoopInv, TurnLoop
<1>2. /\ Left(t) = LeftAt(pc[t], i, n)
      /\ Left(t)' = LeftAt(pc'[t], iteration'[t], Len(calls'[t]))
  BY DEF Left
<1>3. MaxCalls \in Nat /\ MaxIterations \in Nat
  BY ToolsAssumption
<1> HIDE DEF i, n
<1>4. CASE pc[t] = "model"
  <2>1. Round * (MaxIterations - i) \in Nat /\ Left(t) = Round * (MaxIterations - i) + 3
    BY <1>1, <1>2, <1>4, LeftAtPoint, Rounds
  <2>2. CASE CallsBegin(t)
    <3>1. pc'[t] = "tools" /\ iteration'[t] = i /\ i < MaxIterations /\ Len(calls'[t]) \in Nat
          /\ Len(calls'[t]) <= MaxCalls
      BY <2>2 DEF CallsBegin, i
    <3>2. PICK k \in Nat : \A m \in Nat : RoundFrom(i, m, k)
      BY <1>1, <3>1, LeftInRound
    <3>3. PICK m \in Nat : m = Len(calls'[t]) /\ m <= MaxCalls
      BY <3>1
    <3>4. Left(t) = k + 6 * MaxCalls + 5
      BY <1>1, <1>2, <1>4, <3>2 DEF RoundFrom
    <3>5. Left(t)' = k + 4 + 6 * m
      BY <1>2, <3>1, <3>2, <3>3 DEF RoundFrom
    <3>6. k + 4 + 6 * m < k + 6 * MaxCalls + 5
      <4>1. \A a, b, c \in Nat : a <= b => c + 4 + 6 * a < c + 6 * b + 5
        OBVIOUS
      <4> QED BY <1>3, <3>3, <4>1
    <3> QED BY <3>4, <3>5, <3>6
  <2>3. CASE ~CallsBegin(t)
    <3>1. pc'[t] \in {"answered", "done"}
      BY <1>4, <2>3 DEF LoopSteps, Passes, CallAnswered, RoundEnds, LoopEnds
    <3>2. Left(t)' \in {0, 2}
      BY <1>2, <3>1, LeftAtPoint
    <3> QED BY <2>1, <3>2
  <2> QED BY <2>2, <2>3
<1>5. CASE pc[t] \in Invoked \cup {"tools"}
  <2>1. i < MaxIterations
    BY <1>1, <1>5
  <2>2. PICK k \in Nat : \A m \in Nat : RoundFrom(i, m, k)
    BY <1>1, <2>1, LeftInRound
  <2>3. RoundFrom(i, n, k) /\ Left(t) = LeftAt(pc[t], i, n)
    BY <1>1, <1>2, <2>2
  <2>4. CASE CallAnswered(t)
    <3>1. pc'[t] = "tools" /\ iteration'[t] = i /\ n >= 1
      BY <1>1, <2>4 DEF CallAnswered, i, n
    <3>2. Len(calls'[t]) = n - 1 /\ n - 1 \in Nat
      BY <1>1, <2>4, <3>1 DEF CallAnswered, n
    <3>3. RoundFrom(i, n - 1, k) /\ Left(t)' = LeftAt("tools", i, n - 1)
      BY <1>2, <2>2, <3>1, <3>2
    <3>4. Left(t)' = k + 6 * n - 2
      BY <1>1, <3>3 DEF RoundFrom
    <3>5. Left(t) \in {k + 4 + 6 * n, k + 3 + 6 * n, k + 1 + 6 * n, k + 6 * n, k + 6 * n - 1}
      <4>1. LeftAt("retry", i, n) = k + 6 * n - 1
        BY <1>1, <2>3 DEF RoundFrom
      <4> QED BY <2>3, <2>4, <4>1 DEF RoundFrom, CallAnswered
    <3> QED BY <1>1, <3>4, <3>5
  <2>5. CASE RoundEnds(t)
    <3>1. pc[t] = "tools" /\ pc'[t] = "model" /\ iteration'[t] = i + 1 /\ Len(calls'[t]) = n
      BY <2>5 DEF RoundEnds, i, n
    <3>2. Left(t)' = k + 3 /\ Left(t) = k + 4 + 6 * n
      BY <1>2, <2>3, <3>1 DEF RoundFrom
    <3> QED BY <1>1, <3>2
  <2>6. CASE LoopEnds(t)
    <3>1. Left(t)' = 0
      BY <1>2, <2>6, LeftAtPoint DEF LoopEnds
    <3>2. Left(t) \in Nat /\ Left(t) >= 1
      BY <2>6, SomeIsLeft DEF LoopEnds
    <3> QED BY <3>1, <3>2
  <2>8. CASE pc'[t] = "answered"
    <3>1. Left(t)' = 2
      BY <1>2, <2>8, LeftAtPoint
    <3>2. PICK l \in Nat : l = k + 6 * n
      BY <1>1
    <3>3. pc[t] # "tools" => l >= 6
      BY <1>1, <1>5, <3>2
    <3>4. /\ LeftAt("tools", i, n) = l + 4 /\ LeftAt("calling", i, n) = l + 3
          /\ LeftAt("lock", i, n) = l + 2 /\ LeftAt("closing", i, n) = l + 1
          /\ LeftAt("opening", i, n) = l /\ LeftAt("retry", i, n) = l - 1
      BY <1>1, <2>3, <3>2 DEF RoundFrom
    <3>5. Left(t) \in {l - 1, l, l + 1, l + 2, l + 3, l + 4} /\ (pc[t] = "tools" => Left(t) = l + 4)
      BY <1>5, <2>3, <3>4 DEF Invoked
    <3> QED BY <3>1, <3>2, <3>3, <3>5
  <2>7. CASE ~(CallAnswered(t) \/ RoundEnds(t) \/ LoopEnds(t)) /\ pc'[t] # "answered"
    <3>1. \/ Passes(t, {"tools"}, {"calling"}) \/ Passes(t, {"calling"}, {"lock"})
          \/ Passes(t, {"lock"}, {"closing"}) \/ Passes(t, {"closing"}, {"opening"})
          \/ Passes(t, {"opening"}, {"retry"})
      <4>1. pc[t] \notin {"model", "answered"}
        BY <1>5 DEF Invoked
      <4> QED BY <2>7, <4>1 DEF LoopSteps, Passes, CallsBegin
    <3>2. iteration'[t] = i /\ Len(calls'[t]) = n
      BY <3>1 DEF Passes, i, n
    <3>3. Left(t)' = LeftAt(pc'[t], i, n)
      BY <1>2, <3>2
    <3>4. PICK l \in Nat : l = k + 6 * n
      BY <1>1
    <3>5. /\ LeftAt("tools", i, n) = l + 4 /\ LeftAt("calling", i, n) = l + 3
          /\ LeftAt("lock", i, n) = l + 2 /\ LeftAt("closing", i, n) = l + 1
          /\ LeftAt("opening", i, n) = l /\ LeftAt("retry", i, n) = l - 1
      BY <1>1, <2>3, <3>4 DEF RoundFrom
    <3> QED BY <2>3, <3>1, <3>3, <3>5 DEF Passes
  <2> QED BY <2>4, <2>5, <2>6, <2>7, <2>8
<1>6. CASE pc[t] \in {"answered", "stamp"}
  <2>1. (pc[t] = "answered" /\ pc'[t] = "stamp") \/ pc'[t] = "done"
    BY <1>6 DEF LoopSteps, Passes, CallsBegin, CallAnswered, RoundEnds, LoopEnds, Invoked
  <2>2. (Left(t)' = 1 /\ Left(t) = 2) \/ (Left(t)' = 0 /\ Left(t) \in {1, 2})
    BY <1>2, <1>6, <2>1, LeftAtPoint
  <2> QED BY <2>2
<1>7. pc[t] \in {"model", "answered", "stamp"} \cup Invoked \cup {"tools"}
  BY DEF LoopSteps, Passes, CallsBegin, CallAnswered, RoundEnds, LoopEnds, Running, TurnTyped, Points, Invoked
<1> QED BY <1>4, <1>5, <1>6, <1>7

LEMMA TurnsWind ==
    ASSUME TurnTyped, LoopInv, NEW t \in Turns, Start(t) \/ Refuse(t) \/ Step(t) \/ Cancel(t)
    PROVE  WindsDown
<1>1. \A u \in Turns : Left(u) \in Nat
  BY SomeIsLeft
<1>2. ASSUME NEW u \in Turns, u # t PROVE Left(u)' = Left(u)
  <2>1. pc'[u] = pc[u]
    BY <1>2, StepLoops, CancelLoops, StartMoves, GoesTyped DEF OthersWait, Wrote, Refuse, Points
  <2>2. calls'[u] = calls[u] /\ iteration'[u] = iteration[u]
    <3>1. CASE Step(t)
      BY <1>2, <3>1, StepLoops DEF OthersWait
    <3>2. CASE Start(t) \/ Refuse(t)
      BY <3>2 DEF Start, Refuse, loop
    <3>3. CASE Cancel(t)
      BY <1>2, <3>3, CancelLoops DEF OthersWait
    <3> QED BY <3>1, <3>2, <3>3
  <2> QED BY <2>1, <2>2 DEF Left
<1>3. \A u \in Turns : Step(u) => Left(u)' < Left(u)
  BY StepLoops, LeavesFewer
<1>4. Running(t) => Left(t)' <= Left(t)
  <2>1. CASE Step(t) \/ Cancel(t)
    <3>1. Left(t)' < Left(t)
      BY <2>1, StepLoops, CancelLoops, LeavesFewer
    <3>2. Left(t)' \in Nat
      BY TurnTypedStep, LoopStep, SomeIsLeftNext
    <3> QED BY <1>1, <3>1, <3>2
  <2>2. CASE Start(t) \/ Refuse(t)
    BY <2>2 DEF Start, Refuse, Running
  <2> QED BY <2>1, <2>2
<1> QED BY <1>1, <1>2, <1>3, <1>4 DEF WindsDown

-----------------------------------------------------------------------------
(* The transcript and its view                                              *)

Messages == [turn : Turns, kind : {"human", "ai", "tool"}, hop : Nat, calls : SUBSET Nat,
             text : BOOLEAN, trace : Turns \cup {None}]
Transcript == Seq(Messages)

Own(s, t) == {i \in DOMAIN s : s[i].turn = t}
Asking(s, t) == {i \in Own(s, t) : s[i].kind = "ai"}
Texts(s, t) == {i \in Asking(s, t) : s[i].text}
EndsWith(s, T) == s # <<>> /\ s[Len(s)].turn \in T

(* What a transcript has of a turn is one block: its question, then no other *)
(* question; a question ends it.                                            *)
OneBlock(s, t) ==
    /\ Own(s, t) # {} => \E q \in Own(s, t) : s[q].kind = "human"
    /\ \A i, j \in Own(s, t) : i < j => s[j].kind # "human"
    /\ \A i, j \in Own(s, t) : \A k \in i..j : k \in Own(s, t)
    /\ \A i \in Own(s, t), j \in DOMAIN s \ Own(s, t) :
          i < j => \E q \in i + 1..j : s[q].kind = "human"

(* Its hops follow each other, and an output is in the hop that asked for it. *)
HopsFollow(s, t) ==
    /\ \A i, j \in Own(s, t) : i < j => s[i].hop <= s[j].hop
    /\ \A i, j \in Asking(s, t) : i < j => s[i].hop < s[j].hop
    /\ \A j \in Own(s, t) : s[j].kind = "tool" =>
          \E i \in Asking(s, t) : s[i].hop = s[j].hop /\ s[i].calls \cap s[j].calls # {}

(* Its last assistant message alone may carry its stamp, with the turn's text. *)
StampIsLast(s, t) ==
    /\ \A i \in Own(s, t) : s[i].trace = t =>
          /\ i \in Asking(s, t) /\ \A j \in Asking(s, t) : j <= i
          /\ s[i].text \/ Texts(s, t) = {}
    /\ Asking(s, t) # {} => \E i \in Asking(s, t) : \A j \in Asking(s, t) : j <= i
    /\ Texts(s, t) # {} => \E i \in Texts(s, t) : \A j \in Texts(s, t) : j <= i

Whole(s, t) == OneBlock(s, t) /\ HopsFollow(s, t) /\ StampIsLast(s, t)

Asked(t) ==
    LET m == carried[t][Len(carried[t])] IN
    /\ m.turn = t /\ m.kind = "ai" /\ m.hop = hop[t]
    /\ \E n \in Nat : m.calls = 1..n

ViewTyped ==
    /\ at \in [Turns -> {"new", "model", "tools", "answered", "stamping", "over"}]
    /\ hop \in [Turns -> Nat]
    /\ carried \in [Turns -> Transcript] /\ saved \in Transcript
    /\ target \in [Turns -> Messages \cup {0}]
    /\ beside \subseteq Turns
    /\ \A t \in Turns : at[t] = "stamping" => target[t] \in Messages
    /\ \A t \in Turns : at[t] = "new" => hop[t] = 0
    /\ \A t \in Turns : at[t] = "tools" => carried[t] # <<>> /\ Asked(t)

(* A turn under way is beside another, or alone; what it has last is its own. *)
Together ==
    /\ \A t, u \in Turns : UnderWay(t) /\ UnderWay(u) /\ t # u => t \in beside
    /\ \A t \in Turns : UnderWay(t) => EndsWith(carried[t], {t}) /\ EndsWith(saved, beside \cup {t})
    /\ \A t \in Turns : at[t] = "stamping" => target[t].turn \in beside \cup {t}
    /\ \A t \in Turns \ beside : UnderWay(t) => carried[t] = saved

Unheard ==
    \A t \in Turns : at[t] = "new" =>
        /\ Own(saved, t) = {}
        /\ \A u \in Turns : Own(carried[u], t) = {} /\ (at[u] = "stamping" => target[u].turn # t)

(* How far a turn that is alone is.                                          *)
Progress(t) ==
    /\ \A i \in Own(saved, t) : saved[i].trace # t /\ saved[i].hop <= hop[t]
    /\ at[t] = "model" => \A i \in Asking(saved, t) : saved[i].hop < hop[t]
    /\ at[t] = "stamping" =>
          /\ saved[Len(saved)].kind = "ai"
          /\ target[t] = [saved[Len(saved)] EXCEPT !.trace = t, !.text = (Texts(saved, t) # {})]

ViewInv ==
    /\ ViewTyped /\ Together /\ Unheard
    /\ \A t \in Turns \ beside :
          /\ Whole(saved, t)
          /\ \A u \in Turns : UnderWay(u) => Whole(carried[u], t)
          /\ UnderWay(t) => Progress(t)

(* Another turn's write: what it appends is a question or comes after a       *)
(* message that is not this turn's; what it replaces is not this turn's.     *)
LEMMA OthersWrite ==
    ASSUME NEW s \in Transcript, NEW s2 \in Transcript, NEW t \in Turns, Whole(s, t),
           Len(s) <= Len(s2),
           \A i \in 1..Len(s) : /\ s2[i].turn = s[i].turn /\ s2[i].kind = s[i].kind
                                /\ s[i].turn = t => s2[i] = s[i],
           \A i \in Len(s) + 1..Len(s2) : s2[i].turn # t,
           Len(s) < Len(s2) => s2[Len(s) + 1].kind = "human" \/ ~EndsWith(s, {t})
    PROVE  Whole(s2, t)
<1>1. /\ Len(s) \in Nat /\ Len(s2) \in Nat
      /\ DOMAIN s = 1..Len(s) /\ DOMAIN s2 = 1..Len(s2)
  BY DEF Transcript
<1>2. Own(s2, t) = Own(s, t) /\ \A i \in Own(s, t) : s2[i] = s[i] /\ i \in 1..Len(s)
  <2>1. \A i \in DOMAIN s2 : i \in 1..Len(s) \/ i \in Len(s) + 1..Len(s2)
    BY <1>1
  <2>2. \A i \in Own(s2, t) : i \in Own(s, t)
    BY <1>1, <2>1 DEF Own
  <2>3. \A i \in Own(s, t) : i \in Own(s2, t)
    BY <1>1 DEF Own
  <2>4. \A i \in Own(s, t) : s2[i] = s[i] /\ i \in 1..Len(s)
    BY <1>1 DEF Own
  <2> QED BY <2>2, <2>3, <2>4
<1>3. Asking(s2, t) = Asking(s, t) /\ Texts(s2, t) = Texts(s, t)
  BY <1>2 DEF Asking, Texts
<1>4. OneBlock(s2, t)
  <2>1. ASSUME NEW i \in Own(s, t), NEW j \in DOMAIN s2 \ Own(s, t), i < j
        PROVE  \E q \in i + 1..j : s2[q].kind = "human"
    <3>1. CASE j <= Len(s)
      <4>1. j \in DOMAIN s \ Own(s, t)
        BY <1>1, <2>1, <3>1
      <4>2. PICK q \in i + 1..j : s[q].kind = "human"
        BY <2>1, <4>1 DEF Whole, OneBlock
      <4>3. q \in 1..Len(s)
        BY <1>1, <1>2, <2>1, <3>1, <4>2
      <4> QED BY <4>2, <4>3
    <3>2. CASE j > Len(s) /\ s2[Len(s) + 1].kind = "human"
      BY <1>1, <1>2, <2>1, <3>2
    <3>3. CASE j > Len(s) /\ ~EndsWith(s, {t})
      <4>1. s # <<>> /\ Len(s) \in DOMAIN s \ Own(s, t) /\ i < Len(s)
        BY <1>1, <1>2, <2>1, <3>3 DEF EndsWith, Own
      <4>2. PICK q \in i + 1..Len(s) : s[q].kind = "human"
        BY <2>1, <4>1 DEF Whole, OneBlock
      <4>3. q \in 1..Len(s) /\ q \in i + 1..j
        BY <1>1, <1>2, <2>1, <3>3, <4>2
      <4> QED BY <4>2, <4>3
    <3> QED BY <1>1, <2>1, <3>1, <3>2, <3>3
  <2>2. Own(s2, t) # {} => \E q \in Own(s2, t) : s2[q].kind = "human"
    BY <1>2 DEF Whole, OneBlock
  <2>3. \A i, j \in Own(s2, t) : i < j => s2[j].kind # "human"
    BY <1>2 DEF Whole, OneBlock
  <2>4. \A i, j \in Own(s2, t) : \A k \in i..j : k \in Own(s2, t)
    BY <1>2 DEF Whole, OneBlock
  <2> QED BY <1>2, <2>1, <2>2, <2>3, <2>4 DEF OneBlock
<1>5. HopsFollow(s2, t)
  BY <1>2, <1>3 DEF Whole, HopsFollow, Asking
<1>6. StampIsLast(s2, t)
  BY <1>2, <1>3 DEF Whole, StampIsLast, Asking, Texts
<1> QED BY <1>4, <1>5, <1>6 DEF Whole

(* A turn's own next assistant message, of a later hop than any before it.   *)
LEMMA AssistantWrites ==
    ASSUME NEW s \in Transcript, NEW m \in Messages, NEW t \in Turns, Whole(s, t),
           EndsWith(s, {t}), m.turn = t, m.kind = "ai", m.trace # t,
           \A i \in Own(s, t) : s[i].hop <= m.hop /\ s[i].trace # t,
           \A i \in Asking(s, t) : s[i].hop < m.hop
    PROVE  Whole(Append(s, m), t)
<1> DEFINE s2 == Append(s, m)
           n == Len(s) + 1
<1>1. /\ Len(s) \in Nat /\ Len(s2) = n /\ DOMAIN s = 1..Len(s) /\ DOMAIN s2 = 1..n
      /\ s2[n] = m /\ \A i \in 1..Len(s) : s2[i] = s[i]
  BY DEF Transcript
<1> HIDE DEF s2
<1>2. Own(s2, t) = Own(s, t) \cup {n} /\ \A i \in Own(s, t) : i \in 1..Len(s) /\ s2[i] = s[i]
  BY <1>1 DEF Own
<1>3. Asking(s2, t) = Asking(s, t) \cup {n}
  BY <1>1, <1>2 DEF Asking
<1>4. Texts(s2, t) = IF m.text THEN Texts(s, t) \cup {n} ELSE Texts(s, t)
  BY <1>1, <1>2, <1>3 DEF Texts, Asking, Messages
<1>5. Len(s) \in Own(s, t)
  BY <1>1 DEF EndsWith, Own
<1>6. OneBlock(s2, t)
  <2>1. \E q \in Own(s2, t) : s2[q].kind = "human"
    BY <1>2, <1>5 DEF Whole, OneBlock
  <2>2. \A i, j \in Own(s2, t) : i < j => s2[j].kind # "human"
    BY <1>1, <1>2 DEF Whole, OneBlock
  <2>3. ASSUME NEW i \in Own(s2, t), NEW j \in Own(s2, t), NEW k \in i..j
        PROVE  k \in Own(s2, t)
    <3>1. CASE j = n /\ k # n /\ i # n
      <4>1. k \in i..Len(s)
        BY <1>1, <1>2, <2>3, <3>1
      <4> QED BY <1>2, <1>5, <3>1, <4>1 DEF Whole, OneBlock
    <3>2. CASE i = n
      <4>1. j \in 1..n /\ i..j \subseteq n..n
        BY <1>1, <1>2, <2>3, <3>2
      <4>2. k = n
        BY <1>1, <2>3, <4>1
      <4> QED BY <1>2, <4>2
    <3>3. CASE i # n /\ j # n
      BY <1>2, <2>3, <3>3 DEF Whole, OneBlock
    <3>4. CASE k = n
      BY <1>2, <3>4
    <3> QED BY <3>1, <3>2, <3>3, <3>4
  <2>4. ASSUME NEW i \in Own(s2, t), NEW j \in DOMAIN s2 \ Own(s2, t), i < j
        PROVE  \E q \in i + 1..j : s2[q].kind = "human"
    <3>1. j \in DOMAIN s \ Own(s, t) /\ i \in Own(s, t)
      BY <1>1, <1>2, <2>4
    <3>2. PICK q \in i + 1..j : s[q].kind = "human"
      BY <2>4, <3>1 DEF Whole, OneBlock
    <3> QED BY <1>1, <1>2, <3>1, <3>2
  <2> QED BY <2>1, <2>2, <2>3, <2>4 DEF OneBlock
<1>7. HopsFollow(s2, t)
  <2>1. \A i, j \in Own(s2, t) : i < j => s2[i].hop <= s2[j].hop
    BY <1>1, <1>2 DEF Whole, HopsFollow
  <2>2. \A i, j \in Asking(s2, t) : i < j => s2[i].hop < s2[j].hop
    BY <1>1, <1>2, <1>3 DEF Whole, HopsFollow, Asking
  <2>3. ASSUME NEW j \in Own(s2, t), s2[j].kind = "tool"
        PROVE  \E i \in Asking(s2, t) : s2[i].hop = s2[j].hop /\ s2[i].calls \cap s2[j].calls # {}
    <3>1. j \in Own(s, t) /\ s[j].kind = "tool"
      BY <1>1, <1>2, <2>3
    <3>2. PICK i \in Asking(s, t) : s[i].hop = s[j].hop /\ s[i].calls \cap s[j].calls # {}
      BY <3>1 DEF Whole, HopsFollow
    <3> QED BY <1>2, <1>3, <3>1, <3>2 DEF Asking
  <2> QED BY <2>1, <2>2, <2>3 DEF HopsFollow
<1>8. StampIsLast(s2, t)
  <2>1. \A i \in Own(s2, t) : s2[i].trace # t
    BY <1>1, <1>2
  <2>2. \E i \in Asking(s2, t) : \A j \in Asking(s2, t) : j <= i
    BY <1>1, <1>2, <1>3 DEF Asking
  <2>3. Texts(s2, t) # {} => \E i \in Texts(s2, t) : \A j \in Texts(s2, t) : j <= i
    <3>1. CASE m.text
      BY <1>1, <1>2, <1>4, <3>1 DEF Texts, Asking
    <3>2. CASE ~m.text
      BY <1>4, <3>2 DEF Whole, StampIsLast
    <3> QED BY <3>1, <3>2
  <2> QED BY <2>1, <2>2, <2>3 DEF StampIsLast
<1> QED BY <1>6, <1>7, <1>8 DEF Whole, s2

(* The outputs of the calls of the last message, in order.                   *)
AnswersLast(s, s2, t, n) ==
    /\ EndsWith(s, {t}) /\ s[Len(s)].kind = "ai" /\ s[Len(s)].calls = 1..n
    /\ \A i \in Own(s, t) : s[i].hop <= s[Len(s)].hop /\ s[i].trace # t
    /\ Len(s2) = Len(s) + n /\ \A i \in 1..Len(s) : s2[i] = s[i]
    /\ \A k \in 1..n : /\ s2[Len(s) + k].turn = t /\ s2[Len(s) + k].kind = "tool"
                      /\ s2[Len(s) + k].calls = {k} /\ s2[Len(s) + k].trace # t
                      /\ s2[Len(s) + k].hop = s[Len(s)].hop

LEMMA OutputsWrite ==
    ASSUME NEW s \in Transcript, NEW s2 \in Transcript, NEW t \in Turns, NEW n \in Nat,
           Whole(s, t), AnswersLast(s, s2, t, n)
    PROVE  Whole(s2, t) /\ Asking(s2, t) = Asking(s, t)
<1> DEFINE l == Len(s)
           new == l + 1..l + n
<1>1. /\ l \in Nat /\ DOMAIN s = 1..l /\ DOMAIN s2 = 1..l + n
      /\ \A j \in new : j - l \in 1..n /\ j = l + (j - l)
  BY DEF Transcript, AnswersLast
<1>2. l \in DOMAIN s /\ s[l].turn = t
  BY <1>1 DEF EndsWith, AnswersLast
<1>3. \A j \in new : /\ s2[j].turn = t /\ s2[j].kind = "tool" /\ s2[j].trace # t
                     /\ s2[j].hop = s[l].hop /\ s2[j].calls \cap s[l].calls # {}
  <2> SUFFICES ASSUME NEW j \in new
               PROVE  /\ s2[j].turn = t /\ s2[j].kind = "tool" /\ s2[j].trace # t
                      /\ s2[j].hop = s[l].hop /\ s2[j].calls \cap s[l].calls # {}
    OBVIOUS
  <2>1. PICK k \in 1..n : j = l + k
    BY <1>1
  <2> QED BY <2>1 DEF AnswersLast
<1>4. /\ \A i \in DOMAIN s2 : i \in DOMAIN s \/ i \in new
      /\ \A i \in DOMAIN s : i \in DOMAIN s2 /\ i \notin new /\ s2[i] = s[i] /\ i <= l
      /\ \A j \in new : j \in DOMAIN s2 /\ j > l /\ j \in Nat
  BY <1>1 DEF AnswersLast
<1> HIDE DEF new
<1>5. /\ \A i \in Own(s2, t) : (i \in Own(s, t) /\ s2[i] = s[i]) \/ i \in new
      /\ \A i \in Own(s, t) : i \in Own(s2, t) /\ i \in 1..l /\ s2[i] = s[i]
      /\ \A i \in new : i \in Own(s2, t)
  BY <1>1, <1>3, <1>4 DEF Own
<1>6. Asking(s2, t) = Asking(s, t)
  BY <1>3, <1>5 DEF Asking
<1>7. Texts(s2, t) = Texts(s, t)
  BY <1>5, <1>6 DEF Texts, Asking
<1>8. l \in Asking(s, t) /\ l \in Own(s, t)
  BY <1>2 DEF Asking, Own, AnswersLast
<1>9. OneBlock(s2, t)
  <2>1. \E q \in Own(s2, t) : s2[q].kind = "human"
    BY <1>5, <1>8 DEF Whole, OneBlock
  <2>2. \A i, j \in Own(s2, t) : i < j => s2[j].kind # "human"
    BY <1>3, <1>4, <1>5 DEF Whole, OneBlock
  <2>3. ASSUME NEW i \in Own(s2, t), NEW j \in Own(s2, t), NEW k \in i..j
        PROVE  k \in Own(s2, t)
    <3>1. CASE k \in new
      BY <1>5, <3>1
    <3>2. CASE k \notin new /\ j \notin new
      <4>1. i \notin new
        BY <1>1, <1>4, <1>5, <2>3, <3>2
      <4> QED BY <1>5, <2>3, <3>2, <4>1 DEF Whole, OneBlock
    <3>3. CASE k \notin new /\ j \in new
      <4>1. i \in 1..l + n /\ j \in 1..l + n
        BY <1>1, <1>4, <1>5, <3>3
      <4>2. i \in Nat /\ j \in 1..l + n /\ k \in 1..l + n
        BY <1>1, <2>3, <4>1
      <4>3. k \in 1..l
        BY <1>1, <1>4, <3>3, <4>2
      <4>4. i \notin new /\ k \in i..l
        BY <1>1, <1>4, <2>3, <4>2, <4>3
      <4> QED BY <1>5, <1>8, <2>3, <4>4 DEF Whole, OneBlock
    <3> QED BY <3>1, <3>2, <3>3
  <2>4. ASSUME NEW i \in Own(s2, t), NEW j \in DOMAIN s2 \ Own(s2, t), i < j
        PROVE  \E q \in i + 1..j : s2[q].kind = "human"
    <3>1. j \in DOMAIN s \ Own(s, t)
      BY <1>4, <1>5, <2>4
    <3>2. i \in Own(s, t)
      BY <1>1, <1>4, <1>5, <2>4, <3>1
    <3>3. PICK q \in i + 1..j : s[q].kind = "human"
      BY <2>4, <3>1, <3>2 DEF Whole, OneBlock
    <3>4. q \in DOMAIN s
      BY <1>1, <1>5, <3>1, <3>2
    <3> QED BY <1>4, <3>3, <3>4
  <2> QED BY <2>1, <2>2, <2>3, <2>4 DEF OneBlock
<1>10. HopsFollow(s2, t)
  <2>1. \A i \in Own(s, t) : s[i].hop \in Nat
    <3>1. \A i \in DOMAIN s : s[i] \in Messages
      BY DEF Transcript
    <3> QED BY <3>1 DEF Own, Messages
  <2>2. ASSUME NEW i \in Own(s2, t), NEW j \in Own(s2, t), i < j
        PROVE  s2[i].hop <= s2[j].hop
    <3>1. CASE j \in new
      BY <1>3, <1>5, <1>8, <2>1, <3>1 DEF AnswersLast
    <3>2. CASE j \notin new /\ i \notin new
      BY <1>5, <2>2, <3>2 DEF Whole, HopsFollow
    <3>3. CASE j \notin new /\ i \in new
      BY <1>1, <1>4, <1>5, <2>2, <3>3
    <3> QED BY <3>1, <3>2, <3>3
  <2>3. \A i, j \in Asking(s2, t) : i < j => s2[i].hop < s2[j].hop
    BY <1>5, <1>6 DEF Whole, HopsFollow, Asking
  <2>4. ASSUME NEW j \in Own(s2, t), s2[j].kind = "tool"
        PROVE  \E i \in Asking(s2, t) : s2[i].hop = s2[j].hop /\ s2[i].calls \cap s2[j].calls # {}
    <3>1. CASE j \in new
      BY <1>3, <1>5, <1>6, <1>8, <3>1
    <3>2. CASE j \notin new
      <4>1. j \in Own(s, t) /\ s[j].kind = "tool" /\ s2[j] = s[j]
        BY <1>5, <2>4, <3>2
      <4>2. PICK i \in Asking(s, t) : s[i].hop = s[j].hop /\ s[i].calls \cap s[j].calls # {}
        BY <4>1 DEF Whole, HopsFollow
      <4>3. s2[i] = s[i]
        BY <1>5 DEF Asking
      <4> QED BY <1>6, <4>1, <4>2, <4>3
    <3> QED BY <3>1, <3>2
  <2> QED BY <2>2, <2>3, <2>4 DEF HopsFollow
<1>11. StampIsLast(s2, t)
  <2>1. \A i \in Own(s2, t) : s2[i].trace # t
    BY <1>3, <1>5 DEF AnswersLast
  <2>2. \A i \in Asking(s, t) : i \in Own(s, t)
    BY DEF Asking
  <2> QED BY <1>6, <1>7, <2>1, <2>2 DEF Whole, StampIsLast
<1> QED BY <1>6, <1>9, <1>10, <1>11 DEF Whole

(* Its question, the first there is of it.                                   *)
LEMMA QuestionWrites ==
    ASSUME NEW s \in Transcript, NEW m \in Messages, NEW t \in Turns,
           Own(s, t) = {}, m.turn = t, m.kind = "human", m.trace # t
    PROVE  Whole(Append(s, m), t)
<1> DEFINE s2 == Append(s, m)
           n == Len(s) + 1
<1>1. /\ Len(s) \in Nat /\ n \in Nat /\ DOMAIN s = 1..Len(s) /\ DOMAIN s2 = 1..n
      /\ s2[n] = m /\ \A i \in 1..Len(s) : s2[i] = s[i]
  BY DEF Transcript
<1> HIDE DEF s2
<1>2. Own(s2, t) = {n}
  BY <1>1 DEF Own
<1>3. Asking(s2, t) = {} /\ Texts(s2, t) = {}
  BY <1>1, <1>2 DEF Asking, Texts
<1>4. OneBlock(s2, t)
  BY <1>1, <1>2 DEF OneBlock
<1>5. HopsFollow(s2, t)
  BY <1>1, <1>2, <1>3 DEF HopsFollow
<1>6. StampIsLast(s2, t)
  BY <1>1, <1>2, <1>3 DEF StampIsLast
<1> QED BY <1>4, <1>5, <1>6 DEF Whole, s2

(* Its last answer, stamped.                                                 *)
LEMMA StampWrites ==
    ASSUME NEW s \in Transcript, NEW s2 \in Transcript, NEW t \in Turns, Whole(s, t),
           EndsWith(s, {t}), s[Len(s)].kind = "ai", \A i \in Own(s, t) : s[i].trace # t,
           Len(s2) = Len(s), \A i \in 1..Len(s) : i # Len(s) => s2[i] = s[i],
           s2[Len(s)] = [s[Len(s)] EXCEPT !.trace = t, !.text = (Texts(s, t) # {})]
    PROVE  Whole(s2, t)
<1> DEFINE l == Len(s)
<1>1. l \in Nat /\ DOMAIN s = 1..l /\ DOMAIN s2 = 1..l /\ l \in DOMAIN s
  BY DEF EndsWith, Transcript
<1>2. s[l] \in Messages
  BY <1>1 DEF Transcript
<1>3. /\ s2[l].turn = t /\ s2[l].kind = "ai" /\ s2[l].hop = s[l].hop /\ s2[l].calls = s[l].calls
      /\ s2[l].trace = t /\ s2[l].text = (Texts(s, t) # {}) /\ s[l].turn = t
  BY <1>2 DEF Messages, EndsWith
<1>4. \A i \in 1..l : /\ s2[i].turn = s[i].turn /\ s2[i].kind = s[i].kind
                      /\ s2[i].hop = s[i].hop /\ s2[i].calls = s[i].calls
  BY <1>3
<1>5. Own(s2, t) = Own(s, t) /\ Asking(s2, t) = Asking(s, t) /\ Own(s, t) \subseteq 1..l
  BY <1>1, <1>4 DEF Own, Asking
<1>6. l \in Asking(s, t) /\ \A j \in Asking(s, t) : j <= l /\ j \in 1..l
  BY <1>1, <1>3, <1>5 DEF Asking, Own
<1>7. OneBlock(s2, t)
  <2>1. ASSUME NEW i \in Own(s, t), NEW j \in DOMAIN s \ Own(s, t), i < j
        PROVE  \E q \in i + 1..j : s2[q].kind = "human"
    <3>1. PICK q \in i + 1..j : s[q].kind = "human"
      BY <2>1 DEF Whole, OneBlock
    <3> QED BY <1>1, <1>4, <1>5, <2>1, <3>1
  <2> QED BY <1>1, <1>4, <1>5, <2>1 DEF Whole, OneBlock
<1>8. HopsFollow(s2, t)
  <2>1. \A i \in Own(s, t) : i \in 1..l
    BY <1>5
  <2>2. \A i \in Asking(s, t) : i \in 1..l
    BY <1>6
  <2> QED BY <1>4, <1>5, <2>1, <2>2 DEF Whole, HopsFollow
<1>9. Texts(s, t) # {} => Texts(s2, t) # {} /\ l \in Texts(s2, t) /\ \A j \in Texts(s2, t) : j <= l
  BY <1>3, <1>5, <1>6 DEF Texts
<1>10. Texts(s, t) = {} => Texts(s2, t) = {}
  BY <1>1, <1>3, <1>5, <1>6 DEF Texts
<1>11. StampIsLast(s2, t)
  <2>1. ASSUME NEW i \in Own(s2, t), s2[i].trace = t PROVE i = l
    BY <1>1, <1>5, <2>1
  <2>2. s2[l].text \/ Texts(s2, t) = {}
    BY <1>3, <1>10
  <2> QED BY <1>5, <1>6, <1>9, <1>10, <2>1, <2>2 DEF StampIsLast
<1> QED BY <1>7, <1>8, <1>11 DEF Whole

(* A turn that is alone is the only one under way.                           *)
LEMMA AloneIsAlone ==
    ASSUME Together, NEW t \in Turns \ beside, UnderWay(t), NEW u \in Turns, UnderWay(u)
    PROVE  u = t
BY DEF Together

(* A turn adds messages to the transcript it carries and leaves that.        *)
Adds(t, ms) ==
    /\ ms \in Transcript /\ Len(carried[t]) <= Len(ms)
    /\ \A i \in 1..Len(carried[t]) : ms[i] = carried[t][i]
    /\ \A i \in Len(carried[t]) + 1..Len(ms) : ms[i].turn = t /\ ms[i].kind # "human"

LEMMA AddsEnds ==
    ASSUME NEW s \in Transcript, NEW ms \in Transcript, NEW t \in Turns, NEW u \in Turns,
           Len(s) <= Len(ms), \A i \in 1..Len(s) : ms[i] = s[i],
           \A i \in Len(s) + 1..Len(ms) : ms[i].turn = t
    PROVE  /\ EndsWith(s, {t}) => EndsWith(ms, {t})
           /\ u # t /\ Own(s, u) = {} => Own(ms, u) = {}
<1>1. /\ Len(s) \in Nat /\ Len(ms) \in Nat
      /\ DOMAIN s = 1..Len(s) /\ DOMAIN ms = 1..Len(ms)
  BY DEF Transcript
<1>2. EndsWith(s, {t}) => EndsWith(ms, {t})
  <2> SUFFICES ASSUME EndsWith(s, {t}) PROVE EndsWith(ms, {t})
    OBVIOUS
  <2>1. Len(s) \in 1..Len(s) /\ s[Len(s)].turn = t
    BY <1>1 DEF EndsWith, Transcript
  <2>2. ms # <<>> /\ Len(ms) \in 1..Len(ms)
    BY <1>1, <2>1 DEF Transcript
  <2>3. CASE Len(ms) = Len(s)
    BY <2>1, <2>2, <2>3 DEF EndsWith
  <2>4. CASE Len(ms) # Len(s)
    <3> \A m, n \in Nat : m <= n /\ n # m => n \in m + 1..n
      OBVIOUS
    <3>1. Len(ms) \in Len(s) + 1..Len(ms)
      BY <1>1, <2>4
    <3> QED BY <2>2, <3>1 DEF EndsWith
  <2> QED BY <2>3, <2>4
<1>3. ASSUME u # t, Own(s, u) = {}
      PROVE  Own(ms, u) = {}
  <2>1. ASSUME NEW i \in DOMAIN ms PROVE ms[i].turn # u
    <3>1. CASE i \in 1..Len(s)
      BY <1>1, <1>3, <3>1 DEF Own
    <3>2. CASE i \in Len(s) + 1..Len(ms)
      BY <1>3, <3>2
    <3> QED BY <1>1, <2>1, <3>1, <3>2
  <2> QED BY <2>1 DEF Own
<1> QED BY <1>2, <1>3

LEMMA AddsStays ==
    ASSUME ViewInv, NEW t \in Turns, UnderWay(t), NEW ms, Adds(t, ms),
           NEW to \in {"model", "tools", "answered"},
           Writes(t, ms, to), UNCHANGED beside,
           at' \in [Turns -> {"new", "model", "tools", "answered", "stamping", "over"}],
           t \notin beside => Whole(ms, t) /\ Progress(t)'
    PROVE  /\ Together' /\ Unheard'
           /\ \A u \in Turns \ beside' :
                 /\ Whole(saved', u)
                 /\ \A w \in Turns : UnderWay(w)' => Whole(carried'[w], u)
                 /\ UnderWay(u)' => Progress(u)'
<1>1. /\ at' = [at EXCEPT ![t] = to] /\ carried' = [carried EXCEPT ![t] = ms]
      /\ saved' = ms /\ target' = target /\ beside' = beside
  BY DEF Writes
<1>2. /\ at'[t] = to /\ carried'[t] = ms
      /\ \A u \in Turns \ {t} : at'[u] = at[u] /\ carried'[u] = carried[u]
  BY <1>1 DEF ViewInv, ViewTyped
<1>3. UnderWay(t)' /\ \A u \in Turns : UnderWay(u)' <=> UnderWay(u)
  BY <1>2 DEF UnderWay
<1>4. carried[t] \in Transcript /\ ms \in Transcript
  BY DEF ViewInv, ViewTyped, Adds
<1>5. EndsWith(carried[t], {t})
  BY DEF ViewInv, Together
<1>6. EndsWith(ms, {t})
  BY <1>4, <1>5, AddsEnds DEF Adds
<1>7. \A u \in Turns \ beside : UnderWay(u) => u = t
  BY AloneIsAlone DEF ViewInv
<1>8. Together'
  <2>1. \A u, w \in Turns : UnderWay(u)' /\ UnderWay(w)' /\ u # w => u \in beside'
    BY <1>1, <1>3 DEF ViewInv, Together
  <2>2. ASSUME NEW u \in Turns, UnderWay(u)'
        PROVE  EndsWith(carried'[u], {u}) /\ EndsWith(saved', beside' \cup {u})
    <3>1. EndsWith(carried'[u], {u})
      BY <1>2, <1>3, <1>6, <2>2 DEF ViewInv, Together
    <3>2. t \in beside \cup {u}
      BY <1>3, <2>2 DEF ViewInv, Together
    <3> QED BY <1>1, <1>6, <3>1, <3>2 DEF EndsWith
  <2>3. \A u \in Turns : at'[u] = "stamping" => target'[u].turn \in beside' \cup {u}
    BY <1>1, <1>2 DEF ViewInv, Together
  <2>4. \A u \in Turns \ beside' : UnderWay(u)' => carried'[u] = saved'
    BY <1>1, <1>2, <1>3, <1>7
  <2> QED BY <2>1, <2>2, <2>3, <2>4 DEF Together
<1>9. Unheard'
  <2> SUFFICES ASSUME NEW u \in Turns, at'[u] = "new"
               PROVE  /\ Own(saved', u) = {}
                      /\ \A w \in Turns : /\ Own(carried'[w], u) = {}
                                          /\ at'[w] = "stamping" => target'[w].turn # u
    BY DEF Unheard
  <2>1. u # t /\ at[u] = "new"
    BY <1>2
  <2>2. /\ Own(saved, u) = {}
        /\ \A w \in Turns : Own(carried[w], u) = {} /\ (at[w] = "stamping" => target[w].turn # u)
    BY <2>1 DEF ViewInv, Unheard
  <2>3. Own(ms, u) = {}
    <3>1. Own(carried[t], u) = {} /\ Len(carried[t]) <= Len(ms)
      BY <2>2 DEF Adds
    <3>2. \A i \in 1..Len(carried[t]) : ms[i] = carried[t][i]
      BY DEF Adds
    <3>3. \A i \in Len(carried[t]) + 1..Len(ms) : ms[i].turn = t
      BY DEF Adds
    <3> QED BY <1>4, <2>1, <3>1, <3>2, <3>3, AddsEnds
  <2> QED BY <1>1, <1>2, <2>2, <2>3
<1>10. ASSUME NEW u \in Turns \ beside
       PROVE  /\ Whole(ms, u)
              /\ \A w \in Turns : UnderWay(w)' => Whole(carried'[w], u)
              /\ UnderWay(u)' => Progress(u)'
  <2>1. CASE u = t
    BY <1>2, <1>3, <1>10, <2>1, AloneIsAlone DEF ViewInv
  <2>2. CASE u # t
    <3>1. ~UnderWay(u)'
      BY <1>3, <1>7, <2>2
    <3>2. Whole(carried[t], u)
      BY DEF ViewInv
    <3>3. ~EndsWith(carried[t], {u})
      BY <1>5, <2>2 DEF EndsWith
    <3>4. Whole(ms, u)
      BY <1>4, <2>2, <3>2, <3>3, OthersWrite DEF Adds
    <3> QED BY <1>2, <1>3, <3>1, <3>4 DEF ViewInv
  <2> QED BY <2>1, <2>2
<1> QED BY <1>1, <1>8, <1>9, <1>10

ViewPoints == {"new", "model", "tools", "answered", "stamping", "over"}

(* A message a turn makes.                                                   *)
Makes(t, m) == m \in Messages /\ m.turn = t /\ m.hop = hop[t] /\ m.trace = None

LEMMA MessageMade ==
    ASSUME ViewInv, NEW t \in Turns, NEW kind \in {"human", "ai", "tool"},
           NEW ks \in SUBSET Nat, NEW text \in BOOLEAN
    PROVE  LET m == Message(t, kind, ks, text) IN
           Makes(t, m) /\ m.kind = kind /\ m.calls = ks
<1>1. hop[t] \in Nat
  BY DEF ViewInv, ViewTyped
<1> QED BY <1>1 DEF Makes, Message, Messages

LEMMA AppendAdds ==
    ASSUME NEW s \in Transcript, NEW m \in Messages
    PROVE  /\ Append(s, m) \in Transcript /\ Len(Append(s, m)) = Len(s) + 1
           /\ Len(s) \in Nat /\ Append(s, m) # <<>>
           /\ \A i \in 1..Len(s) : Append(s, m)[i] = s[i]
           /\ Append(s, m)[Len(s) + 1] = m
BY DEF Transcript

LEMMA AnswerStays ==
    ASSUME ViewInv, NEW t \in Turns, at[t] = "model",
           NEW m, Makes(t, m), m.kind = "ai", NEW to \in {"tools", "answered"},
           Writes(t, Append(carried[t], m), to), UNCHANGED <<hop, beside>>,
           to = "tools" => \E n \in Nat : m.calls = 1..n
    PROVE  ViewInv'
<1> DEFINE s == carried[t]
           ms == Append(s, m)
<1>1. s \in Transcript /\ m \in Messages /\ m.turn = t /\ m.hop = hop[t] /\ m.trace # t
  BY ToolsAssumption DEF ViewInv, ViewTyped, Makes
<1>2. /\ ms \in Transcript /\ Len(ms) = Len(s) + 1 /\ Len(s) \in Nat /\ ms # <<>>
      /\ \A i \in 1..Len(s) : ms[i] = s[i]
      /\ ms[Len(ms)] = m
  BY <1>1, AppendAdds
<1>3. /\ at' = [at EXCEPT ![t] = to] /\ carried' = [carried EXCEPT ![t] = ms] /\ saved' = ms
      /\ target' = target /\ hop' = hop /\ beside' = beside
  BY DEF Writes
<1>4. Writes(t, ms, to)
  OBVIOUS
<1> HIDE DEF ms
<1>5. UnderWay(t) /\ Adds(t, ms)
  <2>1. \A i \in Len(s) + 1..Len(ms) : ms[i] = m
    BY <1>2
  <2> QED BY <1>1, <1>2, <2>1 DEF Adds, UnderWay
<1>6. at' \in [Turns -> ViewPoints]
  BY <1>3 DEF ViewInv, ViewTyped, ViewPoints
<1>7. ViewTyped'
  <2>1. hop' \in [Turns -> Nat] /\ carried' \in [Turns -> Transcript] /\ saved' \in Transcript
    BY <1>2, <1>3 DEF ViewInv, ViewTyped
  <2>2. /\ target' \in [Turns -> Messages \cup {0}] /\ beside' \subseteq Turns
        /\ \A u \in Turns : at'[u] = "stamping" => target'[u] \in Messages
        /\ \A u \in Turns : at'[u] = "new" => hop'[u] = 0
    BY <1>3 DEF ViewInv, ViewTyped
  <2>3. ASSUME NEW u \in Turns, at'[u] = "tools"
        PROVE  carried'[u] # <<>> /\ Asked(u)'
    <3>1. CASE u = t
      <4>1. carried'[t] = ms /\ to = "tools" /\ hop'[t] = hop[t]
        BY <1>3, <2>3, <3>1 DEF ViewInv, ViewTyped
      <4> QED BY <1>1, <1>2, <3>1, <4>1 DEF Asked
    <3>2. CASE u # t
      <4>1. at[u] = "tools" /\ carried'[u] = carried[u] /\ hop'[u] = hop[u]
        BY <1>3, <2>3, <3>2 DEF ViewInv, ViewTyped
      <4> QED BY <4>1 DEF ViewInv, ViewTyped, Asked
    <3> QED BY <3>1, <3>2
  <2> QED BY <1>6, <2>1, <2>2, <2>3 DEF ViewTyped, ViewPoints
<1>8. t \notin beside => Whole(ms, t) /\ Progress(t)'
  <2> SUFFICES ASSUME t \notin beside PROVE Whole(ms, t) /\ Progress(t)'
    OBVIOUS
  <2>1. /\ s = saved /\ EndsWith(s, {t}) /\ Whole(s, t)
        /\ \A i \in Own(s, t) : s[i].hop <= hop[t] /\ s[i].trace # t
        /\ \A i \in Asking(s, t) : s[i].hop < hop[t]
    BY <1>5, ZenonT(40) DEF ViewInv, Together, Progress
  <2>2. Whole(ms, t)
    BY <1>1, <2>1, AssistantWrites DEF ms
  <2>3. \A i \in Own(ms, t) : ms[i].trace # t /\ ms[i].hop <= hop[t]
    <3> SUFFICES ASSUME NEW i \in Own(ms, t) PROVE ms[i].trace # t /\ ms[i].hop <= hop[t]
      OBVIOUS
    <3>1. i \in 1..Len(ms) /\ ms[i].turn = t
      BY <1>2 DEF Own, Transcript
    <3>2. CASE i = Len(ms)
      BY <1>1, <1>2, <3>2 DEF ViewInv, ViewTyped
    <3>3. CASE i # Len(ms)
      <4>1. i \in 1..Len(s) /\ ms[i] = s[i]
        BY <1>2, <3>1, <3>3
      <4>2. i \in Own(s, t)
        BY <1>1, <3>1, <4>1 DEF Own, Transcript
      <4> QED BY <2>1, <4>1, <4>2
    <3> QED BY <3>2, <3>3
  <2>4. at'[t] = to
    BY <1>3 DEF ViewInv, ViewTyped
  <2> QED BY <1>3, <2>2, <2>3, <2>4 DEF Progress
<1>9. /\ Together' /\ Unheard'
      /\ \A u \in Turns \ beside' :
            /\ Whole(saved', u)
            /\ \A w \in Turns : UnderWay(w)' => Whole(carried'[w], u)
            /\ UnderWay(u)' => Progress(u)'
  BY <1>4, <1>5, <1>6, <1>8, AddsStays DEF ViewPoints
<1> QED BY <1>7, <1>9 DEF ViewInv

LEMMA ToolsStay ==
    ASSUME ViewInv, NEW t \in Turns, ToolsAnswer(t)
    PROVE  ViewInv'
<1> DEFINE s == carried[t]
           ms == s \o [k \in s[Len(s)].calls |-> Message(t, "tool", {k}, TRUE)]
<1>1. /\ s \in Transcript /\ s # <<>> /\ at[t] = "tools" /\ hop[t] \in Nat
      /\ s[Len(s)].turn = t /\ s[Len(s)].kind = "ai" /\ s[Len(s)].hop = hop[t]
  BY DEF ViewInv, ViewTyped, ToolsAnswer, Asked
<1>2. PICK n \in Nat : s[Len(s)].calls = 1..n
  BY <1>1 DEF ViewInv, ViewTyped, Asked
<1> DEFINE out == [k \in 1..n |-> Message(t, "tool", {k}, TRUE)]
<1>3. out \in Transcript /\ Len(out) = n /\ \A k \in 1..n : out[k] = Message(t, "tool", {k}, TRUE)
  <2>1. \A k \in 1..n : Message(t, "tool", {k}, TRUE) \in Messages
    BY <1>1 DEF Message, Messages
  <2>2. out \in [1..n -> Messages]
    BY <2>1
  <2>3. out \in Seq(Messages) /\ Len(out) = n
    <3> HIDE DEF out
    <3> QED BY <2>2
  <2> QED BY <2>3 DEF Transcript
<1>4. /\ at' = [at EXCEPT ![t] = "model"] /\ carried' = [carried EXCEPT ![t] = ms] /\ saved' = ms
      /\ target' = target /\ hop' = [hop EXCEPT ![t] = @ + 1] /\ beside' = beside
      /\ Writes(t, ms, "model")
  BY DEF ToolsAnswer, Writes
<1>5. ms = s \o out
  BY <1>2
<1> HIDE DEF ms, out
<1>6. /\ ms \in Transcript /\ Len(ms) = Len(s) + n /\ Len(s) \in Nat
      /\ \A i \in 1..Len(s) : ms[i] = s[i]
      /\ \A k \in 1..n : ms[Len(s) + k] = out[k]
  BY <1>1, <1>3, <1>5, SMTT(20) DEF Transcript
<1>7. \A k \in 1..n : /\ ms[Len(s) + k].turn = t /\ ms[Len(s) + k].kind = "tool"
                      /\ ms[Len(s) + k].calls = {k} /\ ms[Len(s) + k].trace # t
                      /\ ms[Len(s) + k].hop = hop[t]
  BY <1>3, <1>6, ToolsAssumption, SMTT(20) DEF Message
<1>8. \A i \in 1..Len(ms) : i \in 1..Len(s) \/ \E k \in 1..n : i = Len(s) + k
  <2> SUFFICES ASSUME NEW i \in 1..Len(ms), i \notin 1..Len(s)
               PROVE  \E k \in 1..n : i = Len(s) + k
    OBVIOUS
  <2>1. i - Len(s) \in 1..n /\ i = Len(s) + (i - Len(s))
    BY <1>6
  <2> QED BY <2>1
<1>9. UnderWay(t) /\ Adds(t, ms)
  <2>1. ASSUME NEW i \in Len(s) + 1..Len(ms) PROVE ms[i].turn = t /\ ms[i].kind # "human"
    <3>1. i \in 1..Len(ms) /\ i \notin 1..Len(s)
      BY <1>6
    <3> QED BY <1>7, <1>8, <3>1
  <2> QED BY <1>1, <1>6, <2>1 DEF Adds, UnderWay
<1>10. at' \in [Turns -> ViewPoints] /\ hop' \in [Turns -> Nat] /\ hop'[t] = hop[t] + 1
  BY <1>1, <1>4 DEF ViewInv, ViewTyped, ViewPoints
<1>11. ViewTyped'
  <2>1. carried' \in [Turns -> Transcript] /\ saved' \in Transcript
    BY <1>4, <1>6 DEF ViewInv, ViewTyped
  <2>2. /\ target' \in [Turns -> Messages \cup {0}] /\ beside' \subseteq Turns
        /\ \A u \in Turns : at'[u] = "stamping" => target'[u] \in Messages
        /\ \A u \in Turns : at'[u] = "new" => hop'[u] = 0
    BY <1>4 DEF ViewInv, ViewTyped
  <2>3. ASSUME NEW u \in Turns, at'[u] = "tools"
        PROVE  carried'[u] # <<>> /\ Asked(u)'
    <3>1. u # t /\ at[u] = "tools" /\ carried'[u] = carried[u] /\ hop'[u] = hop[u]
      BY <1>4, <2>3 DEF ViewInv, ViewTyped
    <3> QED BY <3>1 DEF ViewInv, ViewTyped, Asked
  <2> QED BY <1>10, <2>1, <2>2, <2>3 DEF ViewTyped, ViewPoints
<1>12. t \notin beside => Whole(ms, t) /\ Progress(t)'
  <2> SUFFICES ASSUME t \notin beside PROVE Whole(ms, t) /\ Progress(t)'
    OBVIOUS
  <2>1. /\ s = saved /\ EndsWith(s, {t}) /\ Whole(s, t)
        /\ \A i \in Own(s, t) : s[i].hop <= hop[t] /\ s[i].trace # t
    BY <1>9 DEF ViewInv, Together, Progress
  <2>2. Whole(ms, t) /\ Asking(ms, t) = Asking(s, t)
    <3> DEFINE l == Len(s)
    <3>1. \A i \in Own(s, t) : s[i].hop <= s[l].hop /\ s[i].trace # t
      BY <1>1, <2>1
    <3>2. \A k \in 1..n : /\ ms[l + k].turn = t /\ ms[l + k].kind = "tool"
                          /\ ms[l + k].calls = {k} /\ ms[l + k].trace # t
                          /\ ms[l + k].hop = s[l].hop
      BY <1>1, <1>7
    <3>3. Len(ms) = l + n /\ \A i \in 1..l : ms[i] = s[i]
      BY <1>6
    <3>4. s \in Transcript /\ ms \in Transcript /\ s[l].kind = "ai" /\ s[l].calls = 1..n
      BY <1>1, <1>2, <1>6
    <3>5. AnswersLast(s, ms, t, n)
      BY <2>1, <3>1, <3>2, <3>3, <3>4 DEF AnswersLast
    <3> QED BY <2>1, <3>4, <3>5, OutputsWrite
  <2>3. \A i \in Own(s, t) : s[i].hop \in Nat /\ i \in 1..Len(s)
    <3>1. \A i \in DOMAIN s : s[i] \in Messages /\ i \in 1..Len(s)
      BY <1>1 DEF Transcript
    <3> QED BY <3>1 DEF Own, Messages
  <2>4. \A i \in Own(ms, t) : ms[i].trace # t /\ ms[i].hop <= hop[t] + 1
    <3> SUFFICES ASSUME NEW i \in Own(ms, t) PROVE ms[i].trace # t /\ ms[i].hop <= hop[t] + 1
      OBVIOUS
    <3>1. i \in 1..Len(ms) /\ ms[i].turn = t
      BY <1>6 DEF Own, Transcript
    <3>2. CASE i \in 1..Len(s)
      <4>1. i \in Own(s, t) /\ ms[i] = s[i]
        BY <1>1, <1>6, <3>1, <3>2 DEF Own, Transcript
      <4> QED BY <1>1, <2>1, <2>3, <4>1
    <3>3. CASE \E k \in 1..n : i = Len(s) + k
      <4>1. PICK k \in 1..n : i = Len(s) + k
        BY <3>3
      <4>2. ms[i].trace # t /\ ms[i].hop = hop[t]
        BY <1>7, <4>1
      <4> QED BY <1>1, <4>2
    <3> QED BY <1>8, <3>1, <3>2, <3>3
  <2>5. \A i \in Asking(ms, t) : ms[i].hop < hop[t] + 1
    BY <1>1, <1>6, <2>1, <2>2, <2>3 DEF Asking
  <2>6. at'[t] = "model"
    BY <1>4 DEF ViewInv, ViewTyped
  <2> QED BY <1>4, <1>10, <2>2, <2>4, <2>5, <2>6 DEF Progress
<1>13. /\ Together' /\ Unheard'
       /\ \A u \in Turns \ beside' :
             /\ Whole(saved', u)
             /\ \A w \in Turns : UnderWay(w)' => Whole(carried'[w], u)
             /\ UnderWay(u)' => Progress(u)'
  BY <1>4, <1>9, <1>10, <1>12, AddsStays DEF ViewPoints
<1> QED BY <1>11, <1>13 DEF ViewInv

(* A question puts the turn and those under way beside each other.           *)
LEMMA QuestionStays ==
    ASSUME ViewInv, NEW t \in Turns, Question(t)
    PROVE  ViewInv'
<1> DEFINE m == Message(t, "human", {}, TRUE)
           ms == Append(saved, m)
           others == {u \in Turns \ {t} : UnderWay(u)}
<1>1. /\ m \in Messages /\ m.turn = t /\ m.hop = hop[t] /\ m.trace # t /\ m.kind = "human"
      /\ saved \in Transcript /\ at[t] = "new" /\ hop[t] = 0
  <2>1. saved \in Transcript /\ at[t] = "new" /\ hop[t] = 0
    BY DEF ViewInv, ViewTyped, Question
  <2>2. m \in Messages /\ m.turn = t /\ m.hop = hop[t] /\ m.trace = None /\ m.kind = "human"
    BY <2>1 DEF Message, Messages
  <2> QED BY <2>1, <2>2, ToolsAssumption
<1>2. /\ at' = [at EXCEPT ![t] = "model"] /\ carried' = [carried EXCEPT ![t] = ms] /\ saved' = ms
      /\ target' = target /\ hop' = hop
      /\ beside' = beside \cup (IF others = {} THEN {} ELSE others \cup {t})
  BY DEF Question, Writes
<1> HIDE DEF m
<1>3. /\ ms \in Transcript /\ Len(ms) = Len(saved) + 1 /\ Len(saved) \in Nat /\ ms # <<>>
      /\ \A i \in 1..Len(saved) : ms[i] = saved[i]
      /\ ms[Len(ms)] = m
  BY <1>1, AppendAdds
<1> HIDE DEF ms
<1>4. EndsWith(ms, {t})
  BY <1>1, <1>3 DEF EndsWith
<1>5. /\ at'[t] = "model" /\ carried'[t] = ms
      /\ \A u \in Turns \ {t} : at'[u] = at[u] /\ carried'[u] = carried[u]
  BY <1>2 DEF ViewInv, ViewTyped
<1>6. UnderWay(t)' /\ ~UnderWay(t) /\ \A u \in Turns \ {t} : UnderWay(u)' <=> UnderWay(u)
  BY <1>1, <1>5 DEF UnderWay
<1>7. \A u \in Turns \ {t} : UnderWay(u) => u \in beside' /\ t \in beside'
  BY <1>2
<1>8. ViewTyped'
  <2>1. at' \in [Turns -> ViewPoints] /\ hop' \in [Turns -> Nat]
    BY <1>2 DEF ViewInv, ViewTyped, ViewPoints
  <2>2. carried' \in [Turns -> Transcript] /\ saved' \in Transcript
    BY <1>2, <1>3 DEF ViewInv, ViewTyped
  <2>3. /\ target' \in [Turns -> Messages \cup {0}] /\ beside' \subseteq Turns
        /\ \A u \in Turns : at'[u] = "stamping" => target'[u] \in Messages
        /\ \A u \in Turns : at'[u] = "new" => hop'[u] = 0
    BY <1>2 DEF ViewInv, ViewTyped
  <2>4. ASSUME NEW u \in Turns, at'[u] = "tools"
        PROVE  carried'[u] # <<>> /\ Asked(u)'
    <3>1. u # t /\ at[u] = "tools" /\ carried'[u] = carried[u] /\ hop'[u] = hop[u]
      BY <1>2, <1>5, <2>4
    <3> QED BY <3>1 DEF ViewInv, ViewTyped, Asked
  <2> QED BY <2>1, <2>2, <2>3, <2>4 DEF ViewTyped, ViewPoints
<1>9. Together'
  <2>1. \A u, w \in Turns : UnderWay(u)' /\ UnderWay(w)' /\ u # w => u \in beside'
    BY <1>2, <1>6, <1>7 DEF ViewInv, Together
  <2>2. ASSUME NEW u \in Turns, UnderWay(u)'
        PROVE  EndsWith(carried'[u], {u}) /\ EndsWith(saved', beside' \cup {u})
    <3>1. EndsWith(carried'[u], {u})
      BY <1>4, <1>5, <1>6, <2>2 DEF ViewInv, Together
    <3>2. t \in beside' \cup {u}
      BY <1>6, <1>7, <2>2
    <3> QED BY <1>2, <1>4, <3>1, <3>2 DEF EndsWith
  <2>3. \A u \in Turns : at'[u] = "stamping" => target'[u].turn \in beside' \cup {u}
    BY <1>2, <1>5 DEF ViewInv, Together
  <2>4. \A u \in Turns \ beside' : UnderWay(u)' => carried'[u] = saved'
    BY <1>2, <1>5, <1>6, <1>7
  <2> QED BY <2>1, <2>2, <2>3, <2>4 DEF Together
<1>10. Unheard'
  <2> SUFFICES ASSUME NEW u \in Turns, at'[u] = "new"
               PROVE  /\ Own(saved', u) = {}
                      /\ \A w \in Turns : /\ Own(carried'[w], u) = {}
                                          /\ at'[w] = "stamping" => target'[w].turn # u
    BY DEF Unheard
  <2>1. u # t /\ at[u] = "new"
    BY <1>5
  <2>2. /\ Own(saved, u) = {}
        /\ \A w \in Turns : Own(carried[w], u) = {} /\ (at[w] = "stamping" => target[w].turn # u)
    BY <2>1 DEF ViewInv, Unheard
  <2>3. Own(ms, u) = {}
    <3>1. \A i \in Len(saved) + 1..Len(ms) : ms[i].turn = t
      BY <1>1, <1>3
    <3>2. Len(saved) <= Len(ms)
      BY <1>3
    <3> QED BY <1>1, <1>3, <2>1, <2>2, <3>1, <3>2, AddsEnds, ZenonT(40)
  <2> QED BY <1>2, <1>5, <2>2, <2>3
<1>11. Own(saved, t) = {}
  BY <1>1 DEF ViewInv, Unheard
<1>12. ASSUME NEW u \in Turns \ beside'
       PROVE  /\ Whole(ms, u)
              /\ \A w \in Turns : UnderWay(w)' => Whole(carried'[w], u)
              /\ UnderWay(u)' => Progress(u)'
  <2>1. u \in Turns \ beside
    BY <1>2
  <2>2. Whole(ms, u)
    <3>1. CASE u = t
      BY <1>1, <1>11, <3>1, QuestionWrites DEF ms
    <3>2. CASE u # t
      <4>1. Whole(saved, u)
        BY <2>1 DEF ViewInv
      <4>2. \A i \in 1..Len(saved) : ms[i].turn = saved[i].turn /\ ms[i].kind = saved[i].kind
                                     /\ (saved[i].turn = u => ms[i] = saved[i])
        BY <1>3
      <4>3. \A i \in Len(saved) + 1..Len(ms) : ms[i].turn # u
        BY <1>1, <1>3, <3>2
      <4>4. Len(saved) <= Len(ms) /\ ms[Len(saved) + 1].kind = "human"
        BY <1>1, <1>3
      <4> QED BY <1>1, <1>3, <4>1, <4>2, <4>3, <4>4, OthersWrite
    <3> QED BY <3>1, <3>2
  <2>3. \A w \in Turns : UnderWay(w)' => Whole(carried'[w], u)
    BY <1>5, <1>6, <2>1, <2>2 DEF ViewInv
  <2>4. ASSUME UnderWay(u)'
        PROVE  Progress(u)'
    <3>1. u = t
      BY <1>6, <1>7, <1>12, <2>4
    <3>2. ASSUME NEW i \in Own(ms, t) PROVE ms[i] = m
      <4>1. i \in 1..Len(ms) /\ ms[i].turn = t
        BY <1>3 DEF Own, Transcript
      <4>2. CASE i = Len(ms)
        BY <1>3, <4>2
      <4>3. CASE i # Len(ms)
        <5>1. i \in 1..Len(saved) /\ saved[i].turn = t
          BY <1>3, <4>1, <4>3
        <5> QED BY <1>1, <1>11, <5>1 DEF Own, Transcript
      <4> QED BY <4>2, <4>3
    <3>3. \A i \in Own(ms, t) : ms[i].trace # t /\ ms[i].hop <= hop[t]
      BY <1>1, <3>2
    <3>4. Asking(ms, t) = {}
      BY <1>1, <3>2 DEF Asking
    <3> QED BY <1>2, <1>5, <3>1, <3>3, <3>4 DEF Progress
  <2> QED BY <2>2, <2>3, <2>4
<1> QED BY <1>2, <1>8, <1>9, <1>10, <1>12 DEF ViewInv

(* A turn ends: what it carried is gone.                                     *)
LEMMA EndStays ==
    ASSUME ViewInv, NEW t \in Turns, UnderWay(t), EndsTurn(t), UNCHANGED beside,
           saved' \in Transcript,
           \A u \in Turns : UnderWay(u) /\ u # t => EndsWith(saved', beside \cup {u}),
           \A u \in Turns : at[u] = "new" => Own(saved', u) = {},
           \A u \in Turns \ beside : Whole(saved', u)
    PROVE  ViewInv'
<1>1. /\ at'[t] = "over" /\ carried'[t] = <<>> /\ target'[t] = 0 /\ hop'[t] = 0
      /\ \A u \in Turns \ {t} : /\ at'[u] = at[u] /\ carried'[u] = carried[u]
                                /\ target'[u] = target[u] /\ hop'[u] = hop[u]
  BY DEF EndsTurn, ViewInv, ViewTyped
<1>2. \A u \in Turns : UnderWay(u)' <=> UnderWay(u) /\ u # t
  BY <1>1 DEF UnderWay
<1>3. ViewTyped'
  <2>1. <<>> \in Transcript
    BY DEF Transcript
  <2>2. at' \in [Turns -> ViewPoints] /\ hop' \in [Turns -> Nat]
    BY DEF EndsTurn, ViewInv, ViewTyped, ViewPoints
  <2>3. carried' \in [Turns -> Transcript] /\ target' \in [Turns -> Messages \cup {0}]
    BY <2>1 DEF EndsTurn, ViewInv, ViewTyped
  <2>4. /\ beside' \subseteq Turns
        /\ \A u \in Turns : at'[u] = "stamping" => target'[u] \in Messages
        /\ \A u \in Turns : at'[u] = "new" => hop'[u] = 0
    BY <1>1 DEF ViewInv, ViewTyped
  <2>5. ASSUME NEW u \in Turns, at'[u] = "tools"
        PROVE  carried'[u] # <<>> /\ Asked(u)'
    <3>1. u # t /\ at[u] = "tools" /\ carried'[u] = carried[u] /\ hop'[u] = hop[u]
      BY <1>1, <2>5
    <3> QED BY <3>1 DEF ViewInv, ViewTyped, Asked
  <2> QED BY <2>2, <2>3, <2>4, <2>5 DEF ViewTyped, ViewPoints
<1>4. \A u \in Turns \ beside : ~UnderWay(u)'
  BY <1>2, AloneIsAlone DEF ViewInv
<1>5. Together'
  <2>1. \A u, w \in Turns : UnderWay(u)' /\ UnderWay(w)' /\ u # w => u \in beside'
    BY <1>2 DEF ViewInv, Together
  <2>2. \A u \in Turns : UnderWay(u)' => EndsWith(carried'[u], {u}) /\ EndsWith(saved', beside' \cup {u})
    BY <1>1, <1>2 DEF ViewInv, Together
  <2>3. \A u \in Turns : at'[u] = "stamping" => target'[u].turn \in beside' \cup {u}
    BY <1>1 DEF ViewInv, Together
  <2> QED BY <1>4, <2>1, <2>2, <2>3 DEF Together
<1>6. Unheard'
  <2>1. \A u \in Turns : Own(<<>>, u) = {}
    BY DEF Own
  <2> QED BY <1>1, <2>1, SMTT(20) DEF ViewInv, Unheard
<1>7. ASSUME NEW u \in Turns \ beside
      PROVE  /\ Whole(saved', u)
             /\ \A w \in Turns : UnderWay(w)' => Whole(carried'[w], u)
  BY <1>1, <1>2 DEF ViewInv
<1> QED BY <1>3, <1>4, <1>5, <1>6, <1>7 DEF ViewInv

LEMMA LeaveStays ==
    ASSUME ViewInv, NEW t \in Turns, LeaveOff(t)
    PROVE  ViewInv'
<1>1. UnderWay(t) /\ EndsTurn(t) /\ UNCHANGED beside /\ saved' = saved
  BY DEF LeaveOff
<1>2. \A u \in Turns : UnderWay(u) /\ u # t => EndsWith(saved', beside \cup {u})
  BY <1>1 DEF ViewInv, Together
<1>3. \A u \in Turns : at[u] = "new" => Own(saved', u) = {}
  BY <1>1 DEF ViewInv, Unheard
<1>4. saved' \in Transcript /\ \A u \in Turns \ beside : Whole(saved', u)
  BY <1>1 DEF ViewInv, ViewTyped
<1> QED BY <1>1, <1>2, <1>3, <1>4, EndStays

LEMMA BreakStays ==
    ASSUME ViewInv, NEW t \in Turns, BreakOff(t)
    PROVE  ViewInv'
<1>1. /\ at[t] \in {"model", "tools"} /\ at'[t] = "answered" /\ UNCHANGED <<hop, carried, saved, target, beside>>
      /\ at' \in [Turns -> ViewPoints] /\ \A u \in Turns \ {t} : at'[u] = at[u]
  BY DEF BreakOff, ViewInv, ViewTyped, ViewPoints
<1>2. \A u \in Turns : UnderWay(u)' <=> UnderWay(u)
  BY <1>1 DEF UnderWay
<1>3. \A u \in Turns : at'[u] \in {"new", "model", "tools", "stamping"} => u # t /\ at'[u] = at[u]
  BY <1>1
<1>4. ViewTyped'
  <2>1. \A u \in Turns : at'[u] = "tools" => carried'[u] # <<>> /\ Asked(u)'
    BY <1>1, <1>3 DEF ViewInv, ViewTyped, Asked
  <2> QED BY <1>1, <1>3, <2>1 DEF ViewInv, ViewTyped, ViewPoints
<1>5. Together'
  BY <1>1, <1>2, <1>3 DEF ViewInv, Together
<1>6. Unheard'
  BY <1>1, <1>3 DEF ViewInv, Unheard
<1>7. \A u \in Turns : Progress(u) => Progress(u)'
  BY <1>1, <1>3 DEF Progress
<1> QED BY <1>1, <1>2, <1>4, <1>5, <1>6, <1>7 DEF ViewInv

LEMMA FindStays ==
    ASSUME ViewInv, NEW t \in Turns, FindAnswer(t)
    PROVE  ViewInv'
<1> DEFINE l == Len(saved)
           text == \E i \in DOMAIN carried[t] :
                      carried[t][i].turn = t /\ carried[t][i].kind = "ai" /\ carried[t][i].text
           aimed == [saved[l] EXCEPT !.trace = t, !.text = text]
<1>1. /\ at[t] = "answered" /\ saved[l].kind = "ai" /\ UnderWay(t)
      /\ at' = [at EXCEPT ![t] = "stamping"] /\ target' = [target EXCEPT ![t] = aimed]
      /\ hop' = hop /\ carried' = carried /\ saved' = saved /\ beside' = beside
  BY DEF FindAnswer, UnderWay
<1>2. EndsWith(saved, beside \cup {t}) /\ saved \in Transcript
  BY <1>1 DEF ViewInv, Together, ViewTyped
<1>3. l \in DOMAIN saved
  BY <1>2 DEF EndsWith, Transcript
<1>4. saved[l] \in Messages /\ saved[l].turn \in beside \cup {t}
  BY <1>2, <1>3 DEF EndsWith, Transcript
<1>5. text \in BOOLEAN
  OBVIOUS
<1> HIDE DEF text
<1>6. aimed \in Messages /\ aimed.turn = saved[l].turn
  BY <1>4, <1>5 DEF Messages
<1> HIDE DEF aimed
<1>7. /\ at'[t] = "stamping" /\ target'[t] = aimed
      /\ \A u \in Turns \ {t} : at'[u] = at[u] /\ target'[u] = target[u]
  BY <1>1 DEF ViewInv, ViewTyped
<1>8. \A u \in Turns : UnderWay(u)' <=> UnderWay(u)
  BY <1>1, <1>7 DEF UnderWay
<1>9. ViewTyped'
  <2>1. at' \in [Turns -> ViewPoints] /\ target' \in [Turns -> Messages \cup {0}]
    BY <1>1, <1>6 DEF ViewInv, ViewTyped, ViewPoints
  <2>2. /\ \A u \in Turns : at'[u] = "stamping" => target'[u] \in Messages
        /\ \A u \in Turns : at'[u] = "new" => hop'[u] = 0
    BY <1>1, <1>6, <1>7 DEF ViewInv, ViewTyped
  <2>3. \A u \in Turns : at'[u] = "tools" => carried'[u] # <<>> /\ Asked(u)'
    BY <1>1, <1>7 DEF ViewInv, ViewTyped, Asked
  <2> QED BY <1>1, <2>1, <2>2, <2>3 DEF ViewInv, ViewTyped, ViewPoints
<1>10. Together'
  <2>1. \A u \in Turns : at'[u] = "stamping" => target'[u].turn \in beside' \cup {u}
    BY <1>1, <1>4, <1>6, <1>7 DEF ViewInv, Together
  <2> QED BY <1>1, <1>8, <2>1 DEF ViewInv, Together
<1>11. Unheard'
  <2> SUFFICES ASSUME NEW u \in Turns, at'[u] = "new"
               PROVE  /\ Own(saved', u) = {}
                      /\ \A w \in Turns : /\ Own(carried'[w], u) = {}
                                          /\ at'[w] = "stamping" => target'[w].turn # u
    BY DEF Unheard
  <2>1. at[u] = "new"
    BY <1>7
  <2>2. /\ Own(saved, u) = {}
        /\ \A w \in Turns : Own(carried[w], u) = {} /\ (at[w] = "stamping" => target[w].turn # u)
    BY <2>1 DEF ViewInv, Unheard
  <2>3. aimed.turn # u
    BY <1>3, <1>6, <2>2 DEF Own
  <2> QED BY <1>1, <1>7, <2>2, <2>3
<1>12. ASSUME NEW u \in Turns \ beside
       PROVE  UnderWay(u)' => Progress(u)'
  <2> SUFFICES ASSUME UnderWay(u)' PROVE Progress(u)'
    OBVIOUS
  <2>1. u = t /\ carried[t] = saved /\ Progress(t) /\ UnderWay(u)
    BY <1>1, <1>8, <1>12, AloneIsAlone DEF ViewInv, Together
  <2>2. text <=> Texts(saved, t) # {}
    BY <2>1 DEF text, Texts, Asking, Own
  <2>3. text = (Texts(saved, t) # {})
    BY <1>5, <2>2
  <2>4. aimed = [saved[l] EXCEPT !.trace = t, !.text = (Texts(saved, t) # {})]
    BY <2>3 DEF aimed
  <2> QED BY <1>1, <1>7, <2>1, <2>4 DEF Progress
<1> QED BY <1>1, <1>8, <1>9, <1>10, <1>11, <1>12 DEF ViewInv

(* The message with the stamped one's id is replaced, or it is appended.      *)
Restamped(s, m) ==
    IF \E i \in DOMAIN s : Same(s[i], m)
    THEN [i \in DOMAIN s |-> IF Same(s[i], m) THEN m ELSE s[i]]
    ELSE Append(s, m)

LEMMA RestampedTyped ==
    ASSUME NEW s \in Transcript, s # <<>>, NEW m \in Messages, NEW s2, s2 = Restamped(s, m)
    PROVE  /\ s2 \in Transcript /\ s2 # <<>>
           /\ \/ /\ Len(s2) = Len(s)
                 /\ \A i \in 1..Len(s) : s2[i] = s[i] \/ (Same(s[i], m) /\ s2[i] = m)
              \/ s2 = Append(s, m)
<1> DEFINE there == \E i \in DOMAIN s : Same(s[i], m)
<1>1. Len(s) \in Nat /\ DOMAIN s = 1..Len(s) /\ Len(s) # 0
  BY DEF Transcript
<1>2. CASE there
  <2>1. \A i \in 1..Len(s) : s[i] \in Messages
    BY <1>1 DEF Transcript
  <2>2. s2 = [i \in 1..Len(s) |-> IF Same(s[i], m) THEN m ELSE s[i]]
    BY <1>1, <1>2 DEF Restamped
  <2>3. s2 \in [1..Len(s) -> Messages]
    BY <2>1, <2>2
  <2>4. s2 \in Seq(Messages) /\ Len(s2) = Len(s)
    BY <1>1, <2>3
  <2>5. s2 \in Transcript /\ s2 # <<>>
    BY <1>1, <2>4 DEF Transcript
  <2>6. \A i \in 1..Len(s) : s2[i] = s[i] \/ (Same(s[i], m) /\ s2[i] = m)
    BY <2>2
  <2> QED BY <2>4, <2>5, <2>6
<1>3. CASE ~there
  <2>1. s2 = Append(s, m)
    BY <1>3 DEF Restamped
  <2>2. Append(s, m) \in Transcript /\ Append(s, m) # <<>>
    BY AppendAdds
  <2> QED BY <2>1, <2>2
<1> QED BY <1>2, <1>3

LEMMA RestampedOthers ==
    ASSUME NEW s \in Transcript, s # <<>>, NEW m \in Messages, NEW s2 \in Transcript, s2 = Restamped(s, m)
    PROVE  /\ \A T : EndsWith(s, T) /\ m.turn \in T => EndsWith(s2, T)
           /\ \A u \in Turns : m.turn # u /\ Own(s, u) = {} => Own(s2, u) = {}
           /\ \A u \in Turns : m.turn # u /\ ~EndsWith(s, {u}) /\ Whole(s, u) => Whole(s2, u)
<1>1. /\ Len(s) \in Nat /\ DOMAIN s = 1..Len(s) /\ Len(s) \in 1..Len(s)
      /\ Len(s2) \in Nat /\ DOMAIN s2 = 1..Len(s2)
  BY DEF Transcript
<1>2. s2 # <<>>
  BY RestampedTyped
<1>3. /\ Len(s) <= Len(s2)
      /\ \A i \in 1..Len(s) : /\ s2[i].turn = s[i].turn /\ s2[i].kind = s[i].kind
                              /\ s[i].turn # m.turn => s2[i] = s[i]
      /\ \A i \in Len(s) + 1..Len(s2) : s2[i] = m
      /\ s2[Len(s2)].turn \in {s[Len(s)].turn, m.turn}
  <2>1. CASE /\ Len(s2) = Len(s)
             /\ \A i \in 1..Len(s) : s2[i] = s[i] \/ (Same(s[i], m) /\ s2[i] = m)
    <3>1. \A i \in 1..Len(s) : /\ s2[i].turn = s[i].turn /\ s2[i].kind = s[i].kind
                               /\ s[i].turn # m.turn => s2[i] = s[i]
      BY <2>1 DEF Same
    <3>2. Len(s) + 1..Len(s2) = {}
      BY <1>1, <2>1
    <3>3. s2[Len(s2)].turn = s[Len(s)].turn
      BY <1>1, <2>1, <3>1
    <3> QED BY <1>1, <2>1, <3>1, <3>2, <3>3
  <2>2. CASE s2 = Append(s, m)
    <3>1. /\ Len(s2) = Len(s) + 1 /\ \A i \in 1..Len(s) : s2[i] = s[i]
          /\ s2[Len(s) + 1] = m
      BY <2>2, AppendAdds
    <3>2. \A i \in Len(s) + 1..Len(s2) : i = Len(s) + 1
      BY <1>1, <3>1
    <3> QED BY <1>1, <3>1, <3>2
  <2> QED BY <2>1, <2>2, RestampedTyped
<1>4. \A i \in 1..Len(s2) : i \in 1..Len(s) \/ i \in Len(s) + 1..Len(s2)
  BY <1>1
<1>5. ASSUME NEW T, EndsWith(s, T), m.turn \in T
      PROVE  EndsWith(s2, T)
  BY <1>2, <1>3, <1>5 DEF EndsWith
<1>6. ASSUME NEW u \in Turns, m.turn # u, Own(s, u) = {}
      PROVE  Own(s2, u) = {}
  <2>1. \A i \in 1..Len(s) : s[i].turn # u
    BY <1>1, <1>6 DEF Own
  <2> QED BY <1>1, <1>3, <1>4, <1>6, <2>1 DEF Own
<1>7. ASSUME NEW u \in Turns, m.turn # u, ~EndsWith(s, {u}), Whole(s, u)
      PROVE  Whole(s2, u)
  <2>1. \A i \in Len(s) + 1..Len(s2) : s2[i].turn # u
    BY <1>3, <1>7
  <2>2. \A i \in 1..Len(s) : /\ s2[i].turn = s[i].turn /\ s2[i].kind = s[i].kind
                             /\ s[i].turn = u => s2[i] = s[i]
    BY <1>3, <1>7
  <2> QED BY <1>3, <1>7, <2>1, <2>2, OthersWrite
<1> QED BY <1>5, <1>6, <1>7

StampsLast(s, m, t) ==
    /\ EndsWith(s, {t}) /\ s[Len(s)].kind = "ai" /\ \A i \in Own(s, t) : s[i].trace # t
    /\ m = [s[Len(s)] EXCEPT !.trace = t, !.text = (Texts(s, t) # {})]

LEMMA RestampedOwn ==
    ASSUME NEW s \in Transcript, s # <<>>, NEW t \in Turns, NEW m \in Messages, NEW s2,
           s2 = Restamped(s, m), Whole(s, t), StampsLast(s, m, t)
    PROVE  Whole(s2, t)
<1> DEFINE l == Len(s)
<1>1. l \in Nat /\ DOMAIN s = 1..l /\ l \in 1..l
  BY DEF Transcript
<1>2. s[l] \in Messages /\ s[l].turn = t
  BY <1>1 DEF Transcript, EndsWith, StampsLast
<1>3. m \in Messages /\ m.kind = "ai" /\ m.turn = t /\ m.hop = s[l].hop
  BY <1>2 DEF Messages, StampsLast
<1> HIDE DEF l
<1>4. l \in Asking(s, t)
  BY <1>1, <1>2 DEF Asking, Own, l, StampsLast
<1>5. ASSUME NEW i \in 1..l, Same(s[i], m), i # l
      PROVE  FALSE
  <2>1. i \in Asking(s, t) /\ i < l
    BY <1>1, <1>3, <1>5 DEF Asking, Own, Same
  <2>2. s[i].hop < s[l].hop
    BY <1>4, <2>1 DEF Whole, HopsFollow
  <2>3. s[i].hop = s[l].hop /\ s[l].hop \in Nat
    BY <1>2, <1>3, <1>5 DEF Same, Messages
  <2> QED BY <2>2, <2>3
<1>6. Same(s[l], m)
  BY <1>2, <1>3 DEF Same, l, StampsLast
<1>7. s2 = [i \in 1..l |-> IF Same(s[i], m) THEN m ELSE s[i]]
  BY <1>1, <1>6 DEF Restamped
<1>8. s2[l] = m /\ \A i \in 1..l : i # l => s2[i] = s[i]
  BY <1>1, <1>5, <1>6, <1>7
<1>9. s2 \in Transcript /\ Len(s2) = l
  <2>1. \A i \in 1..l : s[i] \in Messages
    BY <1>1 DEF Transcript
  <2>2. s2 \in [1..l -> Messages]
    BY <1>3, <1>7, <2>1
  <2>3. \A n \in Nat : \A f \in [1..n -> Messages] : f \in Seq(Messages) /\ Len(f) = n
    OBVIOUS
  <2> QED BY <1>1, <2>2, <2>3 DEF Transcript
<1>10. s2[Len(s)] = m /\ Len(s2) = Len(s) /\ \A i \in 1..Len(s) : i # Len(s) => s2[i] = s[i]
  BY <1>8, <1>9 DEF l
<1> QED BY <1>9, <1>10, StampWrites DEF StampsLast

LEMMA StampStays ==
    ASSUME ViewInv, NEW t \in Turns, StampAnswer(t)
    PROVE  ViewInv'
<1>1. at[t] = "stamping" /\ UnderWay(t) /\ EndsTurn(t) /\ UNCHANGED beside
  BY DEF StampAnswer, UnderWay
<1>2. PICK s2 : s2 = saved'
  OBVIOUS
<1>3. PICK m : m = target[t]
  OBVIOUS
<1>4. /\ m \in Messages /\ m.turn \in beside \cup {t} /\ saved \in Transcript
      /\ EndsWith(saved, beside \cup {t}) /\ saved # <<>>
  BY <1>1, <1>3 DEF ViewInv, ViewTyped, Together, EndsWith
<1>5. s2 = Restamped(saved, m)
  BY <1>2, <1>3 DEF StampAnswer, Restamped
<1>6. s2 \in Transcript
  BY <1>4, <1>5, RestampedTyped
<1>7. /\ \A T : EndsWith(saved, T) /\ m.turn \in T => EndsWith(s2, T)
      /\ \A u \in Turns : m.turn # u /\ Own(saved, u) = {} => Own(s2, u) = {}
      /\ \A u \in Turns : m.turn # u /\ ~EndsWith(saved, {u}) /\ Whole(saved, u) => Whole(s2, u)
  BY <1>4, <1>5, <1>6, RestampedOthers
<1>8. ASSUME NEW u \in Turns, UnderWay(u), u # t
      PROVE  EndsWith(s2, beside \cup {u})
  <2>1. t \in beside /\ EndsWith(saved, beside \cup {u})
    BY <1>1, <1>8 DEF ViewInv, Together
  <2> QED BY <1>4, <1>7, <2>1
<1>9. ASSUME NEW u \in Turns, at[u] = "new"
      PROVE  Own(s2, u) = {}
  BY <1>1, <1>3, <1>7, <1>9 DEF ViewInv, Unheard
<1>10. ASSUME NEW u \in Turns \ beside
       PROVE  Whole(s2, u)
  <2>1. Whole(saved, u)
    BY DEF ViewInv
  <2>2. CASE u # t
    <3>1. m.turn # u /\ ~EndsWith(saved, {u})
      BY <1>4, <1>10, <2>2 DEF EndsWith
    <3> QED BY <1>7, <2>1, <3>1
  <2>3. CASE u = t
    <3>1. Progress(t)
      BY <1>1, <1>10, <2>3 DEF ViewInv
    <3>2. EndsWith(saved, {t})
      <4>1. UnderWay(t) /\ t \notin beside
        BY <1>1, <1>10, <2>3
      <4>2. carried[t] = saved /\ EndsWith(carried[t], {t})
        BY <4>1 DEF ViewInv, Together
      <4> QED BY <4>2
    <3>3. /\ saved[Len(saved)].kind = "ai" /\ \A i \in Own(saved, t) : saved[i].trace # t
          /\ m = [saved[Len(saved)] EXCEPT !.trace = t, !.text = (Texts(saved, t) # {})]
      BY <1>1, <1>3, <3>1 DEF Progress
    <3>4. StampsLast(saved, m, t) /\ Whole(saved, t)
      BY <2>1, <2>3, <3>2, <3>3 DEF StampsLast
    <3> QED BY <1>4, <1>5, <2>3, <3>4, RestampedOwn
  <2> QED BY <2>2, <2>3
<1>11. /\ saved' \in Transcript
       /\ \A u \in Turns : UnderWay(u) /\ u # t => EndsWith(saved', beside \cup {u})
       /\ \A u \in Turns : at[u] = "new" => Own(saved', u) = {}
       /\ \A u \in Turns \ beside : Whole(saved', u)
  BY <1>2, <1>6, <1>8, <1>9, <1>10
<1> QED BY <1>1, <1>11, EndStays

LEMMA ViewStepInv == ViewInv /\ [ViewNext]_viewVars => ViewInv'
<1> SUFFICES ASSUME ViewInv, [ViewNext]_viewVars PROVE ViewInv'
  OBVIOUS
<1>1. ASSUME NEW t \in Turns, FinalAnswer(t) PROVE ViewInv'
  <2> DEFINE m == Message(t, "ai", {}, TRUE)
  <2>1. Makes(t, m) /\ m.kind = "ai"
    <3>1. hop[t] \in Nat
      BY DEF ViewInv, ViewTyped
    <3> QED BY <1>1, <3>1 DEF Makes, Message, Messages
  <2>2. /\ at[t] = "model" /\ Writes(t, Append(carried[t], m), "answered")
        /\ UNCHANGED <<hop, beside>>
    BY <1>1 DEF FinalAnswer
  <2> HIDE DEF m
  <2> QED BY <2>1, <2>2, AnswerStays
<1>2. ASSUME NEW t \in Turns, AskTools(t) PROVE ViewInv'
  <2> DEFINE to == IF hop[t] = Hops THEN "answered" ELSE "tools"
  <2>1. PICK n \in 1..CallsAHop, text \in BOOLEAN :
           Writes(t, Append(carried[t], Message(t, "ai", 1..n, text)), to)
    BY <1>2 DEF AskTools
  <2> DEFINE m == Message(t, "ai", 1..n, text)
  <2>2. n \in Nat /\ 1..n \in SUBSET Nat
    BY ViewAssumption
  <2>3. Makes(t, m) /\ m.kind = "ai" /\ m.calls = 1..n
    BY <2>2, MessageMade
  <2>4. at[t] = "model" /\ UNCHANGED <<hop, beside>> /\ to \in {"tools", "answered"}
    BY <1>2 DEF AskTools
  <2>5. Writes(t, Append(carried[t], m), to)
    BY <2>1
  <2> HIDE DEF m, to
  <2> QED BY <2>2, <2>3, <2>4, <2>5, AnswerStays
<1>3. CASE UNCHANGED viewVars
  <2>1. ViewTyped'
    BY <1>3 DEF viewVars, ViewInv, ViewTyped, Asked
  <2>2. Together'
    BY <1>3 DEF viewVars, ViewInv, Together, UnderWay
  <2>3. Unheard'
    BY <1>3 DEF viewVars, ViewInv, Unheard
  <2>4. \A t \in Turns : (UnderWay(t)' <=> UnderWay(t)) /\ (Progress(t)' <=> Progress(t))
    BY <1>3 DEF viewVars, Progress, UnderWay
  <2>5. saved' = saved /\ carried' = carried /\ beside' = beside
    BY <1>3 DEF viewVars
  <2> QED BY <2>1, <2>4, <2>5, <2>2, <2>3 DEF ViewInv
<1> QED BY <1>1, <1>2, <1>3, QuestionStays, ToolsStay, LeaveStays, BreakStays, FindStays, StampStays DEF ViewNext

LEMMA LastOfIs ==
    ASSUME NEW S \in SUBSET Nat, NEW i \in S, \A j \in S : j <= i
    PROVE  LastOf(S) = i
<1>1. LastOf(S) \in S /\ \A j \in S : j <= LastOf(S)
  BY DEF LastOf
<1>2. PICK l \in S : l = LastOf(S)
  BY <1>1
<1>3. i <= l /\ l <= i /\ i \in Nat /\ l \in Nat
  BY <1>1, <1>2
<1> QED BY <1>2, <1>3

(* The run around an assistant message of a whole turn is the turn's.        *)
LEMMA RunIsTurn ==
    ASSUME saved \in Transcript, NEW t \in Turns, OneBlock(saved, t), NEW i \in Asking(saved, t)
    PROVE  RunOf(i) = Asking(saved, t)
<1>1. /\ \A j \in DOMAIN saved : j \in Nat
      /\ \A j, k \in DOMAIN saved : \A q \in j..k : q \in DOMAIN saved
  BY DEF Transcript
<1>2. /\ i \in Own(saved, t) /\ i \in DOMAIN saved /\ saved[i].kind = "ai" /\ i \in Nat
      /\ \A j \in Own(saved, t) : j \in DOMAIN saved /\ j \in Nat
  BY <1>1 DEF Asking, Own
<1>3. ASSUME NEW j \in Asking(saved, t), NEW q \in Questions
      PROVE  ~(i < q /\ q < j) /\ ~(j < q /\ q < i)
  <2>1. j \in Own(saved, t) /\ j \in Nat /\ q \in Nat /\ saved[q].kind = "human"
    BY <1>1, <1>2 DEF Asking, Questions
  <2>2. ASSUME i < q, q < j PROVE FALSE
    <3>1. q \in i..j
      BY <1>2, <2>1, <2>2
    <3>2. q \in Own(saved, t)
      BY <1>2, <2>1, <3>1 DEF OneBlock
    <3> QED BY <1>2, <2>1, <2>2, <3>2 DEF OneBlock
  <2>3. ASSUME j < q, q < i PROVE FALSE
    <3>1. q \in j..i
      BY <1>2, <2>1, <2>3
    <3>2. q \in Own(saved, t)
      BY <1>2, <2>1, <3>1 DEF OneBlock
    <3> QED BY <2>1, <2>3, <3>2 DEF OneBlock
  <2> QED BY <2>2, <2>3
<1>4. ASSUME NEW j \in Assistants, j \notin Own(saved, t),
             \A q \in Questions : ~(i < q /\ q < j) /\ ~(j < q /\ q < i)
      PROVE  FALSE
  <2>1. j \in DOMAIN saved /\ j \in Nat /\ saved[j].kind = "ai" /\ i # j
    BY <1>1, <1>2, <1>4 DEF Assistants
  <2>2. CASE i < j
    <3>1. PICK q \in i + 1..j : saved[q].kind = "human"
      BY <1>2, <1>4, <2>1, <2>2 DEF OneBlock
    <3>2. q \in i..j /\ q # j
      BY <1>2, <2>1, <3>1
    <3>3. q \in Questions
      <4>1. q \in DOMAIN saved
        BY <1>1, <1>2, <2>1, <3>2
      <4> QED BY <3>1, <4>1 DEF Questions
    <3> QED BY <1>2, <1>4, <2>1, <3>1, <3>2, <3>3
  <2>3. CASE j < i
    <3>1. PICK h \in Own(saved, t) : saved[h].kind = "human"
      BY <1>2 DEF OneBlock
    <3>2. h \in Nat /\ h \in Questions /\ h # i /\ h # j /\ ~(i < h)
      BY <1>2, <2>1, <3>1 DEF OneBlock, Questions
    <3>3. ~(h < j)
      <4>1. h < j => j \in h..i
        BY <1>2, <2>1, <2>3, <3>2
      <4> QED BY <1>2, <1>4, <4>1 DEF OneBlock
    <3>4. j < h /\ h < i
      BY <1>2, <2>1, <3>2, <3>3
    <3> QED BY <1>4, <3>2, <3>4
  <2> QED BY <1>2, <2>1, <2>2, <2>3
<1>5. \A j \in Asking(saved, t) : j \in Assistants
  BY DEF Asking, Own, Assistants
<1>6. \A j \in RunOf(i) : j \in Assistants /\ j \in Own(saved, t) /\ j \in Asking(saved, t)
  BY <1>4 DEF RunOf, Asking, Assistants
<1>7. \A j \in Asking(saved, t) : j \in RunOf(i)
  BY <1>3, <1>5 DEF RunOf
<1> QED BY <1>6, <1>7

LEMMA RunsMeet ==
    ASSUME NEW i \in Assistants, NEW j \in RunOf(i)
    PROVE  j \in Assistants /\ i \in RunOf(j)
BY DEF RunOf

(* What is shown of it: each output under the message that asked for it.     *)
LEMMA OutputsOnce ==
    ASSUME saved \in Transcript, NEW t \in Turns, HopsFollow(saved, t), NEW shown,
           shown = UNION {{i} \X OutputsOf(i) : i \in Asking(saved, t)}
    PROVE  /\ {p[2] : p \in shown} = {j \in Outputs : saved[j].turn = t}
           /\ \A p, q \in shown : p[2] = q[2] => p = q
           /\ \A p, q \in shown : p[1] < q[1] => p[2] < q[2]
<1>1. \A i \in DOMAIN saved : i \in Nat /\ saved[i].hop \in Nat
  <2>1. \A i \in DOMAIN saved : saved[i] \in Messages /\ i \in Nat
    BY DEF Transcript
  <2> QED BY <2>1 DEF Messages
<1>2. \A i \in Asking(saved, t) : i \in Own(saved, t) /\ i \in DOMAIN saved /\ saved[i].turn = t
  BY DEF Asking, Own
<1>3. ASSUME NEW p \in shown
      PROVE  /\ p = <<p[1], p[2]>> /\ p[1] \in Asking(saved, t) /\ p[2] \in Outputs
             /\ saved[p[2]].turn = t /\ saved[p[2]].hop = saved[p[1]].hop
             /\ p[2] \in Own(saved, t)
  <2>1. PICK i \in Asking(saved, t) : p \in {i} \X OutputsOf(i)
    OBVIOUS
  <2>2. p = <<i, p[2]>> /\ p[1] = i /\ p[2] \in OutputsOf(i)
    BY <2>1
  <2>3. /\ p[2] \in Outputs /\ saved[p[2]].turn = saved[i].turn
        /\ saved[p[2]].hop = saved[i].hop
    BY <2>2 DEF OutputsOf
  <2> QED BY <1>2, <2>2, <2>3 DEF Own, Outputs
<1>4. ASSUME NEW j \in Outputs, saved[j].turn = t
      PROVE  \E p \in shown : p[2] = j
  <2>1. j \in Own(saved, t) /\ saved[j].kind = "tool"
    BY <1>4 DEF Outputs, Own
  <2>2. PICK i \in Asking(saved, t) : /\ saved[i].hop = saved[j].hop
                                      /\ saved[i].calls \cap saved[j].calls # {}
    BY <2>1 DEF HopsFollow
  <2>3. j \in OutputsOf(i)
    BY <1>2, <1>4, <2>2 DEF OutputsOf
  <2>4. <<i, j>> \in {i} \X OutputsOf(i)
    BY <2>3
  <2>5. <<i, j>> \in shown /\ <<i, j>>[2] = j
    BY <2>4
  <2> QED BY <2>5
<1>5. ASSUME NEW p \in shown, NEW q \in shown, p[2] = q[2]
      PROVE  p = q
  <2>1. /\ p[1] \in Asking(saved, t) /\ q[1] \in Asking(saved, t)
        /\ saved[p[1]].hop = saved[q[1]].hop /\ saved[p[1]].hop \in Nat
        /\ p[1] \in Nat /\ q[1] \in Nat
    BY <1>1, <1>2, <1>3, <1>5
  <2>2. ~(p[1] < q[1]) /\ ~(q[1] < p[1])
    BY <2>1 DEF HopsFollow
  <2>3. p[1] = q[1]
    BY <2>1, <2>2
  <2> QED BY <1>3, <1>5, <2>3
<1>6. ASSUME NEW p \in shown, NEW q \in shown, p[1] < q[1]
      PROVE  p[2] < q[2]
  <2>1. /\ p[1] \in Asking(saved, t) /\ q[1] \in Asking(saved, t)
        /\ p[2] \in Own(saved, t) /\ q[2] \in Own(saved, t)
        /\ saved[p[2]].hop = saved[p[1]].hop /\ saved[q[2]].hop = saved[q[1]].hop
    BY <1>3
  <2>2. p[2] \in Nat /\ q[2] \in Nat /\ saved[p[2]].hop \in Nat /\ saved[q[2]].hop \in Nat
    BY <1>1, <2>1 DEF Own
  <2>3. saved[p[2]].hop < saved[q[2]].hop
    BY <1>6, <2>1 DEF HopsFollow
  <2>4. ~(q[2] < p[2]) /\ p[2] # q[2]
    BY <2>1, <2>2, <2>3 DEF HopsFollow
  <2> QED BY <2>2, <2>4
<1>7. \A j : j \in {p[2] : p \in shown} <=> j \in {k \in Outputs : saved[k].turn = t}
  BY <1>3, <1>4
<1> QED BY <1>5, <1>6, <1>7

(* The message a whole turn's bubble is named after.                         *)
LEMMA AnswerIsShown ==
    ASSUME saved \in Transcript, NEW t \in Turns, Whole(saved, t), Asking(saved, t) # {},
           NEW answer,
           answer = LastOf(IF Texts(saved, t) = {} THEN Asking(saved, t) ELSE Texts(saved, t))
    PROVE  /\ answer \in Asking(saved, t)
           /\ \A i \in Own(saved, t) : saved[i].trace = t => i = answer
           /\ saved[QuestionOf(answer)].turn = t
<1>1. /\ Own(saved, t) \subseteq DOMAIN saved /\ DOMAIN saved \subseteq Nat
      /\ Asking(saved, t) \subseteq Own(saved, t) /\ Texts(saved, t) \subseteq Asking(saved, t)
  BY DEF Own, Asking, Texts, Transcript
<1>2. /\ \E i \in Asking(saved, t) : \A j \in Asking(saved, t) : j <= i
      /\ Texts(saved, t) # {} => \E i \in Texts(saved, t) : \A j \in Texts(saved, t) : j <= i
      /\ \A i \in Own(saved, t) : saved[i].trace = t =>
            /\ i \in Asking(saved, t) /\ \A j \in Asking(saved, t) : j <= i
            /\ saved[i].text \/ Texts(saved, t) = {}
  BY DEF Whole, StampIsLast
<1>3. answer \in Asking(saved, t)
  <2>1. CASE Texts(saved, t) = {}
    <3>1. PICK i \in Asking(saved, t) : \A j \in Asking(saved, t) : j <= i
      BY <1>2
    <3>2. Asking(saved, t) \in SUBSET Nat
      BY <1>1
    <3> QED BY <2>1, <3>1, <3>2, LastOfIs
  <2>2. CASE Texts(saved, t) # {}
    <3>1. PICK i \in Texts(saved, t) : \A j \in Texts(saved, t) : j <= i
      BY <1>2, <2>2
    <3>2. Texts(saved, t) \in SUBSET Nat
      BY <1>1
    <3> QED BY <1>1, <2>2, <3>1, <3>2, LastOfIs
  <2> QED BY <2>1, <2>2
<1>4. ASSUME NEW i \in Own(saved, t), saved[i].trace = t
      PROVE  i = answer
  <2>1. /\ i \in Asking(saved, t) /\ \A j \in Asking(saved, t) : j <= i
        /\ saved[i].text \/ Texts(saved, t) = {}
    BY <1>2, <1>4
  <2>2. CASE Texts(saved, t) = {}
    <3>1. Asking(saved, t) \in SUBSET Nat
      BY <1>1
    <3> QED BY <2>1, <2>2, <3>1, LastOfIs
  <2>3. CASE Texts(saved, t) # {}
    <3>1. Texts(saved, t) \in SUBSET Nat /\ i \in Texts(saved, t)
      BY <1>1, <2>1, <2>3 DEF Texts
    <3>2. \A j \in Texts(saved, t) : j <= i
      BY <1>1, <2>1
    <3> QED BY <2>3, <3>1, <3>2, LastOfIs
  <2> QED BY <2>2, <2>3
<1>5. saved[QuestionOf(answer)].turn = t
  <2>1. PICK h \in Own(saved, t) : saved[h].kind = "human"
    BY <1>1, <1>3 DEF Whole, OneBlock
  <2>2. saved[answer].kind = "ai" /\ answer \in Own(saved, t) /\ answer \in Nat
    BY <1>1, <1>3 DEF Asking
  <2>3. h \in Nat /\ h < answer
    <3>1. h \in Nat /\ ~(answer < h) /\ h # answer
      BY <1>1, <2>1, <2>2 DEF Whole, OneBlock
    <3> QED BY <2>2, <3>1
  <2> DEFINE before == {q \in Questions : q < answer}
  <2>4. before \in SUBSET Nat /\ h \in before
    BY <1>1, <2>1, <2>3 DEF Questions
  <2>5. ASSUME NEW q \in before PROVE q <= h
    <3>1. q \in Nat /\ saved[q].kind = "human" /\ q < answer
      BY <1>1 DEF Questions
    <3>2. ASSUME h < q PROVE FALSE
      <4>1. q \in h..answer
        BY <2>2, <2>3, <3>1, <3>2
      <4>2. q \in Own(saved, t)
        BY <2>2, <4>1 DEF Whole, OneBlock
      <4> QED BY <3>1, <3>2, <4>2 DEF Whole, OneBlock
    <3> QED BY <2>3, <3>1, <3>2
  <2> HIDE DEF before
  <2>6. LastOf(before) = h
    BY <2>4, <2>5, LastOfIs
  <2> QED BY <2>1, <2>6 DEF QuestionOf, before, Own
<1> QED BY <1>3, <1>4, <1>5

LEMMA BubbleOfTurn == ViewInv => OneBubblePerTurn
<1> SUFFICES ASSUME ViewInv, NEW t \in Turns \ beside,
                    \E i \in Assistants : saved[i].turn = t
             PROVE  \E bubble \in SessionView :
                       /\ \A other \in SessionView : t \in other.turns => other = bubble
                       /\ bubble.turns = {t}
                       /\ {p[2] : p \in bubble.outputs} = {j \in Outputs : saved[j].turn = t}
                       /\ \A p, q \in bubble.outputs : p[2] = q[2] => p = q
                       /\ \A p, q \in bubble.outputs : p[1] < q[1] => p[2] < q[2]
                       /\ (\E i \in DOMAIN saved : saved[i].turn = t /\ saved[i].trace = t) =>
                             bubble.trace = t
                       /\ saved[QuestionOf(bubble.id)].turn = t
  BY DEF OneBubblePerTurn
<1>1. saved \in Transcript /\ Whole(saved, t)
  BY DEF ViewInv, ViewTyped
<1>2. PICK i \in Assistants : saved[i].turn = t
  OBVIOUS
<1> DEFINE asking == Asking(saved, t)
           bubble == Flush(asking)
           shown == UNION {{k} \X OutputsOf(k) : k \in asking}
           answer == LastOf(IF Texts(saved, t) = {} THEN asking ELSE Texts(saved, t))
<1>3. i \in asking
  BY <1>2 DEF Asking, Own, Assistants
<1>4. \A k \in asking : RunOf(k) = asking /\ k \in Assistants /\ saved[k].turn = t
  BY <1>1, RunIsTurn DEF Whole, Asking, Own, Assistants
<1>5. bubble \in SessionView
  BY <1>3, <1>4 DEF SessionView
<1>6. /\ bubble.id = answer /\ bubble.trace = saved[answer].trace
      /\ bubble.turns = {saved[k].turn : k \in asking} /\ bubble.outputs = shown
  BY DEF Flush, Texts
<1>7. /\ {p[2] : p \in shown} = {j \in Outputs : saved[j].turn = t}
      /\ \A p, q \in shown : p[2] = q[2] => p = q
      /\ \A p, q \in shown : p[1] < q[1] => p[2] < q[2]
  BY <1>1, OutputsOnce DEF Whole
<1>8. /\ answer \in asking
      /\ \A k \in Own(saved, t) : saved[k].trace = t => k = answer
      /\ saved[QuestionOf(answer)].turn = t
  BY <1>1, <1>3, AnswerIsShown
<1> HIDE DEF answer, shown
<1>9. ASSUME NEW other \in SessionView, t \in other.turns
      PROVE  other = bubble
  <2>1. PICK k \in Assistants : other = Flush(RunOf(k))
    BY DEF SessionView
  <2>2. other.turns = {saved[j].turn : j \in RunOf(k)}
    BY <2>1 DEF Flush
  <2>3. PICK j \in RunOf(k) : saved[j].turn = t
    BY <1>9, <2>2
  <2>4. j \in Assistants /\ k \in RunOf(j)
    BY RunsMeet
  <2>5. j \in asking
    BY <2>3, <2>4 DEF Asking, Own, Assistants
  <2>6. k \in asking
    BY <1>4, <2>4, <2>5
  <2> QED BY <1>4, <2>1, <2>6
<1>10. bubble.turns = {t}
  BY <1>3, <1>4, <1>6
<1>11. ASSUME NEW k \in DOMAIN saved, saved[k].turn = t, saved[k].trace = t
       PROVE  bubble.trace = t
  BY <1>6, <1>8, <1>11 DEF Own
<1> HIDE DEF bubble, asking
<1> QED BY <1>5, <1>6, <1>7, <1>8, <1>9, <1>10, <1>11

-----------------------------------------------------------------------------
(* The whole                                                                *)

LEMMA OnePartMoves ==
    ASSUME [ChatNext]_chatVars
    PROVE  [Next]_vars /\ [RouterNext]_routerVars /\ [ViewNext]_viewVars
BY DEF ChatNext, TurnStep, ViewStep, RouterStep, chatVars

(* What the turns remember of their calls and of the transcript, and what the *)
(* queries find built of the router's banks, holds throughout.              *)
THEOREM ChatInvariant == ChatSpec => [](TurnsInv /\ RouterInv)
<1>1. ChatInit => TurnsInv /\ RouterInv
  <2> SUFFICES ASSUME ChatInit PROVE TurnsInv /\ RouterInv
    OBVIOUS
  <2>1. NoThread \in Transcripts /\ NoThread.dangling = FALSE
    BY DEF NoThread, Transcripts
  <2>2. TurnTyped
    BY <2>1 DEF ChatInit, Init, TurnTyped, Points
  <2>3. OnceInv /\ ClosedInv
    BY <2>1 DEF ChatInit, Init, OnceInv, SideEffectsRunOnce, ClosedInv, Running
  <2>4. RouterInv
    BY RouterAssumption DEF ChatInit, RouterInit, RouterInv, RouterTyped, BanksAreWhole, Stages, Banks
  <2> QED BY <2>2, <2>3, <2>4 DEF TurnsInv
<1>2. TurnsInv /\ RouterInv /\ [ChatNext]_chatVars => (TurnsInv /\ RouterInv)'
  BY OnePartMoves, TurnsStepInv, RouterStepInv
<1> QED BY <1>1, <1>2, PTL DEF ChatSpec

(* A turn is in a round of its loop that is left to it, with calls to answer, *)
(* and call_lock is held by the one turn that reconnects, and by no other.  *)
THEOREM LoopInvariant == ChatSpec => []LoopInv
<1>1. ChatInit => LoopInv
  <2> SUFFICES ASSUME ChatInit PROVE LoopInv
    OBVIOUS
  <2>1. <<>> \in Seq(Tools \cup {Ghost}) /\ Len(<<>>) <= MaxCalls /\ 0 \in 0..MaxIterations
    BY ToolsAssumption
  <2>2. \A t \in Turns : TurnLoop(t)
    BY <2>1 DEF ChatInit, Init, TurnLoop, Invoked
  <2>3. LocksAreHeld
    BY ToolsAssumption DEF ChatInit, Init, LocksAreHeld, Reconnecting
  <2> QED BY <2>2, <2>3 DEF ChatInit, Init, LoopInv
<1>2. TurnsInv /\ LoopInv /\ [ChatNext]_chatVars => LoopInv'
  <2> SUFFICES ASSUME TurnsInv, LoopInv, [ChatNext]_chatVars PROVE LoopInv'
    OBVIOUS
  <2>1. CASE Next
    BY <2>1, LoopStep DEF Next, TurnsInv
  <2>2. CASE UNCHANGED vars
    BY <2>2 DEF vars, manager, loop, LoopInv, TurnLoop, LocksAreHeld
  <2> QED BY <2>1, <2>2, OnePartMoves
<1> QED BY <1>1, <1>2, ChatInvariant, PTL DEF ChatSpec

(* The parts of a turn keep their types: a turn never counts more rounds than *)
(* the graph's limit, and only calls of side-effect tools are cached.       *)
THEOREM TurnsAreTyped == ChatSpec => []TypeOK
<1>1. TurnsInv /\ LoopInv => TypeOK
  BY DEF TurnsInv, TurnTyped, LoopInv, TurnLoop, LocksAreHeld, TypeOK
<1> QED BY <1>1, ChatInvariant, LoopInvariant, PTL

(* The safety half of TurnEnds: however tools fail and sessions reconnect, a  *)
(* step of a turn leaves it fewer to take, and no step of another turn or of *)
(* a client gives a running turn more: no turn goes round for ever.          *)
THEOREM TurnsWindDown == ChatSpec => [][WindsDown]_vars
<1>1. TurnsInv /\ LoopInv /\ [ChatNext]_chatVars => [WindsDown]_vars
  <2> SUFFICES ASSUME TurnsInv, LoopInv, Next PROVE WindsDown
    BY OnePartMoves
  <2> QED BY TurnsWind DEF Next, TurnsInv
<1> QED BY <1>1, ChatInvariant, LoopInvariant, PTL DEF ChatSpec

(* Whatever the model repeats and whatever breaks, the server runs a         *)
(* side-effect call at most once a turn.                                    *)
THEOREM CallsRunOnce == ChatSpec => []SideEffectsRunOnce
<1>1. TurnsInv => SideEffectsRunOnce
  BY DEF TurnsInv, OnceInv
<1> QED BY <1>1, ChatInvariant, PTL

(* Between turns no call of the transcript is unanswered, unless a turn was  *)
(* cut short or ran beside another.                                         *)
THEOREM TranscriptsAreClosed == ChatSpec => []TranscriptIsClosed
<1>1. TurnsInv => TranscriptIsClosed
  BY DEF TurnsInv, ClosedInv, TranscriptIsClosed, Running
<1> QED BY <1>1, ChatInvariant, PTL

(* A query is never compared with half the banks, and no lock outlives its   *)
(* holder, however queries fail and are given up.                           *)
THEOREM BanksAreAlwaysWhole == ChatSpec => []BanksAreWhole
<1>1. RouterInv => BanksAreWhole
  BY DEF RouterInv
<1> QED BY <1>1, ChatInvariant, PTL

(* What the checkpointer has of a turn that ran beside no other is one block  *)
(* of messages, its hops in order and its stamp on its last answer.         *)
THEOREM ViewInvariant == ChatSpec => []ViewInv
<1>1. ChatInit => ViewInv
  <2> SUFFICES ASSUME ChatInit PROVE ViewInv
    OBVIOUS
  <2>1. ViewInit
    BY DEF ChatInit
  <2>2. <<>> \in Transcript /\ \A t \in Turns : Own(<<>>, t) = {}
    BY DEF Transcript, Own
  <2>3. ViewTyped
    BY <2>1, <2>2 DEF ViewInit, ViewTyped
  <2>4. \A t \in Turns : ~UnderWay(t) /\ at[t] # "stamping"
    BY <2>1 DEF ViewInit, UnderWay
  <2>5. Together
    BY <2>4 DEF Together
  <2>6. Unheard
    BY <2>1, <2>2, <2>4 DEF Unheard, ViewInit
  <2>7. \A t \in Turns : Whole(saved, t)
    BY <2>1, <2>2 DEF ViewInit, Whole, OneBlock, HopsFollow, StampIsLast, Asking, Texts
  <2> QED BY <2>3, <2>4, <2>5, <2>6, <2>7 DEF ViewInv
<1>2. ViewInv /\ [ChatNext]_chatVars => ViewInv'
  BY OnePartMoves, ViewStepInv
<1> QED BY <1>1, <1>2, PTL DEF ChatSpec

(* The console shows a turn that ran beside no other as exactly one bubble,   *)
(* with each of its outputs once, in order, its trace and its question,      *)
(* however many hops it took, whichever had text and wherever it was left.  *)
THEOREM BubblesAreTurns == ChatSpec => []OneBubblePerTurn
<1> QED BY ViewInvariant, BubbleOfTurn, PTL

-----------------------------------------------------------------------------
(* The sessions of the tool server                                          *)

ToolCalls == [name : Names \cup {"none"}, arg : Phones \cup Loans \cup {Nothing}]

(* The argument of a call is what its tool works on.                        *)
CallTyped(c) ==
    /\ tool[c].name = "generate_otp" => tool[c].arg \in Phones
    /\ tool[c].name = "select_loan" => tool[c].arg \in Loans
    /\ point[c] = "set_phone" => tool[c].name = "generate_otp"
    /\ point[c] \in {"check", "validated", "set_login"} =>
          tool[c].name = "validate_otp" /\ tool[c].arg \in Phones
    /\ point[c] \in {"select", "set_loan"} => tool[c].name = "select_loan"

McpTyped ==
    /\ McpTypeOK
    /\ overlap \in BOOLEAN /\ relogin \in BOOLEAN
    /\ tool \in [Calls -> ToolCalls]
    /\ \A c \in Calls : CallTyped(c)

(* A call that runs alone has the blob as it is.                             *)
Holding == {"touched", "set_phone", "set_login", "set_loan", "fetch"}

Alone ==
    ~overlap =>
        /\ \A c, d \in Calls : point[c] # "idle" /\ point[d] # "idle" => c = d
        /\ \A c \in Calls : point[c] \in Holding => read[c] = session

(* The loan a call is about to make active is still the customer's.         *)
Selecting == {"select", "set_loan"}

SelectionIsOwners ==
    ~overlap /\ ~relogin =>
        \A c \in Calls : point[c] \in Selecting => tool[c].arg \in Known(session)

McpInv == McpTyped /\ Alone /\ SelectionIsOwners /\ LoginIsKept /\ LoanIsOwners

LEMMA McpStarts ==
    ASSUME McpInit
    PROVE  McpInv
<1>1. Empty \in Blobs /\ Idle \in ToolCalls
  BY DEF Empty, Blobs, Idle, ToolCalls
<1>2. McpTypeOK
  BY <1>1 DEF McpInit, McpTypeOK, Places
<1>3. McpTyped
  BY <1>1, <1>2 DEF McpInit, McpTyped, CallTyped, Idle
<1>4. Alone /\ SelectionIsOwners
  BY DEF McpInit, Alone, SelectionIsOwners, Holding, Selecting
<1>5. LoginIsKept /\ LoanIsOwners
  BY LoansAssumption DEF McpInit, LoginIsKept, LoanIsOwners, OwnLoan, Empty
<1> QED BY <1>3, <1>4, <1>5 DEF McpInv

(* What the end of a call, and a move within it, do to the slots.           *)
LEMMA CallEnds ==
    ASSUME McpTyped, NEW c \in Calls, Finishes(c)
    PROVE  /\ point'[c] = "idle"
           /\ \A d \in Calls \ {c} : point'[d] = point[d] /\ tool'[d] = tool[d] /\ read'[d] = read[d]
           /\ point' \in [Calls -> Places] /\ tool' \in [Calls -> ToolCalls]
           /\ read' \in [Calls -> Blobs]
           /\ \A d \in Calls : CallTyped(d)'
<1>1. Empty \in Blobs /\ Idle \in ToolCalls /\ "idle" \in Places
  BY DEF Empty, Blobs, Idle, ToolCalls, Places
<1>2. /\ point' = [point EXCEPT ![c] = "idle"] /\ tool' = [tool EXCEPT ![c] = Idle]
      /\ read' = [read EXCEPT ![c] = Empty]
  BY DEF Finishes, Moves, Forgotten
<1>3. /\ point' \in [Calls -> Places] /\ tool' \in [Calls -> ToolCalls]
      /\ read' \in [Calls -> Blobs]
  BY <1>1, <1>2 DEF McpTyped, McpTypeOK
<1>4. point'[c] = "idle" /\ tool'[c] = Idle
  BY <1>2 DEF McpTyped, McpTypeOK
<1>5. \A d \in Calls \ {c} : point'[d] = point[d] /\ tool'[d] = tool[d] /\ read'[d] = read[d]
  BY <1>2 DEF McpTyped, McpTypeOK
<1>6. CallTyped(c)'
  BY <1>4 DEF CallTyped, Idle
<1>7. \A d \in Calls \ {c} : CallTyped(d)'
  BY <1>5 DEF McpTyped, CallTyped
<1> QED BY <1>3, <1>4, <1>5, <1>6, <1>7

LEMMA CallMoves ==
    ASSUME McpTyped, NEW c \in Calls, NEW to \in Places, Moves(c, to)
    PROVE  /\ point'[c] = to /\ \A d \in Calls \ {c} : point'[d] = point[d]
           /\ point' \in [Calls -> Places]
BY DEF McpTyped, McpTypeOK, Moves

LEMMA CallReads ==
    ASSUME McpTyped, NEW c \in Calls, NEW blob \in Blobs, read' = [read EXCEPT ![c] = blob]
    PROVE  /\ read'[c] = blob /\ \A d \in Calls \ {c} : read'[d] = read[d]
           /\ read' \in [Calls -> Blobs]
BY DEF McpTyped, McpTypeOK

(* A step of a call disturbs no other: it is enough to look at the call.    *)
LEMMA OnlyThisCall ==
    ASSUME McpInv, NEW c \in Calls, point[c] # "idle",
           \A d \in Calls \ {c} : point'[d] = point[d],
           overlap' = overlap, relogin => relogin',
           overlap \/ (point'[c] \in Holding => read'[c] = session'),
           overlap \/ relogin' \/ (point'[c] \in Selecting => tool'[c].arg \in Known(session)')
    PROVE  Alone' /\ SelectionIsOwners'
<1> SUFFICES ASSUME ~overlap PROVE Alone' /\ SelectionIsOwners'
  BY DEF Alone, SelectionIsOwners
<1>1. \A d \in Calls \ {c} : point'[d] = "idle"
  BY DEF McpInv, Alone
<1>2. Alone'
  BY <1>1 DEF Alone, Holding
<1>3. SelectionIsOwners'
  BY <1>1 DEF SelectionIsOwners, Selecting
<1> QED BY <1>2, <1>3

(* A step that leaves the session, the links and the history as they are.    *)
LEMMA QuietStep ==
    ASSUME McpInv, NEW c \in Calls, point[c] # "idle", UNCHANGED <<session, link, mcpHistory>>,
           McpTyped', \A d \in Calls \ {c} : point'[d] = point[d],
           overlap \/ (point'[c] \in Holding => read'[c] = session),
           overlap \/ relogin \/ (point'[c] \in Selecting => tool'[c].arg \in Known(session))
    PROVE  McpInv'
<1>1. session' = session /\ link' = link /\ login' = login /\ overlap' = overlap /\ relogin' = relogin
  BY DEF mcpHistory
<1>2. Alone' /\ SelectionIsOwners'
  <2>1. Known(session)' = Known(session)
    BY <1>1 DEF Known
  <2> QED BY <1>1, <2>1, OnlyThisCall
<1>3. LoginIsKept' /\ LoanIsOwners'
  BY <1>1 DEF McpInv, LoginIsKept, LoanIsOwners, OwnLoan, Known
<1> QED BY <1>2, <1>3 DEF McpInv

(* A call that ends and leaves everything else as it is.                    *)
LEMMA QuietEnd ==
    ASSUME McpInv, NEW c \in Calls, point[c] # "idle", Finishes(c),
           UNCHANGED <<session, link, mcpHistory>>
    PROVE  McpInv'
<1>1. McpTyped'
  BY CallEnds DEF McpInv, McpTyped, McpTypeOK, mcpHistory
<1>2. \A d \in Calls \ {c} : point'[d] = point[d]
  BY CallEnds DEF McpInv
<1>3. point'[c] \notin Holding \cup Selecting
  BY CallEnds DEF McpInv, Holding, Selecting
<1> QED BY <1>1, <1>2, <1>3, QuietStep

LEMMA BeginStays ==
    ASSUME McpInv, NEW c \in Calls, Begin(c)
    PROVE  McpInv'
<1>1. UNCHANGED <<session, link, login, relogin>> /\ point[c] = "idle" /\ overlap' \in BOOLEAN
  BY DEF McpInv, McpTyped, Begin, Overlapped
<1>2. point'[c] = "touched" /\ \A d \in Calls \ {c} : point'[d] = point[d]
  BY CallMoves DEF McpInv, Begin, Places
<1>3. read'[c] = session /\ \A d \in Calls \ {c} : read'[d] = read[d]
  BY CallReads DEF McpInv, McpTyped, McpTypeOK, Begin, Reads
<1>4. point' \in [Calls -> Places] /\ read' \in [Calls -> Blobs]
  BY CallMoves, CallReads DEF McpInv, McpTyped, McpTypeOK, Begin, Reads, Places
<1>5. PICK name \in Names, arg \in Phones \cup Loans \cup {Nothing} :
         /\ name = "generate_otp" => arg \in Phones
         /\ name = "select_loan" => arg \in Loans
         /\ tool' = [tool EXCEPT ![c] = [name |-> name, arg |-> arg]]
  BY DEF Begin
<1>6. tool' \in [Calls -> ToolCalls] /\ tool'[c] = [name |-> name, arg |-> arg]
      /\ \A d \in Calls \ {c} : tool'[d] = tool[d]
  <2>1. [name |-> name, arg |-> arg] \in ToolCalls
    BY DEF ToolCalls
  <2> QED BY <1>5, <2>1 DEF McpInv, McpTyped
<1>7. CallTyped(c)'
  BY <1>2, <1>5, <1>6 DEF CallTyped
<1>8. \A d \in Calls \ {c} : CallTyped(d)'
  BY <1>2, <1>6 DEF McpInv, McpTyped, CallTyped
<1>9. McpTyped'
  BY <1>1, <1>4, <1>6, <1>7, <1>8 DEF McpInv, McpTyped, McpTypeOK
<1>10. ~overlap' => ~overlap /\ \A d \in Calls \ {c} : point[d] = "idle"
  BY DEF Begin, Overlapped, McpInv, McpTyped
<1>11. Alone'
  BY <1>1, <1>2, <1>3, <1>10 DEF McpInv, Alone, Holding
<1>12. SelectionIsOwners'
  BY <1>2, <1>10 DEF SelectionIsOwners, Selecting
<1>13. LoginIsKept' /\ LoanIsOwners'
  BY <1>1, <1>10 DEF McpInv, LoginIsKept, LoanIsOwners, OwnLoan, Known
<1> QED BY <1>9, <1>11, <1>12, <1>13 DEF McpInv

LEMMA TouchWriteStays ==
    ASSUME McpInv, NEW c \in Calls, TouchWrite(c)
    PROVE  McpInv'
<1>1. point[c] = "touched" /\ session' = read[c] /\ UNCHANGED <<tool, link, mcpHistory>>
  BY DEF TouchWrite
<1>2. /\ point'[c] = "run" /\ \A d \in Calls \ {c} : point'[d] = point[d]
      /\ point' \in [Calls -> Places]
  BY CallMoves DEF McpInv, TouchWrite, Places
<1>3. read' \in [Calls -> Blobs] /\ session' \in Blobs
  <2>1. Empty \in Blobs
    BY DEF Empty, Blobs
  <2> QED BY <1>1, <2>1, CallReads DEF McpInv, McpTyped, McpTypeOK, TouchWrite, Forgotten
<1>4. \A d \in Calls : CallTyped(d)'
  BY <1>1, <1>2 DEF McpInv, McpTyped, CallTyped
<1>5. McpTyped'
  BY <1>1, <1>2, <1>3, <1>4 DEF McpInv, McpTyped, McpTypeOK, mcpHistory
<1>6. ~overlap => session' = session
  BY <1>1 DEF McpInv, Alone, Holding
<1>7. Alone' /\ SelectionIsOwners'
  <2>1. overlap' = overlap /\ relogin' = relogin
    BY <1>1 DEF mcpHistory
  <2>2. point'[c] \notin Holding \cup Selecting
    BY <1>2 DEF Holding, Selecting
  <2> QED BY <1>1, <1>2, <2>1, <2>2, OnlyThisCall
<1>8. LoginIsKept' /\ LoanIsOwners'
  BY <1>1, <1>6 DEF McpInv, LoginIsKept, LoanIsOwners, OwnLoan, Known, mcpHistory
<1> QED BY <1>5, <1>7, <1>8 DEF McpInv

LEMMA UpdateReadStays ==
    ASSUME McpInv, NEW c \in Calls, UpdateRead(c)
    PROVE  McpInv'
<1>1. UNCHANGED <<session, tool, link, mcpHistory>>
  BY DEF UpdateRead
<1>2. PICK to \in {"set_phone", "set_login", "set_loan"} :
         /\ Moves(c, to) /\ point[c] # "idle"
         /\ to = "set_phone" => tool[c].name = "generate_otp"
         /\ to = "set_login" => point[c] = "validated"
         /\ to = "set_loan" => point[c] = "select"
  BY DEF UpdateRead, At
<1>3. /\ point'[c] = to /\ \A d \in Calls \ {c} : point'[d] = point[d]
      /\ point' \in [Calls -> Places]
  BY <1>2, CallMoves DEF McpInv, Places
<1>4. read'[c] = session /\ read' \in [Calls -> Blobs]
  BY CallReads DEF McpInv, McpTyped, McpTypeOK, UpdateRead, Reads
<1>5. CallTyped(c)
  BY DEF McpInv, McpTyped
<1>6. CallTyped(c)'
  BY <1>1, <1>2, <1>3, <1>5 DEF CallTyped
<1>7. \A d \in Calls \ {c} : CallTyped(d)'
  BY <1>1, <1>3 DEF McpInv, McpTyped, CallTyped
<1>8. McpTyped'
  BY <1>1, <1>3, <1>4, <1>6, <1>7 DEF McpInv, McpTyped, McpTypeOK, mcpHistory
<1>9. overlap \/ relogin \/ (point'[c] \in Selecting => tool'[c].arg \in Known(session))
  BY <1>1, <1>2, <1>3 DEF McpInv, SelectionIsOwners, Selecting
<1> QED BY <1>1, <1>2, <1>3, <1>4, <1>8, <1>9, QuietStep

LEMMA StorePhoneStays ==
    ASSUME McpInv, NEW c \in Calls, StorePhone(c)
    PROVE  McpInv'
<1>1. point[c] = "set_phone" /\ UNCHANGED <<tool, link, mcpHistory>>
  BY DEF StorePhone
<1>2. /\ point'[c] = "send" /\ \A d \in Calls \ {c} : point'[d] = point[d]
      /\ point' \in [Calls -> Places]
  BY CallMoves DEF McpInv, StorePhone, Places
<1>3. read' \in [Calls -> Blobs]
  <2>1. Empty \in Blobs
    BY DEF Empty, Blobs
  <2> QED BY <2>1, CallReads DEF McpInv, StorePhone, Forgotten
<1>4. session' \in Blobs /\ session'.owner = read[c].owner /\ session'.app = read[c].app
  <2>1. tool[c].arg \in Phones /\ read[c] \in Blobs
    BY <1>1 DEF McpInv, McpTyped, McpTypeOK, CallTyped
  <2> QED BY <2>1 DEF StorePhone, Blobs
<1>5. \A d \in Calls : CallTyped(d)'
  BY <1>1, <1>2 DEF McpInv, McpTyped, CallTyped
<1>6. McpTyped'
  BY <1>1, <1>2, <1>3, <1>4, <1>5 DEF McpInv, McpTyped, McpTypeOK, mcpHistory
<1>7. ~overlap => session'.owner = session.owner /\ session'.app = session.app
  BY <1>1, <1>4 DEF McpInv, Alone, Holding
<1>8. Alone' /\ SelectionIsOwners'
  <2>1. overlap' = overlap /\ relogin' = relogin
    BY <1>1 DEF mcpHistory
  <2>2. point'[c] \notin Holding \cup Selecting
    BY <1>2 DEF Holding, Selecting
  <2> QED BY <1>1, <1>2, <2>1, <2>2, OnlyThisCall
<1>9. LoginIsKept' /\ LoanIsOwners'
  BY <1>1, <1>7 DEF McpInv, LoginIsKept, LoanIsOwners, OwnLoan, Known, mcpHistory
<1> QED BY <1>6, <1>8, <1>9 DEF McpInv
LEMMA ValidateOtpStays ==
    ASSUME McpInv, NEW c \in Calls, ValidateOtp(c)
    PROVE  McpInv'
<1>1. tool[c].name = "validate_otp" /\ point[c] = "run" /\ UNCHANGED <<session, link, mcpHistory>>
  BY DEF ValidateOtp, At
<1>2. CASE Finishes(c)
  BY <1>1, <1>2, QuietEnd
<1>3. CASE session.phone # Nothing /\ ~Finishes(c)
  <2>1. /\ tool' = [tool EXCEPT ![c].arg = session.phone]
        /\ Moves(c, "check") /\ read' = read
    BY <1>3 DEF ValidateOtp
  <2>2. session.phone \in Phones
    BY <1>3 DEF McpInv, McpTyped, McpTypeOK, Blobs
  <2>3. /\ point'[c] = "check" /\ \A d \in Calls \ {c} : point'[d] = point[d]
        /\ point' \in [Calls -> Places]
    BY <2>1, CallMoves DEF McpInv, Places
  <2>4. [tool[c] EXCEPT !.arg = session.phone] \in ToolCalls
    BY <2>2 DEF McpInv, McpTyped, ToolCalls
  <2>5. /\ tool' \in [Calls -> ToolCalls]
        /\ tool'[c] = [tool[c] EXCEPT !.arg = session.phone]
        /\ \A d \in Calls \ {c} : tool'[d] = tool[d]
    BY <2>1, <2>4 DEF McpInv, McpTyped
  <2>6. tool'[c].name = "validate_otp" /\ tool'[c].arg = session.phone
    BY <1>1, <2>5 DEF McpInv, McpTyped, ToolCalls
  <2>7. CallTyped(c)'
    BY <2>2, <2>3, <2>6 DEF CallTyped
  <2>8. \A d \in Calls \ {c} : CallTyped(d)'
    BY <2>3, <2>5 DEF McpInv, McpTyped, CallTyped
  <2>9. McpTyped'
    BY <1>1, <2>1, <2>3, <2>5, <2>7, <2>8 DEF McpInv, McpTyped, McpTypeOK, mcpHistory
  <2>10. point'[c] \notin Holding \cup Selecting
    BY <2>3 DEF Holding, Selecting
  <2> QED BY <1>1, <2>3, <2>9, <2>10, QuietStep
<1> QED BY <1>2, <1>3 DEF ValidateOtp

LEMMA OtpAcceptedStays ==
    ASSUME McpInv, NEW c \in Calls, OtpAccepted(c)
    PROVE  McpInv'
<1>1. point[c] = "check" /\ UNCHANGED <<session, tool, read, link, mcpHistory>>
  BY DEF OtpAccepted
<1>2. /\ point'[c] = "validated" /\ \A d \in Calls \ {c} : point'[d] = point[d]
      /\ point' \in [Calls -> Places]
  BY CallMoves DEF McpInv, OtpAccepted, Places
<1>3. \A d \in Calls : CallTyped(d)'
  BY <1>1, <1>2 DEF McpInv, McpTyped, CallTyped
<1>4. McpTyped'
  BY <1>1, <1>2, <1>3 DEF McpInv, McpTyped, McpTypeOK, mcpHistory
<1>5. point'[c] \notin Holding \cup Selecting
  BY <1>2 DEF Holding, Selecting
<1> QED BY <1>1, <1>2, <1>4, <1>5, QuietStep

LEMMA StoreLoginStays ==
    ASSUME McpInv, NEW c \in Calls, StoreLogin(c)
    PROVE  McpInv'
<1> DEFINE phone == tool[c].arg
           loan == IF \E l \in Loans : LoansOf[phone] = {l}
                   THEN CHOOSE l \in LoansOf[phone] : TRUE ELSE read[c].app
<1>1. /\ point[c] = "set_login" /\ UNCHANGED <<link, overlap>> /\ Finishes(c)
      /\ session' = [phone |-> phone, owner |-> phone, app |-> loan]
      /\ login' = phone
      /\ relogin' = (relogin \/ read[c].owner \notin {Nothing, phone})
  BY DEF StoreLogin
<1>2. phone \in Phones /\ read[c] \in Blobs
  BY <1>1 DEF McpInv, McpTyped, McpTypeOK, CallTyped
<1>3. loan \in LoansOf[phone] \/ loan = read[c].app
  <2>1. ASSUME NEW l \in Loans, LoansOf[phone] = {l}
        PROVE  (CHOOSE m \in LoansOf[phone] : TRUE) \in LoansOf[phone]
    BY <2>1
  <2> QED BY <2>1
<1>4. session' \in Blobs
  BY <1>1, <1>2, <1>3, LoansAssumption DEF Blobs
<1>5. McpTyped'
  <2>1. relogin' \in BOOLEAN
    BY <1>1 DEF McpInv, McpTyped
  <2> QED BY <1>1, <1>2, <1>4, <2>1, CallEnds DEF McpInv, McpTyped, McpTypeOK
<1>6. Alone' /\ SelectionIsOwners'
  <2>1. point'[c] = "idle" /\ \A d \in Calls \ {c} : point'[d] = point[d]
    BY <1>1, CallEnds DEF McpInv
  <2>2. point'[c] \notin Holding \cup Selecting
    BY <2>1 DEF Holding, Selecting
  <2>3. relogin => relogin'
    BY <1>1
  <2> QED BY <1>1, <2>1, <2>2, <2>3, OnlyThisCall
<1>7. LoginIsKept'
  BY <1>1 DEF LoginIsKept
<1>8. ~overlap' /\ ~relogin' => OwnLoan(session)'
  <2> SUFFICES ASSUME ~overlap', ~relogin' PROVE OwnLoan(session)'
    OBVIOUS
  <2>1. read[c] = session /\ OwnLoan(session)
    BY <1>1 DEF McpInv, Alone, Holding, LoanIsOwners
  <2>2. session.owner \in {Nothing, phone}
    BY <1>1, <2>1
  <2>3. session.app \in LoansOf[phone] \cup {Nothing}
    BY <2>1, <2>2 DEF OwnLoan, Known
  <2>4. loan \in LoansOf[phone] \cup {Nothing}
    BY <1>3, <2>1, <2>3
  <2>5. session'.app = loan /\ session'.owner = phone /\ phone # Nothing
    BY <1>1, <1>2, LoansAssumption
  <2> QED BY <2>4, <2>5 DEF OwnLoan, Known
<1>9. LoanIsOwners'
  BY <1>1, <1>8 DEF McpInv, LoanIsOwners
<1> QED BY <1>5, <1>6, <1>7, <1>9 DEF McpInv

LEMMA SelectLoanStays ==
    ASSUME McpInv, NEW c \in Calls, SelectLoan(c)
    PROVE  McpInv'
<1>1. tool[c].name = "select_loan" /\ point[c] = "run" /\ UNCHANGED <<session, link, mcpHistory>>
  BY DEF SelectLoan, At
<1>2. CASE Finishes(c)
  BY <1>1, <1>2, QuietEnd
<1>3. CASE tool[c].arg \in Known(session) /\ ~Finishes(c)
  <2>1. Moves(c, "select") /\ UNCHANGED <<tool, read>>
    BY <1>3 DEF SelectLoan
  <2>2. /\ point'[c] = "select" /\ \A d \in Calls \ {c} : point'[d] = point[d]
        /\ point' \in [Calls -> Places]
    BY <2>1, CallMoves DEF McpInv, Places
  <2>3. \A d \in Calls : CallTyped(d)'
    BY <1>1, <2>1, <2>2 DEF McpInv, McpTyped, CallTyped
  <2>4. McpTyped'
    BY <1>1, <2>1, <2>2, <2>3 DEF McpInv, McpTyped, McpTypeOK, mcpHistory
  <2>5. point'[c] \notin Holding
    BY <2>2 DEF Holding
  <2> QED BY <1>1, <1>3, <2>1, <2>2, <2>4, <2>5, QuietStep
<1> QED BY <1>2, <1>3 DEF SelectLoan

LEMMA StoreLoanStays ==
    ASSUME McpInv, NEW c \in Calls, StoreLoan(c)
    PROVE  McpInv'
<1>1. /\ point[c] = "set_loan" /\ UNCHANGED <<link, mcpHistory>> /\ Finishes(c)
      /\ session' = [read[c] EXCEPT !.app = tool[c].arg]
  BY DEF StoreLoan
<1>2. session' \in Blobs /\ session'.owner = read[c].owner /\ session'.app = tool[c].arg
  <2>1. read[c] \in Blobs /\ tool[c].arg \in Loans
    BY <1>1 DEF McpInv, McpTyped, McpTypeOK, CallTyped
  <2> QED BY <1>1, <2>1 DEF Blobs
<1>3. McpTyped'
  BY <1>1, <1>2, CallEnds DEF McpInv, McpTyped, McpTypeOK, mcpHistory
<1>4. Alone' /\ SelectionIsOwners'
  <2>1. point'[c] = "idle" /\ \A d \in Calls \ {c} : point'[d] = point[d]
    BY <1>1, CallEnds DEF McpInv
  <2>2. point'[c] \notin Holding \cup Selecting
    BY <2>1 DEF Holding, Selecting
  <2>3. overlap' = overlap /\ relogin' = relogin
    BY <1>1 DEF mcpHistory
  <2> QED BY <1>1, <2>1, <2>2, <2>3, OnlyThisCall
<1>5. ~overlap => session'.owner = session.owner
  BY <1>1, <1>2 DEF McpInv, Alone, Holding
<1>6. ~overlap /\ ~relogin => tool[c].arg \in Known(session)
  BY <1>1 DEF McpInv, SelectionIsOwners, Selecting
<1>7. LoginIsKept' /\ LoanIsOwners'
  BY <1>1, <1>2, <1>5, <1>6 DEF McpInv, LoginIsKept, LoanIsOwners, OwnLoan, Known, mcpHistory
<1> QED BY <1>3, <1>4, <1>7 DEF McpInv

LEMMA DownloadStays ==
    ASSUME McpInv, NEW c \in Calls, Download(c)
    PROVE  McpInv'
<1>1. point[c] = "run" /\ UNCHANGED <<session, link, mcpHistory>>
  BY DEF Download, At
<1>2. CASE Finishes(c)
  BY <1>1, <1>2, QuietEnd
<1>3. CASE ~Finishes(c)
  <2>1. Moves(c, "fetch") /\ Reads(c) /\ tool' = tool
    BY <1>3 DEF Download
  <2>2. /\ point'[c] = "fetch" /\ \A d \in Calls \ {c} : point'[d] = point[d]
        /\ point' \in [Calls -> Places]
    BY <2>1, CallMoves DEF McpInv, Places
  <2>3. read'[c] = session /\ read' \in [Calls -> Blobs]
    BY <2>1, CallReads DEF McpInv, McpTyped, McpTypeOK, Reads
  <2>4. \A d \in Calls : CallTyped(d)'
    BY <2>1, <2>2 DEF McpInv, McpTyped, CallTyped
  <2>5. McpTyped'
    BY <1>1, <2>1, <2>2, <2>3, <2>4 DEF McpInv, McpTyped, McpTypeOK, mcpHistory
  <2>6. point'[c] \notin Selecting
    BY <2>2 DEF Selecting
  <2> QED BY <1>1, <2>2, <2>3, <2>5, <2>6, QuietStep
<1> QED BY <1>2, <1>3

LEMMA IssueLinkStays ==
    ASSUME McpInv, NEW c \in Calls, IssueLink(c)
    PROVE  McpInv'
<1>1. point[c] = "fetch" /\ UNCHANGED <<session, mcpHistory>> /\ Finishes(c)
  BY DEF IssueLink
<1>2. ~overlap /\ ~relogin => OwnLoan(read[c])
  BY <1>1 DEF McpInv, Alone, Holding, LoanIsOwners
<1>3. /\ link' \in [Tickets -> {"own", "excused", "crossed", Nothing}]
      /\ \A t \in Tickets : link'[t] # "crossed"
  <2>1. CASE link' = link
    BY <2>1 DEF McpInv, McpTyped, McpTypeOK, LoanIsOwners
  <2>2. ASSUME NEW t \in Tickets,
               link' = [link EXCEPT ![t] = IF OwnLoan(read[c]) THEN "own"
                                           ELSE IF overlap \/ relogin THEN "excused"
                                           ELSE "crossed"]
        PROVE  /\ link' \in [Tickets -> {"own", "excused", "crossed", Nothing}]
               /\ \A u \in Tickets : link'[u] # "crossed"
    <3>1. OwnLoan(read[c]) \/ overlap \/ relogin
      BY <1>2
    <3>2. link' = [link EXCEPT ![t] = "own"] \/ link' = [link EXCEPT ![t] = "excused"]
      BY <2>2, <3>1
    <3> QED BY <3>2 DEF McpInv, McpTyped, McpTypeOK, LoanIsOwners
  <2> QED BY <2>1, <2>2 DEF IssueLink
<1>4. McpTyped'
  BY <1>1, <1>3, CallEnds DEF McpInv, McpTyped, McpTypeOK, mcpHistory
<1>5. Alone' /\ SelectionIsOwners'
  <2>1. point'[c] = "idle" /\ \A d \in Calls \ {c} : point'[d] = point[d]
    BY <1>1, CallEnds DEF McpInv
  <2>2. point'[c] \notin Holding \cup Selecting
    BY <2>1 DEF Holding, Selecting
  <2>3. overlap' = overlap /\ relogin' = relogin
    BY <1>1 DEF mcpHistory
  <2> QED BY <1>1, <2>1, <2>2, <2>3, OnlyThisCall
<1>6. LoginIsKept' /\ LoanIsOwners'
  BY <1>1, <1>3 DEF McpInv, LoginIsKept, LoanIsOwners, OwnLoan, Known, mcpHistory
<1> QED BY <1>4, <1>5, <1>6 DEF McpInv

(* A session is forgotten; a call that is still under way makes it one whose *)
(* calls overlapped.                                                        *)
LEMMA ForgetStays ==
    ASSUME McpInv, McpTyped', session' = Empty, link' = link,
           NEW busy \in BOOLEAN, Forgets(busy),
           ~busy => \A c \in Calls : point'[c] = "idle"
    PROVE  McpInv'
<1>1. overlap' = busy /\ login' = Nothing /\ relogin' = FALSE
  BY DEF Forgets
<1>2. Alone' /\ SelectionIsOwners'
  BY <1>1 DEF Alone, SelectionIsOwners, Holding, Selecting
<1>3. LoginIsKept' /\ LoanIsOwners'
  BY <1>1 DEF McpInv, LoginIsKept, LoanIsOwners, OwnLoan, Empty
<1> QED BY <1>2, <1>3 DEF McpInv

LEMMA LogoutStays ==
    ASSUME McpInv, NEW c \in Calls, Logout(c)
    PROVE  McpInv'
<1>1. /\ session' = Empty /\ Forgets(Overlapped(c)) /\ Finishes(c) /\ link' = link
  BY DEF Logout
<1>2. Overlapped(c) \in BOOLEAN /\ Empty \in Blobs
  BY DEF Overlapped, Empty, Blobs
<1>3. McpTyped'
  BY <1>1, <1>2, CallEnds DEF McpInv, McpTyped, McpTypeOK, Forgets
<1>4. ~Overlapped(c) => \A d \in Calls : point'[d] = "idle"
  BY <1>1, CallEnds DEF McpInv, Overlapped
<1> QED BY <1>1, <1>2, <1>3, <1>4, ForgetStays

LEMMA DeleteSessionStays ==
    ASSUME McpInv, DeleteSession
    PROVE  McpInv'
<1>1. /\ session' = Empty /\ Forgets(\E c \in Calls : point[c] # "idle") /\ UNCHANGED <<slot, link>>
  BY DEF DeleteSession
<1>2. PICK busy \in BOOLEAN : busy = (\E c \in Calls : point[c] # "idle")
  OBVIOUS
<1>3. McpTyped'
  <2>1. Empty \in Blobs
    BY DEF Empty, Blobs
  <2>2. point' = point /\ tool' = tool /\ read' = read
    BY <1>1 DEF slot
  <2>3. \A c \in Calls : CallTyped(c)'
    BY <2>2 DEF McpInv, McpTyped, CallTyped
  <2>4. login' = Nothing /\ overlap' \in BOOLEAN /\ relogin' = FALSE
    BY <1>1 DEF Forgets
  <2> QED BY <1>1, <2>1, <2>2, <2>3, <2>4 DEF McpInv, McpTyped, McpTypeOK
<1>4. ~busy => \A d \in Calls : point'[d] = "idle"
  BY <1>1, <1>2 DEF slot
<1>5. Forgets(busy)
  BY <1>1, <1>2 DEF Forgets
<1> QED BY <1>1, <1>3, <1>4, <1>5, ForgetStays

LEMMA LinkGoes ==
    ASSUME McpInv, Redeem \/ LinkExpires
    PROVE  McpInv'
<1>1. /\ UNCHANGED <<session, slot, mcpHistory>>
      /\ \E t \in Tickets : link' = [link EXCEPT ![t] = Nothing]
  BY DEF Redeem, LinkExpires
<1>2. UNCHANGED <<session, point, tool, read, login, overlap, relogin>>
  BY <1>1 DEF slot, mcpHistory
<1>3. /\ link' \in [Tickets -> {"own", "excused", "crossed", Nothing}]
      /\ \A t \in Tickets : link'[t] # "crossed"
  BY <1>1, LoansAssumption DEF McpInv, McpTyped, McpTypeOK, LoanIsOwners
<1>4. McpTyped'
  BY <1>2, <1>3 DEF McpInv, McpTyped, McpTypeOK, CallTyped
<1>5. Alone' /\ SelectionIsOwners' /\ LoginIsKept' /\ LoanIsOwners'
  BY <1>2, <1>3 DEF McpInv, Alone, SelectionIsOwners, LoginIsKept, LoanIsOwners, OwnLoan, Known
<1> QED BY <1>4, <1>5 DEF McpInv

LEMMA McpStays ==
    ASSUME McpInv, [McpNext]_mcpVars
    PROVE  McpInv'
<1>1. CASE UNCHANGED mcpVars
  <2>1. UNCHANGED <<session, point, tool, read, link, login, overlap, relogin>>
    BY <1>1 DEF mcpVars, slot, mcpHistory
  <2>2. McpTyped'
    BY <2>1 DEF McpInv, McpTyped, McpTypeOK, CallTyped
  <2> QED BY <2>1, <2>2 DEF McpInv, Alone, SelectionIsOwners, LoginIsKept, LoanIsOwners,
                            OwnLoan, Known
<1>2. ASSUME NEW c \in Calls, SendOtp(c) \/ OtpRefused(c) \/ Look(c) \/ CallFails(c)
      PROVE  McpInv'
  <2>1. point[c] # "idle" /\ Finishes(c) /\ UNCHANGED <<session, link, mcpHistory>>
    BY <1>2 DEF SendOtp, OtpRefused, Look, CallFails, At
  <2> QED BY <2>1, QuietEnd
<1> QED BY <1>1, <1>2, LinkGoes, DeleteSessionStays, BeginStays, TouchWriteStays, UpdateReadStays,
           StorePhoneStays, ValidateOtpStays, OtpAcceptedStays, StoreLoginStays, SelectLoanStays,
           StoreLoanStays, DownloadStays, IssueLinkStays, LogoutStays
    DEF McpNext

(* A call that runs alone holds the blob as it is, and the loan it is about  *)
(* to make active belongs to whom it is logged in as.                       *)
THEOREM McpInvariant == McpSpec => []McpInv
<1>1. McpInit => McpInv
  BY McpStarts
<1>2. McpInv /\ [McpNext]_mcpVars => McpInv'
  BY McpStays
<1> QED BY <1>1, <1>2, PTL DEF McpSpec

(* However many calls, customers and loans there are: tools that run one     *)
(* after the other lose no login, and none outlives a logout.               *)
THEOREM LoginsAreKept == McpSpec => []LoginIsKept
<1>1. McpInv => LoginIsKept
  BY DEF McpInv
<1> QED BY <1>1, McpInvariant, PTL

(* The active loan, now or by a download link later, is one of the loans of  *)
(* the customer whose token goes with it.                                   *)
THEOREM LoansAreTheirOwners == McpSpec => []LoanIsOwners
<1>1. McpInv => LoanIsOwners
  BY DEF McpInv
<1> QED BY <1>1, McpInvariant, PTL


=============================================================================
