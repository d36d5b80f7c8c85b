-------------------------- MODULE OllamaNodeProofs --------------------------
(* What holds of OllamaNode for every choice of its constants.              *)
EXTENDS OllamaNode, SequenceTheorems, WellFoundedInduction, TLAPS

\* The bounds are natural numbers.
LEMMA Bounds == MaxOpens \in Nat /\ MaxPrompts \in Nat /\ MaxStrings \in Nat \ {0}
  BY BoundAssumption

\* The number that stands for no session and for no prompt is neither.
LEMMA NoneApart == None \notin Sessions /\ None \notin Prompts
  BY DEF None, Sessions, Prompts

\* Taking the oldest element of a queue, or adding one, keeps its type.
LEMMA QueueOps ==
    ASSUME NEW S, NEW q \in Seq(S)
    PROVE  /\ q # <<>> => Head(q) \in S /\ Tail(q) \in Seq(S)
           /\ \A x \in S : Append(q, x) \in Seq(S)
  OBVIOUS

\* What a prompt or an answer loses is a kind of text.
LEMMA LostKinds ==
    /\ \A asked \in Asking : asked \subseteq TextKinds
    /\ \A heard \in Hearing : heard \subseteq TextKinds
  <1>1. ASSUME NEW text \in Texts PROVE LostPrompt(text) \subseteq TextKinds
    BY DEF LostPrompt, TextKinds
  <1>2. ASSUME NEW text \in Texts, NEW body PROVE LostAnswer(text, body) \subseteq TextKinds
    BY DEF LostAnswer, TextKinds
  <1> QED
    BY <1>1, <1>2 DEF Asking, Hearing

\* Every variable starts in its type.
LEMMA InitType == Init => TypeOK
  <1> SUFFICES ASSUME Init PROVE TypeOK
    OBVIOUS
  <1>1. NodeType /\ FlagType
    BY DEF Init, NodeType, FlagType
  <1>2. QueueType
    BY Bounds DEF Init, QueueType
  <1>3. LooperType
    BY DEF Init, LooperType, LoopPc
  <1>4. ControlType
    BY Bounds DEF Init, ControlType, ControlPc
  <1>5. ThreadType
    BY Bounds DEF Init, ThreadType, Threads
  <1> QED
    BY <1>1, <1>2, <1>3, <1>4, <1>5 DEF TypeOK

\* A step of open() or close() keeps every variable in its type.
LEMMA ControlTypeStep ==
    ASSUME TypeOK, OpenBegin \/ CloseBegin \/ ControlStep
    PROVE  TypeOK'
  <1> USE DEF TypeOK, nodeVars, queueVars, loopVars, writeVars, readVars
  <1>1. CASE OpenBegin
    BY <1>1, Bounds DEF OpenBegin, NodeType, QueueType, LooperType, ControlType, ThreadType,
       FlagType, ControlPc
  <1>2. CASE OpenConnect
    <2>1. NodeType' /\ QueueType' /\ LooperType' /\ ThreadType'
      BY <1>2 DEF OpenConnect, NodeType, QueueType, LooperType, ThreadType
    <2>2. ControlType'
      BY <1>2, Bounds DEF OpenConnect, ControlType, ControlPc, Sessions
    <2>3. FlagType'
      BY <1>2 DEF OpenConnect, FlagType
    <2> QED
      BY <2>1, <2>2, <2>3
  <1>3. CASE OpenAnswers
    BY <1>3 DEF OpenAnswers, NodeType, QueueType, LooperType, ControlType, ThreadType,
       FlagType, ControlPc
  <1>4. CASE OpenRequests
    BY <1>4 DEF OpenRequests, NodeType, QueueType, LooperType, ControlType, ThreadType,
       FlagType, ControlPc
  <1>5. CASE OpenLoop
    BY <1>5 DEF OpenLoop, LoopGoto, NodeType, QueueType, LooperType, ControlType, ThreadType,
       FlagType, ControlPc, LoopPc
  <1>6. CASE CloseBegin
    BY <1>6 DEF CloseBegin, NodeType, QueueType, LooperType, ControlType, ThreadType,
       FlagType, ControlPc
  <1>7. CASE CloseRequests
    BY <1>7 DEF CloseRequests, NodeType, QueueType, LooperType, ControlType, ThreadType,
       FlagType, ControlPc
  <1>8. CASE CloseJoin
    BY <1>8 DEF CloseJoin, NodeType, QueueType, LooperType, ControlType, ThreadType,
       FlagType, ControlPc
  <1>9. CASE CloseNull
    BY <1>9 DEF CloseNull, NodeType, QueueType, LooperType, ControlType, ThreadType,
       FlagType, ControlPc
  <1> QED
    BY <1>1, <1>2, <1>3, <1>4, <1>5, <1>6, <1>7, <1>8, <1>9 DEF ControlStep

\* So does a step of a looper.
LEMMA LooperTypeStep ==
    ASSUME TypeOK, NEW s \in Sessions, LooperStep(s)
    PROVE  TypeOK'
  <1> USE DEF TypeOK, nodeVars, queueVars, loopVars, writeVars, readVars
  <1>0. ControlType' /\ ThreadType' /\ NodeType'
    BY DEF LooperStep, LoopTop, LoopGet, LoopRemove, LoopCheck, LoopPost, LoopOffer, LoopAdd,
       ControlType, ThreadType, NodeType
  <1>1. CASE LoopTop(s)
    BY <1>0, <1>1 DEF LoopTop, LoopGoto, QueueType, LooperType, FlagType, LoopPc
  <1>2. CASE LoopGet(s)
    <2>1. QueueType' /\ FlagType'
      BY <1>2 DEF LoopGet, Terminate, QueueType, FlagType
    <2>2. CASE UNCHANGED <<lqueue, lpc>>
      BY <2>2, <1>0, <2>1, <1>2 DEF LoopGet, LooperType
    <2>3. CASE /\ req_queue # None
               /\ lqueue' = [lqueue EXCEPT ![s] = req_queue]
               /\ LoopGoto(s, "lp_wait")
      <3>1. req_queue \in Sessions
        BY <2>3 DEF NodeType
      <3>2. /\ lqueue' \in [Sessions -> {None} \cup Sessions]
            /\ lqueue'[s] = req_queue
            /\ \A u \in Sessions \ {s} : lqueue'[u] = lqueue[u]
        BY <2>3, <3>1 DEF LooperType
      <3>3. /\ lpc' \in [Sessions -> LoopPc]
            /\ lpc'[s] = "lp_wait"
            /\ \A u \in Sessions \ {s} : lpc'[u] = lpc[u]
        BY <2>3 DEF LooperType, LoopGoto, LoopPc
      <3>4. lreq' = lreq
        BY <1>2 DEF LoopGet
      <3> QED
        BY <1>0, <2>1, <2>3, <3>2, <3>3, <3>4 DEF LooperType
    <2> QED
      BY <2>2, <2>3, <1>2 DEF LoopGet
  <1>3. CASE LoopRemove(s)
    <2> DEFINE q == lqueue[s]
    <2>1. q \in Sessions /\ prompts[q] \in Seq(Prompts)
      BY <1>3 DEF LoopRemove, LooperType, QueueType
    <2>2. FlagType'
      BY <1>3 DEF LoopRemove, FlagType
    <2>3. CASE /\ prompts[q] # <<>>
               /\ lreq' = [lreq EXCEPT ![s] = Head(prompts[q])]
               /\ prompts' = [prompts EXCEPT ![q] = Tail(@)]
               /\ LoopGoto(s, "lp_check")
      <3>1. Head(prompts[q]) \in Prompts /\ Tail(prompts[q]) \in Seq(Prompts)
        BY <2>1, <2>3, QueueOps
      <3>2. prompts' \in [Sessions -> Seq(Prompts)]
        BY <2>1, <2>3, <3>1 DEF QueueType
      <3>3. QueueType'
        BY <3>2, <1>3 DEF LoopRemove, QueueType
      <3>4. /\ lreq' \in [Sessions -> {None} \cup Prompts]
            /\ lreq'[s] # None
            /\ \A u \in Sessions \ {s} : lreq'[u] = lreq[u]
        BY <2>3, <3>1, NoneApart DEF LooperType
      <3>5. LooperType'
        BY <2>3, <3>4, <1>3 DEF LoopRemove, LooperType, LoopGoto, LoopPc
      <3> QED
        BY <1>0, <2>2, <3>3, <3>5
    <2>4. CASE LoopGoto(s, "done") /\ UNCHANGED <<prompts, lreq>>
      BY <1>0, <2>2, <2>4, <1>3 DEF LoopRemove, LoopGoto, QueueType, LooperType, LoopPc
    <2> QED
      BY <2>3, <2>4, <1>3 DEF LoopRemove
  <1>4. CASE LoopCheck(s)
    BY <1>0, <1>4 DEF LoopCheck, LoopGoto, QueueType, LooperType, FlagType, LoopPc
  <1>5. CASE LoopPost(s)
    <2>1. QueueType'
      BY <1>5 DEF LoopPost, QueueType
    <2>2. FlagType'
      <3>1. garbled' \subseteq TextKinds
        BY <1>5, LostKinds DEF LoopPost, FlagType
      <3> QED
        BY <1>5, <3>1 DEF LoopPost, Terminate, FlagType
    <2>3. LooperType'
      BY <1>5 DEF LoopPost, LoopGoto, LooperType, LoopPc
    <2> QED
      BY <1>0, <2>1, <2>2, <2>3
  <1>6. CASE LoopOffer(s)
    <2>1. QueueType' /\ FlagType'
      BY <1>6 DEF LoopOffer, QueueType, FlagType
    <2>2. LooperType'
      BY <1>6 DEF LoopOffer, LoopGoto, LooperType, LoopPc
    <2> QED
      BY <1>0, <2>1, <2>2
  <1>7. CASE LoopAdd(s)
    <2>1. FlagType'
      BY <1>7 DEF LoopAdd, Terminate, FlagType
    <2>2. LooperType'
      BY <1>7 DEF LoopAdd, LoopGoto, LooperType, LoopPc
    <2>3. lreq[s] \in Prompts
      BY <1>7, NoneApart DEF LoopAdd, LooperType
    <2>4. CASE UNCHANGED <<answers, given>>
      BY <2>4, <1>0, <2>1, <2>2, <1>7 DEF LoopAdd, QueueType
    <2>5. CASE /\ answers' = [answers EXCEPT ![qvp] = Append(@, lreq[s])]
               /\ given' = [given EXCEPT ![qvp] = Append(@, lreq[s])]
               /\ qvp # None
      <3>1. qvp \in Sessions
        BY <2>5 DEF NodeType
      <3>2. /\ Append(answers[qvp], lreq[s]) \in Seq(Prompts)
            /\ Append(given[qvp], lreq[s]) \in Seq(Prompts)
        BY <2>3, <3>1, QueueOps DEF QueueType
      <3>3. answers' \in [Sessions -> Seq(Prompts)] /\ given' \in [Sessions -> Seq(Prompts)]
        BY <2>5, <3>2 DEF QueueType
      <3>4. QueueType'
        BY <3>3, <1>7 DEF LoopAdd, QueueType
      <3> QED
        BY <1>0, <2>1, <2>2, <3>4
    <2> QED
      BY <2>4, <2>5, <1>7 DEF LoopAdd
  <1> QED
    BY <1>1, <1>2, <1>3, <1>4, <1>5, <1>6, <1>7 DEF LooperStep

\* So does a step of a writer.
LEMMA WriterTypeStep ==
    ASSUME TypeOK, NEW w \in Writers, WriteBegin(w) \/ WriteAdd(w)
    PROVE  TypeOK'
  <1> USE DEF TypeOK, nodeVars, queueVars, loopVars, writeVars, readVars
  <1>0. /\ NodeType' /\ LooperType' /\ ControlType'
        /\ UNCHANGED <<source, keeps, closed, answers, given>>
    BY DEF WriteBegin, WriteAdd, NodeType, LooperType, ControlType
  <1>1. \A r \in Readers : r # w
    BY ThreadAssumption
  <1>2. CASE WriteBegin(w)
    <2>1. QueueType' /\ FlagType'
      BY <1>2 DEF WriteBegin, QueueType, FlagType
    <2>2. PICK n \in 1..MaxStrings : left' = [left EXCEPT ![w] = n]
      BY <1>2 DEF WriteBegin
    <2>3. n \in 0..MaxStrings /\ n # 0
      BY <2>2, Bounds
    <2>4. /\ left' \in [Writers -> 0..MaxStrings]
          /\ left'[w] # 0
          /\ \A v \in Writers \ {w} : left'[v] = left[v]
      BY <2>2, <2>3 DEF ThreadType
    <2>5. ThreadType'
      BY <2>4, <1>0, <1>1, <1>2 DEF WriteBegin, Goto, ThreadType, Threads
    <2> QED
      BY <1>0, <2>1, <2>5
  <1>3. CASE WriteAdd(w)
    <2>1. FlagType'
      BY <1>3 DEF WriteAdd, Terminate, FlagType
    <2>2. CASE UNCHANGED <<prompts, left, arrived, accepted, pc>>
      BY <1>0, <2>1, <2>2 DEF QueueType, ThreadType
    <2>3. CASE /\ left' = [left EXCEPT ![w] = 0]
               /\ Goto(w, "idle")
               /\ UNCHANGED <<prompts, arrived, accepted>>
      <3>1. QueueType'
        BY <1>0, <2>3 DEF QueueType
      <3>2. left' \in [Writers -> 0..MaxStrings]
        BY <2>3, Bounds DEF ThreadType
      <3>3. ThreadType'
        BY <3>2, <1>0, <1>1, <2>3 DEF Goto, ThreadType, Threads
      <3> QED
        BY <1>0, <2>1, <3>1, <3>3
    <2>4. CASE /\ req_queue \in {q \in Sessions : ~closed[q]}
               /\ arrived < MaxPrompts
               /\ arrived' = arrived + 1
               /\ prompts' = [prompts EXCEPT ![req_queue] = Append(@, arrived + 1)]
               /\ accepted' = [accepted EXCEPT ![req_queue] = Append(@, arrived + 1)]
               /\ left' = [left EXCEPT ![w] = @ - 1]
               /\ Goto(w, IF left[w] = 1 THEN "idle" ELSE "wr_add")
      <3>1. arrived + 1 \in Prompts /\ arrived' \in 0..MaxPrompts
        BY <2>4, Bounds DEF QueueType, Prompts
      <3>2. req_queue \in Sessions
        BY <2>4
      <3>3. /\ Append(prompts[req_queue], arrived + 1) \in Seq(Prompts)
            /\ Append(accepted[req_queue], arrived + 1) \in Seq(Prompts)
        BY <3>1, <3>2, QueueOps DEF QueueType
      <3>4. /\ prompts' \in [Sessions -> Seq(Prompts)]
            /\ accepted' \in [Sessions -> Seq(Prompts)]
        BY <2>4, <3>3 DEF QueueType
      <3>5. QueueType'
        BY <3>1, <3>4, <1>0 DEF QueueType
      <3>6. pc[w] = "wr_add"
        BY <1>3 DEF WriteAdd
      <3>7. /\ left[w] - 1 \in 0..MaxStrings
            /\ left[w] # 1 => left[w] - 1 # 0
        BY <3>6, Bounds DEF ThreadType
      <3>8. /\ left' \in [Writers -> 0..MaxStrings]
            /\ left'[w] = left[w] - 1
            /\ \A v \in Writers \ {w} : left'[v] = left[v]
        BY <2>4, <3>7 DEF ThreadType
      <3>9. ThreadType'
        BY <3>7, <3>8, <1>0, <1>1, <2>4 DEF Goto, ThreadType, Threads
      <3> QED
        BY <1>0, <2>1, <3>5, <3>9
    <2> QED
      BY <2>2, <2>3, <2>4, <1>3 DEF WriteAdd
  <1> QED
    BY <1>2, <1>3

\* So does a step of a reader.
LEMMA ReaderTypeStep ==
    ASSUME TypeOK, NEW r \in Readers, ReadBegin(r) \/ ReaderStep(r)
    PROVE  TypeOK'
  <1> USE DEF TypeOK, nodeVars, queueVars, loopVars, writeVars, readVars
  <1>0. /\ NodeType' /\ LooperType' /\ ControlType'
        /\ UNCHANGED <<left, arrived, accepted, prompts, closed, given>>
    BY DEF ReadBegin, ReaderStep, ReadGet, ReadTake, NodeType, LooperType, ControlType
  <1>1. \A w \in Writers : w # r
    BY ThreadAssumption
  <1>2. CASE ReadBegin(r)
    <2>1. QueueType' /\ FlagType'
      BY <1>2 DEF ReadBegin, QueueType, FlagType
    <2>2. ThreadType'
      BY <1>0, <1>1, <1>2 DEF ReadBegin, Goto, ThreadType, Threads
    <2> QED
      BY <1>0, <2>1, <2>2
  <1>3. CASE ReadGet(r)
    <2>1. QueueType' /\ FlagType'
      BY <1>3 DEF ReadGet, Terminate, QueueType, FlagType
    <2>2. ThreadType'
      BY <1>0, <1>1, <1>3 DEF ReadGet, Goto, ThreadType, Threads, NodeType
    <2> QED
      BY <1>0, <2>1, <2>2
  <1>4. CASE ReadTake(r)
    <2>1. FlagType'
      BY <1>4 DEF ReadTake, FlagType
    <2>2. ThreadType'
      BY <1>0, <1>1, <1>4 DEF ReadTake, Goto, ThreadType, Threads
    <2>3. source[r] \in Sessions
      BY <1>4 DEF ReadTake, ThreadType
    <2>4. answers[source[r]] # <<>> => Tail(answers[source[r]]) \in Seq(Prompts)
      BY <2>3, QueueOps DEF QueueType
    <2>5. answers' \in [Sessions -> Seq(Prompts)]
      BY <2>4, <1>4 DEF ReadTake, QueueType
    <2>6. QueueType'
      BY <2>5, <1>0 DEF QueueType
    <2> QED
      BY <1>0, <2>1, <2>2, <2>6
  <1> QED
    BY <1>2, <1>3, <1>4 DEF ReaderStep

\* Every step keeps every variable in its type.
LEMMA TypeStep == TypeOK /\ [Next]_vars => TypeOK'
  <1> SUFFICES ASSUME TypeOK, [Next]_vars PROVE TypeOK'
    OBVIOUS
  <1>1. CASE UNCHANGED vars
    BY <1>1 DEF vars, nodeVars, queueVars, loopVars, writeVars, readVars, TypeOK, NodeType,
       QueueType, LooperType, ControlType, ThreadType, FlagType
  <1> QED
    BY <1>1, ControlTypeStep, LooperTypeStep, WriterTypeStep, ReaderTypeStep DEF Next

\* In every reachable state every variable has its type: among others, a looper
\* that waits holds a queue, one that works holds a prompt, and a writer in the
\* middle of a value has strings left.
THEOREM TypeCorrect == Spec => []TypeOK
  BY InitType, TypeStep, PTL DEF Spec

-----------------------------------------------------------------------------
(* What keeps the sessions apart, for a node that is never opened twice.    *)

\* Where a looper is that has begun and not ended; where it holds a prompt.
Running == LoopPc \ {"none", "done"}
Carrying == {"lp_check", "lp_post", "lp_offer", "lp_add"}
OpeningPc == {"op_qvp", "op_req", "op_loop"}

\* How far open() and close() have come.
ControlInv ==
    /\ loop # None =>
         /\ cpc \in {"idle", "op_connect", "cl_req", "cl_join"}
         /\ qvp = loop /\ req_queue = loop
    /\ cpc \in {"cl_req", "cl_join"} => loop # None
    /\ cancel /\ loop # None => cpc \in {"cl_req", "cl_join"}
    /\ cpc \in OpeningPc \cup {"op_connect"} => ~cancel
    /\ cpc \in OpeningPc => opening = opens /\ opens \in Sessions /\ lpc[opens] = "none"
    /\ cpc \in {"op_req", "op_loop"} => qvp = opening
    /\ cpc = "op_loop" => req_queue = opening

\* A looper runs only for the session that _loop names, on its own queue.
LooperInv ==
    \A s \in Sessions :
        /\ lpc[s] \in Running => loop = s
        /\ s > opens => lpc[s] = "none"
        /\ lpc[s] = "lp_wait" => lqueue[s] = s

SessionInv == ~reopened => ControlInv /\ LooperInv

\* Where the prompts of a session are: answered, with the looper, or waiting.
\* A looper that was canceled has dropped the one it had.
Answered(s) ==
    /\ Len(given[s]) <= Len(accepted[s])
    /\ given[s] = SubSeq(accepted[s], 1, Len(given[s]))
Accounted(s) ==
    /\ Answered(s)
    /\ (lpc[s] \in {"none", "lp_get", "lp_wait"} \/ (lpc[s] = "lp_top" /\ ~cancel)) =>
          accepted[s] = given[s] \o prompts[s]
    /\ lpc[s] \in Carrying => accepted[s] = given[s] \o <<lreq[s]>> \o prompts[s]
AnswerInv == ~reopened => \A s \in Sessions : Accounted(s)

\* The session that is being opened is new.
LEMMA InitSession == Init => SessionInv /\ AnswerInv
  <1> SUFFICES ASSUME Init PROVE SessionInv /\ AnswerInv
    OBVIOUS
  <1>1. ControlInv
    BY DEF Init, ControlInv, OpeningPc
  <1>2. LooperInv
    BY DEF Init, LooperInv, Running
  <1>3. \A s \in Sessions : Answered(s) /\ accepted[s] = given[s] \o prompts[s]
    BY DEF Init, Answered
  <1>4. \A s \in Sessions : lpc[s] = "none"
    BY DEF Init
  <1> QED
    BY <1>1, <1>2, <1>3, <1>4 DEF SessionInv, AnswerInv, Accounted, Carrying

\* A step of open() or close() keeps the sessions apart.
LEMMA ControlSessionStep ==
    ASSUME TypeOK, SessionInv, OpenBegin \/ CloseBegin \/ ControlStep, ~reopened'
    PROVE  ControlInv' /\ LooperInv'
  <1> USE DEF nodeVars, queueVars, loopVars, TypeOK, NodeType, LooperType, ControlType
  <1>0. ~reopened
    BY DEF OpenBegin, CloseBegin, ControlStep, OpenConnect, OpenAnswers, OpenRequests, OpenLoop,
       CloseRequests, CloseJoin, CloseNull, FlagType
  <1>1. ControlInv /\ LooperInv
    BY <1>0 DEF SessionInv
  <1>2. CASE OpenBegin
    BY <1>1, <1>2 DEF OpenBegin, ControlInv, LooperInv, OpeningPc
  <1>3. CASE OpenConnect
    <2>1. CASE cpc' = "idle" /\ UNCHANGED <<opens, opening, reopened>>
      BY <1>1, <1>3, <2>1 DEF OpenConnect, ControlInv, LooperInv, OpeningPc
    <2>2. CASE /\ cpc' = "op_qvp"
               /\ opens' = opens + 1
               /\ opening' = opens + 1
               /\ reopened' = (reopened \/ loop # None)
      <3>0. loop = None
        BY <2>2
      <3>1. loop = None /\ opens' \in Sessions /\ opens' > opens
        BY <3>0, <2>2, <1>3, Bounds DEF OpenConnect, Sessions
      <3>2. lpc[opens'] = "none"
        BY <3>1, <1>1 DEF LooperInv
      <3>3. ControlInv'
        BY <3>1, <3>2, <2>2, <1>1, <1>3 DEF OpenConnect, ControlInv, OpeningPc
      <3>4. LooperInv'
        <4> SUFFICES ASSUME NEW s \in Sessions
                     PROVE  /\ lpc'[s] \in Running => loop' = s
                            /\ s > opens' => lpc'[s] = "none"
                            /\ lpc'[s] = "lp_wait" => lqueue'[s] = s
          BY DEF LooperInv
        <4>1. UNCHANGED <<lpc, loop, lqueue>>
          BY <1>3 DEF OpenConnect
        <4>2. s > opens' => s > opens
          BY <2>2, Bounds DEF Sessions
        <4> QED
          BY <4>1, <4>2, <1>1 DEF LooperInv
      <3> QED
        BY <3>3, <3>4
    <2> QED
      BY <2>1, <2>2, <1>3 DEF OpenConnect
  <1>4. CASE OpenAnswers
    BY <1>1, <1>4 DEF OpenAnswers, ControlInv, LooperInv, OpeningPc
  <1>5. CASE OpenRequests
    BY <1>1, <1>5 DEF OpenRequests, ControlInv, LooperInv, OpeningPc
  <1>6. CASE OpenLoop
    <2>1. /\ opening \in Sessions /\ opening = opens /\ loop = None
          /\ loop' = opening /\ qvp' = opening /\ req_queue' = opening
          /\ cpc' = "idle" /\ opens' = opens
      BY <1>1, <1>6 DEF OpenLoop, ControlInv, OpeningPc
    <2>2. ControlInv'
      BY <2>1, <1>1, <1>6 DEF OpenLoop, ControlInv, OpeningPc
    <2>3. /\ lpc'[opening] = "lp_top"
          /\ \A s \in Sessions \ {opening} : lpc'[s] = lpc[s]
          /\ lqueue' = lqueue
      BY <2>1, <1>6 DEF OpenLoop, LoopGoto
    <2>4. \A s \in Sessions : lpc[s] \notin Running
      BY <2>1, <1>1, NoneApart DEF LooperInv
    <2>5. LooperInv'
      BY <2>1, <2>3, <2>4, <1>1, Bounds DEF LooperInv, Sessions
    <2> QED
      BY <2>2, <2>5
  <1>7. CASE CloseBegin
    BY <1>1, <1>7 DEF CloseBegin, ControlInv, LooperInv, OpeningPc
  <1>8. CASE CloseRequests
    BY <1>1, <1>8 DEF CloseRequests, ControlInv, LooperInv, OpeningPc
  <1>9. CASE CloseJoin
    <2>1. \A s \in Sessions : lpc[s] \notin Running
      BY <1>1, <1>9 DEF CloseJoin, LooperInv, Running
    <2>2. ControlInv'
      BY <1>1, <1>9 DEF CloseJoin, ControlInv, OpeningPc
    <2>3. UNCHANGED <<lpc, lqueue, opens>>
      BY <1>9 DEF CloseJoin
    <2>4. LooperInv'
      BY <2>1, <2>3, <1>1 DEF LooperInv
    <2> QED
      BY <2>2, <2>4
  <1>10. CASE CloseNull
    <2>1. loop = None
      BY <1>1, <1>10 DEF CloseNull, ControlInv
    <2>2. ControlInv'
      BY <2>1, <1>10 DEF CloseNull, ControlInv, OpeningPc
    <2>3. LooperInv'
      BY <1>1, <1>10 DEF CloseNull, LooperInv
    <2> QED
      BY <2>2, <2>3
  <1> QED
    BY <1>2, <1>3, <1>4, <1>5, <1>6, <1>7, <1>8, <1>9, <1>10 DEF ControlStep

\* So does a step of a looper, which is the one of the session that is open.
LEMMA LooperSessionStep ==
    ASSUME TypeOK, SessionInv, NEW s \in Sessions, LooperStep(s), ~reopened'
    PROVE  ControlInv' /\ LooperInv'
  <1> USE DEF nodeVars, queueVars, loopVars, TypeOK, NodeType, LooperType
  <1>1. /\ UNCHANGED <<cancel, loop, qvp, req_queue, cpc, opening, opens, reopened>>
        /\ lpc[s] \in Running
        /\ lpc'[s] \in Running \cup {"done"}
        /\ \A u \in Sessions \ {s} : lpc'[u] = lpc[u] /\ lqueue'[u] = lqueue[u]
    BY DEF LooperStep, LoopTop, LoopGet, LoopRemove, LoopCheck, LoopPost, LoopOffer, LoopAdd,
       LoopGoto, Running, LoopPc
  <1>2. ControlInv /\ LooperInv
    BY <1>1 DEF SessionInv
  <1>3. loop = s /\ loop # None /\ ~(s > opens)
    BY <1>1, <1>2, NoneApart DEF LooperInv, Running
  <1>4. cpc \notin OpeningPc
    BY <1>2, <1>3 DEF ControlInv, OpeningPc
  <1>5. ControlInv'
    BY <1>1, <1>2, <1>4 DEF ControlInv, OpeningPc
  <1>6. lpc'[s] = "lp_wait" => lqueue'[s] = s
    <2>1. CASE LoopGet(s)
      BY <2>1, <1>2, <1>3 DEF LoopGet, LoopGoto, ControlInv
    <2>2. CASE ~LoopGet(s)
      BY <2>2, <1>2 DEF LooperStep, LoopTop, LoopRemove, LoopCheck, LoopPost, LoopOffer,
         LoopAdd, LoopGoto, LooperInv
    <2> QED
      BY <2>1, <2>2
  <1>7. LooperInv'
    BY <1>1, <1>2, <1>3, <1>6 DEF LooperInv
  <1> QED
    BY <1>5, <1>7

\* Every step keeps the sessions of a node apart that was never opened twice.
LEMMA SessionStep == TypeOK /\ SessionInv /\ [Next]_vars => SessionInv'
  <1> SUFFICES ASSUME TypeOK, SessionInv, [Next]_vars, ~reopened'
               PROVE  ControlInv' /\ LooperInv'
    BY DEF SessionInv
  <1>1. CASE \/ OpenBegin \/ CloseBegin \/ ControlStep
    BY <1>1, ControlSessionStep
  <1>2. ASSUME NEW s \in Sessions, LooperStep(s) PROVE ControlInv' /\ LooperInv'
    BY <1>2, LooperSessionStep
  <1>3. CASE \/ UNCHANGED vars
             \/ \E w \in Writers : WriteBegin(w) \/ WriteAdd(w)
             \/ \E r \in Readers : ReadBegin(r) \/ ReaderStep(r)
    <2>1. UNCHANGED <<cancel, loop, qvp, req_queue, cpc, opening, opens, reopened, lpc, lqueue>>
      BY <1>3 DEF WriteBegin, WriteAdd, ReadBegin, ReaderStep, ReadGet, ReadTake, vars,
         nodeVars, queueVars, loopVars
    <2>2. ControlInv /\ LooperInv
      BY <2>1 DEF SessionInv
    <2> QED
      BY <2>1, <2>2 DEF ControlInv, LooperInv
  <1> QED
    BY <1>1, <1>2, <1>3 DEF Next

\* A sequence is a prefix of what it is continued to.
LEMMA PrefixOfConcat ==
    ASSUME NEW S, NEW g \in Seq(S), NEW p \in Seq(S)
    PROVE  Len(g) <= Len(g \o p) /\ g = SubSeq(g \o p, 1, Len(g))
  OBVIOUS

\* The same for one element more.
LEMMA PrefixOfAppend ==
    ASSUME NEW S, NEW g \in Seq(S), NEW a \in Seq(S), NEW x \in S,
           Len(g) <= Len(a), g = SubSeq(a, 1, Len(g))
    PROVE  Len(g) <= Len(Append(a, x)) /\ g = SubSeq(Append(a, x), 1, Len(g))
  OBVIOUS

\* An element between two queues is the first of the last or the last of the first.
LEMMA TakeFromConcat ==
    ASSUME NEW S, NEW g \in Seq(S), NEW p \in Seq(S), p # <<>>
    PROVE  g \o p = g \o <<Head(p)>> \o Tail(p)
  <1>1. p = <<Head(p)>> \o Tail(p)
    OBVIOUS
  <1>2. <<Head(p)>> \in Seq(S) /\ Tail(p) \in Seq(S)
    OBVIOUS
  <1> QED
    BY <1>1, <1>2

\* The other way round.
LEMMA MoveInConcat ==
    ASSUME NEW S, NEW g \in Seq(S), NEW p \in Seq(S), NEW x \in S
    PROVE  g \o <<x>> \o p = Append(g, x) \o p
  <1>1. g \o <<x>> = Append(g, x)
    OBVIOUS
  <1> QED
    BY <1>1

\* A looper that takes a prompt, answers it or drops it keeps the account of its
\* session, and touches no other.
LEMMA LooperAnswerStep ==
    ASSUME TypeOK, SessionInv, AnswerInv, NEW s \in Sessions, LooperStep(s), ~reopened'
    PROVE  \A u \in Sessions : Accounted(u)'
  <1> USE DEF nodeVars, queueVars, loopVars, writeVars, TypeOK, NodeType, LooperType, QueueType
  <1>1. /\ ~reopened /\ ControlInv /\ LooperInv
        /\ \A u \in Sessions : Accounted(u)
    BY DEF LooperStep, LoopTop, LoopGet, LoopRemove, LoopCheck, LoopPost, LoopOffer, LoopAdd,
       SessionInv, AnswerInv
  <1>2. /\ UNCHANGED <<cancel, accepted>>
        /\ lpc[s] \in Running
        /\ \A u \in Sessions \ {s} : lpc'[u] = lpc[u] /\ lreq'[u] = lreq[u]
    BY SMTT(30) DEF LooperStep, LoopTop, LoopGet, LoopRemove, LoopCheck, LoopPost, LoopOffer, LoopAdd,
       LoopGoto, Running, LoopPc
  <1>3. s # None /\ loop = s /\ qvp = s /\ (lpc[s] = "lp_wait" => lqueue[s] = s)
    BY <1>1, <1>2, NoneApart DEF LooperInv, ControlInv
  <1>4. \A u \in Sessions \ {s} : prompts'[u] = prompts[u] /\ given'[u] = given[u]
    BY <1>3 DEF LooperStep, LoopTop, LoopGet, LoopRemove, LoopCheck, LoopPost, LoopOffer, LoopAdd
  <1>5. \A u \in Sessions \ {s} : Accounted(u)'
    BY <1>1, <1>2, <1>4 DEF Accounted, Answered
  <1>6. Accounted(s)'
    <2> DEFINE g == given[s]
               p == prompts[s]
    <2>0. Accounted(s) /\ g \in Seq(Prompts) /\ p \in Seq(Prompts) /\ accepted[s] \in Seq(Prompts)
      BY <1>1
    <2>1. CASE LoopTop(s) \/ LoopCheck(s) \/ LoopPost(s)
      <3>1. UNCHANGED <<prompts, given, lreq>>
        BY <2>1 DEF LoopTop, LoopCheck, LoopPost
      <3>2. \/ lpc'[s] = lpc[s]
            \/ lpc[s] = "lp_top" /\ lpc'[s] \in {"lp_get", "done"} /\ (lpc'[s] = "lp_get" => ~cancel)
            \/ lpc[s] \in Carrying /\ lpc'[s] \in Carrying \cup {"done"}
        BY <2>1 DEF LoopTop, LoopCheck, LoopPost, LoopGoto, Carrying
      <3> QED
        BY <3>1, <3>2, <2>0, <1>2 DEF Accounted, Answered, Carrying
    <2>2. CASE LoopGet(s)
      BY <2>2, <2>0, <1>2 DEF LoopGet, LoopGoto, Accounted, Answered, Carrying
    <2>3. CASE LoopRemove(s)
      <3>0. lqueue[s] = s /\ lpc[s] = "lp_wait" /\ given' = given
        BY <2>3, <1>3 DEF LoopRemove
      <3>1. CASE lpc'[s] = "done"
        BY <3>0, <3>1, <2>0, <1>2 DEF Accounted, Answered, Carrying
      <3>2. CASE lpc'[s] # "done"
        <4>1. /\ p # <<>>
              /\ lpc'[s] = "lp_check"
              /\ lreq'[s] = Head(p)
              /\ prompts'[s] = Tail(p)
          BY <2>3, <3>0, <3>2 DEF LoopRemove, LoopGoto
        <4>2. accepted[s] = g \o p
          BY <3>0, <2>0 DEF Accounted
        <4>3. g \o p = g \o <<Head(p)>> \o Tail(p)
          BY <4>1, <2>0, TakeFromConcat
        <4> HIDE DEF g, p
        <4>4. accepted'[s] = given'[s] \o <<lreq'[s]>> \o prompts'[s]
          BY <4>1, <4>2, <4>3, <3>0, <1>2 DEF g
        <4> QED
          BY <4>1, <4>4, <3>0, <2>0, <1>2 DEF Accounted, Answered, Carrying
      <3> QED
        BY <3>1, <3>2
    <2>4. CASE LoopOffer(s)
      <3>1. UNCHANGED <<prompts, given>> /\ lpc[s] \in Carrying
        BY <2>4 DEF LoopOffer, Carrying
      <3>2. \/ lpc'[s] = "lp_add" /\ lreq' = lreq
            \/ lpc'[s] = "lp_top" /\ cancel
        BY <2>4, <1>3 DEF LoopOffer, LoopGoto
      <3> QED
        BY <3>1, <3>2, <2>0, <1>2 DEF Accounted, Answered, Carrying
    <2>5. CASE LoopAdd(s)
      <3>0. lpc[s] = "lp_add" /\ prompts' = prompts /\ qvp = s /\ lreq[s] \in Prompts
        BY <2>5, <1>3, NoneApart DEF LoopAdd
      <3>1. given'[s] = Append(g, lreq[s]) /\ lpc'[s] = "lp_top"
        BY <2>5, <3>0, <1>3 DEF LoopAdd, LoopGoto
      <3>2. accepted[s] = g \o <<lreq[s]>> \o p
        BY <3>0, <2>0 DEF Accounted, Carrying
      <3>3. accepted[s] = Append(g, lreq[s]) \o p
        <4> HIDE DEF g, p
        <4>1. PICK x : x = lreq[s]
          OBVIOUS
        <4>2. x \in Prompts /\ g \in Seq(Prompts) /\ p \in Seq(Prompts)
          BY <2>0, <3>0, <4>1
        <4>3. g \o <<x>> \o p = Append(g, x) \o p
          BY ONLY <4>2, MoveInConcat
        <4>4. accepted[s] = g \o <<x>> \o p
          BY <3>2, <4>1
        <4>5. accepted[s] = Append(g, x) \o p
          BY ONLY <4>3, <4>4
        <4> QED
          BY <4>1, <4>5
      <3>4. Append(g, lreq[s]) \in Seq(Prompts)
        BY <3>0, <2>0, QueueOps
      <3> DEFINE h == Append(g, lreq[s])
      <3>5. h \in Seq(Prompts) /\ accepted[s] = h \o p /\ given'[s] = h
        BY <3>1, <3>3, <3>4
      <3> HIDE DEF h, p
      <3>6. Len(h) <= Len(h \o p) /\ h = SubSeq(h \o p, 1, Len(h))
        BY <3>5, <2>0, PrefixOfConcat
      <3>7. Answered(s)'
        BY <3>5, <3>6, <1>2 DEF Answered
      <3> QED
        BY <3>0, <3>1, <3>5, <3>7, <1>2 DEF Accounted, Carrying, p
    <2> QED
      BY <2>1, <2>2, <2>3, <2>4, <2>5 DEF LooperStep
  <1> QED
    BY <1>5, <1>6

\* A prompt that is written is waiting, in the session that it was accepted by.
LEMMA WriterAnswerStep ==
    ASSUME TypeOK, AnswerInv, NEW w \in Writers, WriteBegin(w) \/ WriteAdd(w), ~reopened'
    PROVE  \A u \in Sessions : Accounted(u)'
  <1> USE DEF nodeVars, queueVars, loopVars, writeVars, TypeOK, QueueType
  <1>1. /\ UNCHANGED <<cancel, given, lpc, lreq, reopened>>
        /\ \A u \in Sessions : Accounted(u)
    BY DEF WriteBegin, WriteAdd, AnswerInv
  <1>2. CASE UNCHANGED <<prompts, accepted>>
    BY <1>1, <1>2 DEF Accounted, Answered
  <1>3. CASE ~UNCHANGED <<prompts, accepted>>
    <2> DEFINE x == arrived + 1
    <2>0. PICK s \in Sessions : s = req_queue
      BY <1>3 DEF WriteBegin, WriteAdd
    <2>1. /\ s \in Sessions
          /\ x \in Prompts
          /\ prompts' = [prompts EXCEPT ![s] = Append(@, x)]
          /\ accepted' = [accepted EXCEPT ![s] = Append(@, x)]
      BY <1>3, <2>0, Bounds DEF WriteBegin, WriteAdd, Prompts
    <2> HIDE DEF x
    <2>2. /\ \A u \in Sessions \ {s} : prompts'[u] = prompts[u] /\ accepted'[u] = accepted[u]
          /\ prompts'[s] = Append(prompts[s], x)
          /\ accepted'[s] = Append(accepted[s], x)
      BY <2>1
    <2>3. \A u \in Sessions \ {s} : Accounted(u)'
      BY <1>1, <2>2 DEF Accounted, Answered
    <2>4. Accounted(s) /\ given[s] \in Seq(Prompts) /\ prompts[s] \in Seq(Prompts)
          /\ accepted[s] \in Seq(Prompts)
      BY <1>1, <2>1
    <2>5. Answered(s)'
      <3>1. Len(given[s]) <= Len(accepted[s]) /\ given[s] = SubSeq(accepted[s], 1, Len(given[s]))
        BY <2>4 DEF Accounted, Answered
      <3>2. /\ Len(given[s]) <= Len(Append(accepted[s], x))
            /\ given[s] = SubSeq(Append(accepted[s], x), 1, Len(given[s]))
        BY <3>1, <2>1, <2>4, PrefixOfAppend
      <3> QED
        BY <3>2, <2>2, <1>1 DEF Answered
    <2>6. accepted[s] = given[s] \o prompts[s] =>
            accepted'[s] = given'[s] \o prompts'[s]
      <3> DEFINE g == given[s]
                 p == prompts[s]
      <3>0. g \in Seq(Prompts) /\ p \in Seq(Prompts) /\ x \in Prompts
        BY <2>1, <2>4
      <3> HIDE DEF g, p
      <3>1. Append(g \o p, x) = g \o Append(p, x)
        BY ONLY <3>0
      <3> QED
        BY <3>1, <2>2, <1>1 DEF g, p
    <2>7. lpc[s] \in Carrying /\ accepted[s] = given[s] \o <<lreq[s]>> \o prompts[s] =>
            accepted'[s] = given'[s] \o <<lreq'[s]>> \o prompts'[s]
      <3> SUFFICES ASSUME lpc[s] \in Carrying,
                          accepted[s] = given[s] \o <<lreq[s]>> \o prompts[s]
                   PROVE  accepted'[s] = given'[s] \o <<lreq'[s]>> \o prompts'[s]
        OBVIOUS
      <3> DEFINE h == given[s] \o <<lreq[s]>>
                 p == prompts[s]
      <3>1. lreq[s] \in Prompts
        BY <2>1, NoneApart DEF LooperType, Carrying
      <3>2. h \in Seq(Prompts) /\ p \in Seq(Prompts) /\ x \in Prompts
        BY <3>1, <2>1, <2>4
      <3> HIDE DEF h, p
      <3>3. Append(h \o p, x) = h \o Append(p, x)
        BY ONLY <3>2
      <3> QED
        BY <3>3, <2>2, <1>1 DEF h, p
    <2>8. Accounted(s)'
      BY <1>1, <2>4, <2>5, <2>6, <2>7 DEF Accounted
    <2> QED
      BY <2>3, <2>8
  <1> QED
    BY <1>2, <1>3

\* Every step keeps account of the prompts of a node that was never opened twice.
LEMMA AnswerStep ==
    TypeOK /\ SessionInv /\ AnswerInv /\ [Next]_vars => AnswerInv'
  <1> SUFFICES ASSUME TypeOK, SessionInv, AnswerInv, [Next]_vars, ~reopened'
               PROVE  \A u \in Sessions : Accounted(u)'
    BY DEF AnswerInv
  <1> USE DEF nodeVars, queueVars, loopVars, writeVars
  <1>1. ASSUME NEW s \in Sessions, LooperStep(s) PROVE \A u \in Sessions : Accounted(u)'
    BY <1>1, LooperAnswerStep
  <1>2. ASSUME NEW w \in Writers, WriteBegin(w) \/ WriteAdd(w)
        PROVE  \A u \in Sessions : Accounted(u)'
    BY <1>2, WriterAnswerStep
  <1>3. CASE UNCHANGED vars \/ \E r \in Readers : ReadBegin(r) \/ ReaderStep(r)
    <2>1. UNCHANGED <<cancel, prompts, accepted, given, lpc, lreq, reopened>>
      BY <1>3 DEF ReadBegin, ReaderStep, ReadGet, ReadTake, vars
    <2> QED
      BY <2>1 DEF AnswerInv, Accounted, Answered
  <1>4. CASE OpenBegin \/ CloseBegin \/ ControlStep
    <2>1. ~reopened
      BY <1>4 DEF OpenBegin, CloseBegin, ControlStep, OpenConnect, OpenAnswers, OpenRequests,
         OpenLoop, CloseRequests, CloseJoin, CloseNull, TypeOK, FlagType
    <2>2. UNCHANGED <<prompts, accepted, given, lreq>>
      BY <1>4 DEF OpenBegin, CloseBegin, ControlStep, OpenConnect, OpenAnswers, OpenRequests,
         OpenLoop, CloseRequests, CloseJoin, CloseNull
    <2>3. ASSUME NEW s \in Sessions
          PROVE  \/ lpc'[s] = lpc[s] /\ (lpc[s] = "lp_top" /\ cancel => cancel')
                 \/ lpc[s] = "none" /\ lpc'[s] = "lp_top"
      <3>1. ControlInv /\ LooperInv
        BY <2>1 DEF SessionInv
      <3>2. CASE OpenBegin
        <4>1. lpc[s] = "lp_top" => loop # None /\ ~cancel
          BY <3>1, <3>2, NoneApart DEF OpenBegin, ControlInv, LooperInv, Running, LoopPc
        <4> QED
          BY <4>1, <3>2 DEF OpenBegin
      <3>3. CASE OpenLoop
        BY <3>1, <3>3 DEF OpenLoop, LoopGoto, ControlInv, OpeningPc, TypeOK, LooperType
      <3>4. CASE ~OpenBegin /\ ~OpenLoop
        BY <3>4, <1>4 DEF CloseBegin, ControlStep, OpenConnect, OpenAnswers, OpenRequests,
           CloseRequests, CloseJoin, CloseNull
      <3> QED
        BY <3>2, <3>3, <3>4
    <2> QED
      BY <2>1, <2>2, <2>3 DEF AnswerInv, Accounted, Answered, Carrying
  <1> QED
    BY <1>1, <1>2, <1>3, <1>4 DEF Next

\* The inductive invariant.
IInv == TypeOK /\ SessionInv /\ AnswerInv

\* It holds of every reachable state.
LEMMA Invariant == Spec => []IInv
  <1>1. Init => IInv
    BY InitType, InitSession DEF IInv
  <1>2. IInv /\ [Next]_vars => IInv'
    BY TypeStep, SessionStep, AnswerStep DEF IInv
  <1> QED
    BY <1>1, <1>2, PTL DEF Spec

\* However prompts, loopers, open() and close() interleave, a node that is never
\* opened twice without a close() answers, in each session, the prompts of that
\* session, in the order they were accepted and without skipping one.
THEOREM AnswersCorrect == Spec => []AnswersInOrder
  <1>1. IInv => AnswersInOrder
    BY DEF IInv, AnswerInv, Accounted, Answered, AnswersInOrder
  <1> QED
    BY <1>1, Invariant, PTL

\* Once close() is done, no looper of the node is left.
THEOREM ClosedQuiet == Spec => []ClosedIsQuiet
  <1>1. IInv => ClosedIsQuiet
    BY NoneApart DEF IInv, SessionInv, LooperInv, ClosedIsQuiet, Running, TypeOK, LooperType
  <1> QED
    BY <1>1, Invariant, PTL

\* The looper reads _req_queue and _qvp unlocked, and checks the second before
\* it uses it: both are the queues of its session whenever it does.
THEOREM QueuesHeld == Spec => []LooperHasQueues
  <1>1. IInv => LooperHasQueues
    BY NoneApart DEF IInv, SessionInv, LooperInv, ControlInv, LooperHasQueues, Running, LoopPc
  <1> QED
    BY <1>1, Invariant, PTL

-----------------------------------------------------------------------------
(* The node is a SessionService.                                            *)

\* The request queue of a session is there from OpenRequests to CloseNull, and
\* closed from CloseRequests on; a session that has no looper yet is empty, unless
\* it is the one that OpenLoop is about to start.
RequestInv ==
    /\ loop # None => lpc[loop] # "none"
    /\ loop = None /\ cpc \notin {"op_loop", "cl_null"} => req_queue = None
    /\ cpc \in {"cl_join", "cl_null"} => req_queue \in Sessions /\ closed[req_queue]
    /\ cpc = "cl_null" => loop = None
    /\ \A s \in Sessions :
         lpc[s] = "none" =>
           /\ ~closed[s]
           /\ ~(cpc = "op_loop" /\ s = opening) => accepted[s] = <<>>

\* Prompts are numbered as they arrive.
Numbered == \A s \in Sessions : \A i \in 1..Len(accepted[s]) : accepted[s][i] <= arrived

ServiceInv == (~reopened => RequestInv) /\ Numbered

\* Nothing is there before the first open().
LEMMA InitService == Init => ServiceInv
  BY DEF Init, ServiceInv, RequestInv, Numbered

\* A step of open() or close() takes the request queue through its life.
LEMMA ControlRequestStep ==
    ASSUME TypeOK, ControlInv, RequestInv, OpenBegin \/ CloseBegin \/ ControlStep, ~reopened'
    PROVE  RequestInv'
  <1> USE NoneApart DEF nodeVars, queueVars, loopVars, writeVars, TypeOK, NodeType, QueueType,
          LooperType, ControlType, OpeningPc
  <1>1. accepted' = accepted
    BY DEF OpenBegin, CloseBegin, ControlStep, OpenConnect, OpenAnswers, OpenRequests, OpenLoop,
       CloseRequests, CloseJoin, CloseNull
  <1>2. CASE OpenBegin \/ CloseBegin \/ OpenAnswers
    BY <1>1, <1>2 DEF OpenBegin, CloseBegin, OpenAnswers, ControlInv, RequestInv
  <1>3. CASE OpenConnect
    BY <1>1, <1>3 DEF OpenConnect, ControlInv, RequestInv
  <1>4. CASE OpenRequests
    <2>1. loop = None /\ req_queue = None
      BY <1>4 DEF OpenRequests, ControlInv, RequestInv
    <2>2. \A s \in Sessions : closed'[s] = closed[s]
      BY <2>1, <1>4 DEF OpenRequests
    <2> QED
      BY <1>1, <2>1, <2>2, <1>4 DEF OpenRequests, ControlInv, RequestInv
  <1>5. CASE OpenLoop
    <2>1. /\ opening \in Sessions /\ loop' = opening
          /\ lpc'[opening] = "lp_top"
          /\ \A s \in Sessions \ {opening} : lpc'[s] = lpc[s]
      BY <1>5 DEF OpenLoop, LoopGoto, ControlInv
    <2> QED
      BY <1>1, <2>1, <1>5 DEF OpenLoop, RequestInv
  <1>6. CASE CloseRequests
    BY <1>1, <1>6 DEF CloseRequests, ControlInv, RequestInv
  <1>7. CASE CloseJoin
    BY <1>1, <1>7 DEF CloseJoin, ControlInv, RequestInv
  <1>8. CASE CloseNull
    BY <1>1, <1>8 DEF CloseNull, RequestInv
  <1> QED
    BY <1>2, <1>3, <1>4, <1>5, <1>6, <1>7, <1>8 DEF ControlStep

\* A looper, once it has begun, does not go back to where it had not.
LEMMA LooperRequestStep ==
    ASSUME TypeOK, RequestInv, NEW s \in Sessions, LooperStep(s)
    PROVE  RequestInv' /\ UNCHANGED <<reopened, accepted, arrived, closed, loop, req_queue, cpc>>
  <1>1. /\ lpc[s] # "none" /\ lpc'[s] # "none"
        /\ \A u \in Sessions \ {s} : lpc'[u] = lpc[u]
    BY SMTT(30) DEF TypeOK, LooperType, LooperStep, LoopTop, LoopGet, LoopRemove, LoopCheck,
       LoopPost, LoopOffer, LoopAdd, LoopGoto
  <1>2. UNCHANGED <<reopened, accepted, arrived, closed, loop, req_queue, cpc, opening>>
    BY DEF LooperStep, LoopTop, LoopGet, LoopRemove, LoopCheck, LoopPost, LoopOffer, LoopAdd,
       nodeVars, queueVars, writeVars
  <1>3. loop # None => lpc'[loop] # "none"
    BY <1>1 DEF RequestInv, TypeOK, NodeType
  <1> QED
    BY <1>1, <1>2, <1>3 DEF RequestInv

\* A prompt is added only to a session that is on, with the next number.
LEMMA WriterRequestStep ==
    ASSUME TypeOK, ServiceInv, SessionInv, NEW w \in Writers, WriteBegin(w) \/ WriteAdd(w)
    PROVE  ServiceInv'
  <1> USE NoneApart DEF nodeVars, queueVars, loopVars, writeVars, TypeOK, NodeType, QueueType,
          ControlType
  <1>1. UNCHANGED <<reopened, closed, loop, req_queue, cpc, opening, lpc>>
    BY DEF WriteBegin, WriteAdd
  <1>2. CASE UNCHANGED <<accepted, arrived>>
    BY <1>1, <1>2 DEF ServiceInv, RequestInv, Numbered
  <1>3. CASE ~UNCHANGED <<accepted, arrived>>
    <2>1. PICK q \in Sessions : q = req_queue
      BY <1>3 DEF WriteBegin, WriteAdd
    <2>2. /\ ~closed[q]
          /\ arrived' = arrived + 1
          /\ accepted'[q] = Append(accepted[q], arrived + 1)
          /\ \A s \in Sessions \ {q} : accepted'[s] = accepted[s]
      BY <1>3, <2>1 DEF WriteBegin, WriteAdd
    <2>3. ASSUME ~reopened PROVE RequestInv'
      <3>1. RequestInv /\ ControlInv
        BY <2>3 DEF ServiceInv, SessionInv
      <3>2. lpc[q] = "none" => cpc = "op_loop" /\ q = opening
        BY <3>1, <2>1, <2>2 DEF RequestInv, ControlInv, OpeningPc
      <3> QED
        BY <1>1, <2>2, <3>1, <3>2 DEF RequestInv
    <2>4. Numbered'
      <3>1. arrived \in Nat /\ accepted[q] \in Seq(Prompts)
        BY <2>1
      <3>2. ASSUME NEW s \in Sessions, NEW i \in 1..Len(accepted[s])
            PROVE  accepted[s][i] <= arrived'
        <4>1. accepted[s] \in Seq(Prompts)
          OBVIOUS
        <4>2. accepted[s][i] \in Prompts
          BY <4>1
        <4>3. accepted[s][i] \in Nat /\ accepted[s][i] <= arrived
          BY <4>2 DEF ServiceInv, Numbered, Prompts
        <4>4. PICK k \in Nat : k = accepted[s][i]
          BY <4>3
        <4>5. k <= arrived
          BY <4>3, <4>4
        <4>6. k <= arrived'
          BY ONLY <4>5, <3>1, <2>2, k \in Nat
        <4> QED
          BY <4>4, <4>6
      <3>3. ASSUME NEW i \in 1..Len(accepted'[q]) PROVE accepted'[q][i] <= arrived'
        <4>1. \/ i \in 1..Len(accepted[q]) /\ accepted'[q][i] = accepted[q][i]
              \/ accepted'[q][i] = arrived + 1
          BY <3>1, <2>2
        <4>2. arrived' = arrived + 1 /\ arrived + 1 <= arrived + 1
          BY <3>1, <2>2
        <4>3. i \in 1..Len(accepted[q]) => accepted[q][i] <= arrived'
          BY <3>2
        <4> QED
          BY <4>1, <4>2, <4>3
      <3> QED
        BY <2>2, <3>2, <3>3 DEF Numbered
    <2> QED
      BY <2>3, <2>4, <1>1 DEF ServiceInv
  <1> QED
    BY <1>2, <1>3

\* Every step keeps the request queue in its life, and the prompts numbered.
LEMMA ServiceStep == IInv /\ ServiceInv /\ [Next]_vars => ServiceInv'
  <1> SUFFICES ASSUME IInv, ServiceInv, [Next]_vars PROVE ServiceInv'
    OBVIOUS
  <1> USE DEF IInv
  <1>1. CASE OpenBegin \/ CloseBegin \/ ControlStep
    <2>1. UNCHANGED <<accepted, arrived>> /\ (~reopened' => ~reopened)
      BY <1>1 DEF OpenBegin, CloseBegin, ControlStep, OpenConnect, OpenAnswers, OpenRequests,
         OpenLoop, CloseRequests, CloseJoin, CloseNull, writeVars, TypeOK, FlagType
    <2>2. ~reopened' => RequestInv'
      BY <1>1, <2>1, ControlRequestStep DEF ServiceInv, SessionInv
    <2> QED
      BY <2>1, <2>2 DEF ServiceInv, Numbered
  <1>2. ASSUME NEW s \in Sessions, LooperStep(s) PROVE ServiceInv'
    <2>1. UNCHANGED <<reopened, accepted, arrived>>
      BY <1>2 DEF LooperStep, LoopTop, LoopGet, LoopRemove, LoopCheck, LoopPost, LoopOffer,
         LoopAdd, writeVars
    <2>2. ~reopened => RequestInv'
      BY <1>2, LooperRequestStep DEF ServiceInv
    <2> QED
      BY <2>1, <2>2 DEF ServiceInv, Numbered
  <1>3. ASSUME NEW w \in Writers, WriteBegin(w) \/ WriteAdd(w) PROVE ServiceInv'
    BY <1>3, WriterRequestStep
  <1>4. CASE UNCHANGED vars \/ \E r \in Readers : ReadBegin(r) \/ ReaderStep(r)
    <2>1. UNCHANGED <<reopened, accepted, arrived, closed, loop, req_queue, cpc, opening, lpc>>
      BY <1>4 DEF ReadBegin, ReaderStep, ReadGet, ReadTake, vars, nodeVars, queueVars, loopVars,
         writeVars
    <2> QED
      BY <2>1 DEF ServiceInv, RequestInv, Numbered
  <1> QED
    BY <1>1, <1>2, <1>3, <1>4 DEF Next

\* It holds of every reachable state.
LEMMA ServiceInvariant == Spec => [](IInv /\ ServiceInv)
  <1>1. Init => ServiceInv
    BY InitService
  <1>2. IInv /\ ServiceInv /\ [Next]_vars => ServiceInv'
    BY ServiceStep
  <1> QED
    BY <1>1, <1>2, Invariant, PTL DEF Spec

\* What the service is in a state of the node.
ServiceAccepts == IF req_queue \in {q \in Sessions : ~closed[q]} THEN req_queue ELSE None
ServiceServes == IF cpc = "cl_null" THEN None ELSE req_queue

\* A step that leaves these alone is not one of the service.
LEMMA ServiceStutter ==
    ASSUME UNCHANGED <<ServiceAccepts, ServiceServes, accepted, given, answers>>
    PROVE  UNCHANGED Service!vars
  BY DEF Service!vars, ServiceAccepts, ServiceServes

\* open() starts the session; close() stops taking prompts when it closes their
\* queue, and answering when the looper is joined.
LEMMA ControlService ==
    ASSUME IInv, ControlInv, RequestInv, OpenBegin \/ CloseBegin \/ ControlStep, ~reopened'
    PROVE  [Service!Next]_Service!vars
  <1> USE NoneApart DEF nodeVars, queueVars, loopVars, writeVars, IInv, TypeOK, NodeType,
          QueueType, ControlType, OpeningPc
  <1>1. UNCHANGED <<accepted, given, answers>>
    BY DEF OpenBegin, CloseBegin, ControlStep, OpenConnect, OpenAnswers, OpenRequests, OpenLoop,
       CloseRequests, CloseJoin, CloseNull
  <1>2. CASE OpenBegin \/ CloseBegin \/ OpenConnect \/ OpenAnswers \/ OpenLoop
    <2>1. UNCHANGED <<ServiceAccepts, ServiceServes>>
      BY <1>2 DEF OpenBegin, CloseBegin, OpenConnect, OpenAnswers, OpenLoop, ServiceAccepts,
         ServiceServes
    <2> QED
      BY <1>1, <2>1, ServiceStutter
  <1>3. CASE OpenRequests
    <2>1. /\ req_queue = None /\ opening \in Sessions
          /\ lpc[opening] = "none" /\ accepted[opening] = <<>> /\ ~closed[opening]
      BY <1>3 DEF OpenRequests, ControlInv, RequestInv
    <2>2. given[opening] = <<>>
      <3>1. Accounted(opening) /\ given[opening] \in Seq(Prompts)
        BY <1>3, <2>1 DEF OpenRequests, AnswerInv
      <3>2. Len(given[opening]) <= Len(accepted[opening])
        BY <3>1 DEF Accounted, Answered
      <3> QED
        BY <3>1, <3>2, <2>1
    <2>3. ServiceAccepts = None /\ ServiceServes = None
      BY <2>1, <1>3 DEF OpenRequests, ServiceAccepts, ServiceServes
    <2>4. ServiceAccepts' = opening /\ ServiceServes' = opening
      BY <2>1, <1>3 DEF OpenRequests, ServiceAccepts, ServiceServes
    <2>5. PICK s \in Sessions : s = opening
      BY <2>1
    <2>6. Service!Start(s)
      BY <1>1, <2>1, <2>2, <2>3, <2>4, <2>5 DEF Service!Start, ServiceAccepts, ServiceServes
    <2> QED
      BY <2>6 DEF Service!Next
  <1>4. CASE CloseRequests
    <2>1. req_queue \in Sessions
      BY <1>4 DEF CloseRequests, ControlInv
    <2>2. ServiceAccepts' = None /\ ServiceServes' = ServiceServes
      BY <2>1, <1>4 DEF CloseRequests, ServiceAccepts, ServiceServes
    <2>3. CASE closed[req_queue]
      BY <1>1, <2>1, <2>2, <2>3, ServiceStutter DEF ServiceAccepts
    <2>4. CASE ~closed[req_queue]
      <3>1. Service!StopAccepting
        BY <1>1, <2>1, <2>2, <2>4 DEF Service!StopAccepting, ServiceAccepts, ServiceServes
      <3> QED
        BY <3>1 DEF Service!Next
    <2> QED
      BY <2>3, <2>4
  <1>5. CASE CloseJoin
    <2>1. req_queue \in Sessions /\ closed[req_queue]
      BY <1>5 DEF CloseJoin, RequestInv
    <2>2. ServiceAccepts = None /\ ServiceAccepts' = None
      BY <2>1, <1>5 DEF CloseJoin, ServiceAccepts
    <2>3. ServiceServes = req_queue /\ ServiceServes' = None
      BY <1>5 DEF CloseJoin, ServiceServes
    <2>4. Service!StopServing
      BY <1>1, <2>1, <2>2, <2>3 DEF Service!StopServing, ServiceAccepts, ServiceServes
    <2> QED
      BY <2>4 DEF Service!Next
  <1>6. CASE CloseNull
    <2>1. UNCHANGED <<ServiceAccepts, ServiceServes>>
      BY <1>6 DEF CloseNull, RequestInv, ServiceAccepts, ServiceServes
    <2> QED
      BY <1>1, <2>1, ServiceStutter
  <1> QED
    BY <1>2, <1>3, <1>4, <1>5, <1>6 DEF ControlStep

\* The looper answers the next prompt of the session that is on.
LEMMA LooperService ==
    ASSUME IInv, ControlInv, LooperInv, NEW s \in Sessions, LooperStep(s), ~reopened
    PROVE  [Service!Next]_Service!vars
  <1> USE NoneApart DEF nodeVars, queueVars, loopVars, writeVars, IInv, TypeOK, NodeType,
          QueueType
  <1>1. UNCHANGED <<ServiceAccepts, ServiceServes, accepted>>
    BY DEF LooperStep, LoopTop, LoopGet, LoopRemove, LoopCheck, LoopPost, LoopOffer, LoopAdd,
       ServiceAccepts, ServiceServes
  <1>2. CASE UNCHANGED <<given, answers>>
    BY <1>1, <1>2, ServiceStutter
  <1>3. CASE ~UNCHANGED <<given, answers>>
    <2>1. /\ lpc[s] = "lp_add" /\ qvp # None
          /\ answers' = [answers EXCEPT ![qvp] = Append(@, lreq[s])]
          /\ given' = [given EXCEPT ![qvp] = Append(@, lreq[s])]
      BY <1>3 DEF LooperStep, LoopTop, LoopGet, LoopRemove, LoopCheck, LoopPost, LoopOffer, LoopAdd
    <2>2. loop = s /\ qvp = s /\ req_queue = s /\ cpc # "cl_null"
      BY <2>1 DEF ControlInv, LooperInv, Running, LoopPc
    <2> DEFINE x == lreq[s]
    <2>3. x \in Prompts
      BY <2>1 DEF LooperType
    <2>4. accepted[s] = given[s] \o <<x>> \o prompts[s]
      BY <2>1 DEF AnswerInv, Accounted, Carrying
    <2>5. given[s] \in Seq(Prompts) /\ prompts[s] \in Seq(Prompts)
      OBVIOUS
    <2> HIDE DEF x
    <2>6. Len(given[s]) < Len(accepted[s]) /\ x = accepted[s][Len(given[s]) + 1]
      BY <2>3, <2>4, <2>5
    <2>7. ServiceServes = s
      BY <2>2 DEF ServiceServes
    <2>8. /\ given' = [given EXCEPT ![s] = Append(@, x)]
          /\ answers' = [answers EXCEPT ![s] = Append(@, x)]
      BY <2>1, <2>2 DEF x
    <2>9. Service!Tell(x)
      BY <1>1, <2>6, <2>7, <2>8 DEF Service!Tell, ServiceAccepts, ServiceServes
    <2> QED
      BY <2>3, <2>9 DEF Service!Next
  <1> QED
    BY <1>2, <1>3

\* A prompt goes to the session that is on, and no prompt goes twice.
LEMMA WriterService ==
    ASSUME IInv, ServiceInv, NEW w \in Writers, WriteBegin(w) \/ WriteAdd(w)
    PROVE  [Service!Next]_Service!vars
  <1> USE NoneApart DEF nodeVars, queueVars, loopVars, writeVars, IInv, TypeOK, NodeType,
          QueueType
  <1>1. UNCHANGED <<ServiceAccepts, ServiceServes, given, answers>>
    BY DEF WriteBegin, WriteAdd, ServiceAccepts, ServiceServes
  <1>2. CASE UNCHANGED accepted
    BY <1>1, <1>2, ServiceStutter
  <1>3. CASE ~UNCHANGED accepted
    <2>1. /\ req_queue \in Sessions /\ ~closed[req_queue]
          /\ arrived < MaxPrompts
          /\ accepted' = [accepted EXCEPT ![req_queue] = Append(@, arrived + 1)]
      BY <1>3 DEF WriteBegin, WriteAdd
    <2>2. ServiceAccepts = req_queue
      BY <2>1 DEF ServiceAccepts
    <2>3. arrived + 1 \in Prompts
      BY <2>1, Bounds DEF Prompts
    <2>4. ASSUME NEW s \in Sessions, NEW i \in 1..Len(accepted[s])
          PROVE  accepted[s][i] # arrived + 1
      <3>1. accepted[s] \in Seq(Prompts)
        OBVIOUS
      <3>2. accepted[s][i] \in Prompts
        BY <3>1
      <3> QED
        BY <3>2 DEF ServiceInv, Numbered, Prompts
    <2>5. Service!Ask(arrived + 1)
      BY <1>1, <2>1, <2>2, <2>4 DEF Service!Ask, ServiceAccepts, ServiceServes
    <2> QED
      BY <2>3, <2>5 DEF Service!Next
  <1> QED
    BY <1>2, <1>3

\* A reader takes the oldest answer of its session.
LEMMA ReaderService ==
    ASSUME TypeOK, NEW r \in Readers, ReadBegin(r) \/ ReaderStep(r)
    PROVE  [Service!Next]_Service!vars
  <1> USE DEF nodeVars, queueVars, writeVars
  <1>1. UNCHANGED <<ServiceAccepts, ServiceServes, accepted, given>>
    BY DEF ReadBegin, ReaderStep, ReadGet, ReadTake, ServiceAccepts, ServiceServes
  <1>2. CASE UNCHANGED answers
    BY <1>1, <1>2, ServiceStutter
  <1>3. CASE ~UNCHANGED answers
    <2>1. /\ pc[r] = "rd_take"
          /\ answers[source[r]] # <<>>
          /\ answers' = [answers EXCEPT ![source[r]] = Tail(@)]
      BY <1>3 DEF ReadBegin, ReaderStep, ReadGet, ReadTake
    <2>2. source[r] \in Sessions
      BY <2>1 DEF TypeOK, ThreadType
    <2>3. Service!Take(source[r])
      BY <1>1, <2>1 DEF Service!Take, ServiceAccepts, ServiceServes
    <2> QED
      BY <2>2, <2>3 DEF Service!Next
  <1> QED
    BY <1>2, <1>3

\* Each step is one of the service or none, unless a node is opened twice: this is
\* AnswersInOrder step by step, and says besides that a session ends the way
\* SessionService says it does.
LEMMA StepService ==
    ASSUME IInv, ServiceInv, [Next]_vars
    PROVE  [Service!Next \/ reopened']_Service!vars
  <1> SUFFICES ASSUME ~reopened' PROVE [Service!Next]_Service!vars
    OBVIOUS
  <1>1. ~reopened
    BY DEF Next, vars, OpenBegin, CloseBegin, ControlStep, OpenConnect, OpenAnswers, OpenRequests,
       OpenLoop, CloseRequests, CloseJoin, CloseNull, LooperStep, LoopTop, LoopGet, LoopRemove,
       LoopCheck, LoopPost, LoopOffer, LoopAdd, WriteBegin, WriteAdd, ReadBegin, ReaderStep,
       ReadGet, ReadTake, IInv, TypeOK, FlagType
  <1>2. ControlInv /\ LooperInv /\ RequestInv /\ TypeOK
    BY <1>1 DEF IInv, SessionInv, ServiceInv
  <1>3. CASE OpenBegin \/ CloseBegin \/ ControlStep
    BY <1>2, <1>3, ControlService
  <1>4. ASSUME NEW s \in Sessions, LooperStep(s) PROVE [Service!Next]_Service!vars
    BY <1>1, <1>2, <1>4, LooperService
  <1>5. ASSUME NEW w \in Writers, WriteBegin(w) \/ WriteAdd(w) PROVE [Service!Next]_Service!vars
    BY <1>5, WriterService
  <1>6. ASSUME NEW r \in Readers, ReadBegin(r) \/ ReaderStep(r) PROVE [Service!Next]_Service!vars
    BY <1>2, <1>6, ReaderService
  <1>7. CASE UNCHANGED vars
    BY <1>7, ServiceStutter DEF vars, nodeVars, queueVars, writeVars, ServiceAccepts,
       ServiceServes
  <1> QED
    BY <1>3, <1>4, <1>5, <1>6, <1>7 DEF Next

\* For every choice of the constants, a node that is not opened twice without a
\* close() is a SessionService.
THEOREM ServiceImplemented == Spec => ImplementsService
  <1>1. Init => Service!Init
    BY NoneApart DEF Init, Service!Init
  <1>2. IInv /\ ServiceInv /\ [Next]_vars => [Service!Next \/ reopened']_Service!vars
    BY StepService
  <1> QED
    BY <1>1, <1>2, ServiceInvariant, PTL DEF Spec, ImplementsService

-----------------------------------------------------------------------------
(* Why close() gets its looper back, also when a node is opened twice.      *)

\* A looper that waits, waits where somebody will wake it; a node with a looper has
\* a request queue, which is closed while close() waits for the looper; _cancel stays
\* set until it has it.
WakeInv ==
    /\ \A s \in Sessions : lpc[s] = "lp_wait" => lqueue[s] = req_queue \/ closed[lqueue[s]]
    /\ loop # None => req_queue # None /\ lpc[loop] # "none"
    /\ cpc \in OpeningPc => opening \in Sessions
    /\ cpc = "op_loop" => req_queue = opening
    /\ cpc \in {"cl_req", "cl_join"} => cancel /\ loop # None
    /\ cpc \in {"cl_join", "cl_null"} => req_queue # None /\ closed[req_queue]
    /\ cpc = "cl_null" => loop = None

\* A step of open() or close() lets no queue go that somebody waits on.
LEMMA ControlWakeStep ==
    ASSUME TypeOK, WakeInv, OpenBegin \/ CloseBegin \/ ControlStep
    PROVE  WakeInv'
  <1> USE NoneApart DEF nodeVars, queueVars, loopVars, TypeOK, NodeType, QueueType, LooperType,
          ControlType, OpeningPc
  <1>1. CASE OpenBegin \/ CloseBegin \/ OpenAnswers
    BY <1>1 DEF OpenBegin, CloseBegin, OpenAnswers, WakeInv
  <1>2. CASE OpenConnect
    <2>1. opens + 1 \in Sessions
      BY <1>2, Bounds DEF OpenConnect, Sessions
    <2>2. UNCHANGED <<cancel, loop, req_queue, closed, lpc, lqueue>>
      BY <1>2 DEF OpenConnect
    <2>3. (cpc' = "op_qvp" /\ opening' = opens + 1) \/ cpc' = "idle"
      BY <1>2 DEF OpenConnect
    <2> QED
      BY <2>1, <2>2, <2>3 DEF WakeInv
  <1>3. CASE OpenRequests
    <2>1. /\ opening \in Sessions /\ req_queue' = opening /\ cpc' = "op_loop"
          /\ \A s \in Sessions : closed[s] \/ s = req_queue => closed'[s]
          /\ UNCHANGED <<loop, opening, cancel, lpc, lqueue>>
      BY <1>3 DEF OpenRequests, WakeInv
    <2>2. \A s \in Sessions : lpc[s] = "lp_wait" => lqueue[s] \in Sessions /\ closed'[lqueue[s]]
      BY <2>1 DEF WakeInv
    <2> QED
      BY <2>1, <2>2 DEF WakeInv
  <1>4. CASE OpenLoop
    <2>1. /\ opening \in Sessions /\ loop' = opening /\ req_queue = opening
          /\ lpc'[opening] = "lp_top"
          /\ \A s \in Sessions \ {opening} : lpc'[s] = lpc[s]
      BY <1>4 DEF OpenLoop, LoopGoto, WakeInv
    <2> QED
      BY <2>1, <1>4 DEF OpenLoop, WakeInv
  <1>5. CASE CloseRequests
    BY <1>5 DEF CloseRequests, WakeInv
  <1>6. CASE CloseJoin
    BY <1>6 DEF CloseJoin, WakeInv
  <1>7. CASE CloseNull
    BY <1>7 DEF CloseNull, WakeInv
  <1> QED
    BY <1>1, <1>2, <1>3, <1>4, <1>5, <1>6, <1>7 DEF ControlStep

\* A looper begins to wait on the queue that the node has.
LEMMA LooperWakeStep ==
    ASSUME TypeOK, WakeInv, NEW s \in Sessions, LooperStep(s)
    PROVE  WakeInv'
  <1>0. /\ UNCHANGED <<cancel, loop, req_queue, cpc, opening, closed>>
        /\ lpc \in [Sessions -> LoopPc] /\ lqueue \in [Sessions -> {None} \cup Sessions]
    BY DEF TypeOK, LooperType, LooperStep, LoopTop, LoopGet, LoopRemove, LoopCheck,
       LoopPost, LoopOffer, LoopAdd, nodeVars, queueVars
  <1>1. /\ lpc[s] # "none" /\ lpc'[s] # "none"
        /\ lpc'[s] = "lp_wait" => lqueue'[s] = req_queue
        /\ \A u \in Sessions \ {s} : lpc'[u] = lpc[u] /\ lqueue'[u] = lqueue[u]
    <2>1. CASE LoopTop(s) \/ LoopCheck(s)
      BY <2>1, <1>0 DEF LoopTop, LoopCheck, LoopGoto
    <2>2. CASE LoopGet(s)
      BY <2>2, <1>0 DEF LoopGet, LoopGoto
    <2>3. CASE LoopRemove(s)
      BY <2>3, <1>0 DEF LoopRemove, LoopGoto
    <2>4. CASE LoopPost(s)
      BY <2>4, <1>0 DEF LoopPost, LoopGoto
    <2>5. CASE LoopOffer(s) \/ LoopAdd(s)
      BY <2>5, <1>0 DEF LoopOffer, LoopAdd, LoopGoto
    <2> QED
      BY <2>1, <2>2, <2>3, <2>4, <2>5 DEF LooperStep
  <1>2. \A u \in Sessions : lpc'[u] = "lp_wait" => lqueue'[u] = req_queue \/ closed[lqueue'[u]]
    BY <1>1 DEF WakeInv
  <1>3. loop # None => lpc'[loop] # "none"
    BY <1>1 DEF WakeInv, TypeOK, NodeType
  <1> QED
    BY <1>0, <1>2, <1>3 DEF WakeInv

\* Every step keeps waiters where they are woken.
LEMMA WakeStep == TypeOK /\ WakeInv /\ [Next]_vars => WakeInv'
  <1> SUFFICES ASSUME TypeOK, WakeInv, [Next]_vars PROVE WakeInv'
    OBVIOUS
  <1>1. CASE OpenBegin \/ CloseBegin \/ ControlStep
    BY <1>1, ControlWakeStep
  <1>2. ASSUME NEW s \in Sessions, LooperStep(s) PROVE WakeInv'
    BY <1>2, LooperWakeStep
  <1>3. CASE \/ UNCHANGED vars
             \/ \E w \in Writers : WriteBegin(w) \/ WriteAdd(w)
             \/ \E r \in Readers : ReadBegin(r) \/ ReaderStep(r)
    <2>1. UNCHANGED <<cancel, loop, req_queue, cpc, opening, closed, lpc, lqueue>>
      BY <1>3 DEF WriteBegin, WriteAdd, ReadBegin, ReaderStep, ReadGet, ReadTake, vars, nodeVars,
         queueVars, loopVars
    <2> QED
      BY <2>1 DEF WakeInv
  <1> QED
    BY <1>1, <1>2, <1>3 DEF Next

\* For every choice of the constants, and however often the node is opened before
\* it is closed: close() never joins a looper that nobody will wake.
THEOREM JoinCorrect == Spec => []JoinCannotHang
  <1>1. Init => WakeInv
    BY DEF Init, WakeInv, OpeningPc
  <1>2. WakeInv => JoinCannotHang
    BY DEF WakeInv, JoinCannotHang
  <1> QED
    BY <1>1, <1>2, WakeStep, TypeCorrect, PTL DEF Spec

-----------------------------------------------------------------------------
(* What the JSON of a text is: it is read back for every text, however long. *)

\* A number that may be a code point.
IsCode(c) == c \in Nat /\ c < 1114112

\* A code point in UTF-8 as RFC 3629 has it, and as json_decode_uXXXX() makes it.
LEMMA Utf8IsDecoded ==
    ASSUME NEW c, IsCode(c)
    PROVE  Utf8(c) = Decoded(c)
  <1> c \in Nat /\ c < 1114112
    BY SMT DEF IsCode
  <1> DEFINE limit == <<128, 2048, 65536, 1114112>>
             W(k) == c < limit[k] /\ \A j \in 1..(k - 1) : c >= limit[j]
             n == CHOOSE k \in 1..4 : W(k)
             lead == <<0, 192, 224, 240>>
             unit == <<1, 64, 4096, 262144>>
  <1>1. Utf8(c) = [i \in 1..n |-> IF i = 1 THEN lead[n] + (c \div unit[n])
                        ELSE 128 + ((c \div unit[n - i + 1]) % 64)]
    BY SMT DEF Utf8
  <1>2. CASE c < 128
    <2>1. n = 1
      <3>1. \A k \in 1..4 : W(k) <=> k = 1
        BY SMT, <1>2
      <3> HIDE DEF W
      <3> QED BY SMT, <3>1
    <2>2. Decoded(c) = <<c>>
      BY SMT, <1>2 DEF Decoded
    <2>3. c \div 1 = c
      BY SMT
    <2> HIDE DEF n
    <2> QED BY SMT, <1>1, <2>1, <2>2, <2>3
  <1>3. CASE 128 <= c /\ c < 2048
    <2>1. n = 2
      <3>1. \A k \in 1..4 : W(k) <=> k = 2
        BY SMT, <1>3
      <3> HIDE DEF W
      <3> QED BY SMT, <3>1
    <2>2. Decoded(c) = <<192 + (c \div 64), 128 + ((c \div 1) % 64)>>
      BY SMT, <1>3 DEF Decoded
    <2> HIDE DEF n
    <2> QED BY SMT, <1>1, <2>1, <2>2
  <1>4. CASE 2048 <= c /\ c < 65536
    <2>1. n = 3
      <3>1. \A k \in 1..4 : W(k) <=> k = 3
        BY SMT, <1>4
      <3> HIDE DEF W
      <3> QED BY SMT, <3>1
    <2>2. Decoded(c) = <<224 + (c \div 4096), 128 + ((c \div 64) % 64), 128 + ((c \div 1) % 64)>>
      BY SMT, <1>4 DEF Decoded
    <2> HIDE DEF n
    <2> QED BY SMT, <1>1, <2>1, <2>2
  <1>5. CASE c >= 65536
    <2>1. n = 4
      <3>1. \A k \in 1..4 : W(k) <=> k = 4
        BY SMT, <1>5
      <3> HIDE DEF W
      <3> QED BY SMT, <3>1
    <2>2. Decoded(c) = <<240 + (c \div 262144), 128 + ((c \div 4096) % 64),
                         128 + ((c \div 64) % 64), 128 + ((c \div 1) % 64)>>
      BY SMT, <1>5 DEF Decoded
    <2> HIDE DEF n
    <2> QED BY SMT, <1>1, <2>1, <2>2
  <1> QED
    BY SMT, <1>2, <1>3, <1>4, <1>5

\* A byte of a character that is not the first one.
LEMMA RestByte ==
    ASSUME NEW c \in Nat, NEW k \in {1, 64, 4096}
    PROVE  128 + ((c \div k) % 64) \in 128..255
  <1>1. \A d \in Nat : d % 64 \in 0..63
    BY SMT
  <1>2. c \div k \in Nat
    BY SMT
  <1> QED
    BY SMT, <1>1, <1>2

\* The bytes of a character: one to four, and they are the character itself
\* or none of them is an ASCII character.
LEMMA Utf8Bytes ==
    ASSUME NEW c, IsCode(c)
    PROVE  /\ Utf8(c) \in Seq(Nat) /\ Utf8(c) \in Seq(Int)
           /\ Len(Utf8(c)) \in 1..4
           /\ c < 128 => Utf8(c) = <<c>>
           /\ c >= 128 => \A k \in 1..Len(Utf8(c)) : Utf8(c)[k] >= 128
  <1> c \in Nat /\ c < 1114112
    BY SMT DEF IsCode
  <1> DEFINE rest(k) == 128 + ((c \div k) % 64)
  <1>1. Utf8(c) = Decoded(c)
    BY SMT, Utf8IsDecoded
  <1>2. rest(1) \in 128..255 /\ rest(64) \in 128..255 /\ rest(4096) \in 128..255
    BY SMT, RestByte
  <1>3. CASE c < 128
    <2>1. Utf8(c) = <<c>>
      BY SMT, <1>1, <1>3 DEF Decoded
    <2>2. c \in 0..255
      BY SMT, <1>3
    <2> QED BY SMT, <1>3, <2>1, <2>2
  <1>4. CASE 128 <= c /\ c < 2048
    <2>1. Utf8(c) = <<192 + (c \div 64), rest(1)>>
      BY SMT, <1>1, <1>4 DEF Decoded
    <2>2. 192 + (c \div 64) \in 192..223
      BY SMT, <1>4
    <2> HIDE DEF rest
    <2> QED BY SMT, <1>2, <1>4, <2>1, <2>2
  <1>5. CASE 2048 <= c /\ c < 65536
    <2>1. Utf8(c) = <<224 + (c \div 4096), rest(64), rest(1)>>
      BY SMT, <1>1, <1>5 DEF Decoded
    <2>2. 224 + (c \div 4096) \in 224..239
      BY SMT, <1>5
    <2> HIDE DEF rest
    <2> QED BY SMT, <1>2, <1>5, <2>1, <2>2
  <1>6. CASE 65536 <= c
    <2>1. Utf8(c) = <<240 + (c \div 262144), rest(4096), rest(64), rest(1)>>
      BY SMT, <1>1, <1>6 DEF Decoded
    <2>2. 240 + (c \div 262144) \in 240..255
      BY SMT, <1>6
    <2> HIDE DEF rest
    <2> QED BY SMT, <1>2, <1>6, <2>1, <2>2
  <1> QED
    BY SMT, <1>3, <1>4, <1>5, <1>6

\* Of the natural numbers of a set, one is the least.
LEMMA Least ==
    ASSUME NEW T \in SUBSET Nat, T # {}
    PROVE  \E x \in T : \A y \in T : x <= y
  <1> DEFINE R == {r \in Nat \X Nat : r[1] < r[2]}
  <1>1. IsWellFoundedOn(OpToRel(<, Nat), Nat)
    BY NatLessThanWellFounded
  <1>2. R = OpToRel(<, Nat)
    BY DEF OpToRel
  <1>3. IsWellFoundedOn(R, Nat)
    BY <1>1, <1>2
  <1>4. PICK x \in T : \A y \in T : ~(<<y, x>> \in R)
    <2> HIDE DEF R
    <2> QED
      BY <1>3, WFMin
  <1>5. \A y \in T : ~(y < x)
    BY <1>4
  <1> QED
    BY <1>4, <1>5

\* Induction up to n, over the set of the numbers for which a fact holds.
LEMMA Upto ==
    ASSUME NEW n \in Nat, NEW T \in SUBSET (0..n), 0 \in T,
           \A k \in 1..n : k - 1 \in T => k \in T
    PROVE  T = 0..n
  <1> DEFINE U == (0..n) \ T
  <1>1. SUFFICES ASSUME U # {} PROVE FALSE
    OBVIOUS
  <1>2. U \in SUBSET Nat
    OBVIOUS
  <1>3. PICK x \in U : \A y \in U : x <= y
    <2> HIDE DEF U
    <2> QED
      BY <1>1, <1>2, Least
  <1>4. x # 0 /\ x \in 0..n /\ x \notin T
    BY <1>3
  <1>5. x - 1 \in 0..n /\ x - 1 \notin U
    BY <1>3, <1>4
  <1> QED
    BY <1>4, <1>5

\* f is the function that FlattenSeq() defines, for the first n sequences.
Flattens(f, s, n) == f = [i \in 1..n |-> IF i = 1 THEN s[i] ELSE f[i - 1] \o s[i]]

\* There is such a function.
LEMMA FlattenExists ==
    ASSUME NEW n \in Nat, NEW s
    PROVE  \E f : Flattens(f, s, n)
  <1> DEFINE T == {k \in 0..n : \E f : Flattens(f, s, k)}
  <1>1. 0 \in T
    <2>1. Flattens([i \in 1..0 |-> s[i]], s, 0)
      BY DEF Flattens
    <2> QED
      BY <2>1
  <1>2. ASSUME NEW k \in 1..n, k - 1 \in T
        PROVE  k \in T
    <2>1. PICK f : Flattens(f, s, k - 1)
      BY <1>2
    <2> DEFINE x == IF k = 1 THEN s[k] ELSE f[k - 1] \o s[k]
               g == [i \in 1..k |-> IF i = k THEN x ELSE f[i]]
    <2>2. ASSUME NEW i \in 1..k
          PROVE  g[i] = IF i = 1 THEN s[i] ELSE g[i - 1] \o s[i]
      <3>1. CASE i = k
         BY <3>1
      <3>2. CASE i # k
        <4>1. i \in 1..(k - 1)
          BY <3>2
        <4>2. f[i] = IF i = 1 THEN s[i] ELSE f[i - 1] \o s[i]
          BY <4>1, <2>1 DEF Flattens
        <4>3. g[i] = f[i] /\ (i # 1 => g[i - 1] = f[i - 1])
          BY <3>2
        <4> QED
          BY <4>2, <4>3
      <3> QED
        BY <3>1, <3>2
    <2>3. Flattens(g, s, k)
      <3> HIDE DEF x
      <3>1. g = [i \in 1..k |-> IF i = 1 THEN s[i] ELSE g[i - 1] \o s[i]]
         BY <2>2
      <3> QED
        BY <3>1 DEF Flattens
    <2> QED
      BY <2>3
  <1>3. T = 0..n
    <2>1. T \in SUBSET (0..n)
      OBVIOUS
    <2> HIDE DEF T
    <2> QED
      BY <1>1, <1>2, <2>1, Upto
  <1> QED
    BY <1>3

\* A sequence and the one behind it.
LEMMA Joined ==
    ASSUME NEW S, NEW a \in Seq(S), NEW b \in Seq(S)
    PROVE  /\ a \o b \in Seq(S)
           /\ Len(a) \in Nat /\ Len(b) \in Nat
           /\ Len(a \o b) = Len(a) + Len(b)
           /\ \A k \in 1..Len(a) : (a \o b)[k] = a[k]
           /\ \A k \in 1..Len(b) : (a \o b)[Len(a) + k] = b[k]
           /\ <<>> \in Seq(S) /\ <<>> \o b = b
  OBVIOUS

\* x stands in j behind its first at elements.
Occurs(x, j, at) ==
    /\ at + Len(x) <= Len(j)
    /\ \A k \in 1..Len(x) : j[at + k] = x[k]

\* What is put behind a sequence stands there, and what stood in it stays.
LEMMA OccursBehind ==
    ASSUME NEW S, NEW a \in Seq(S), NEW b \in Seq(S)
    PROVE  Occurs(b, a \o b, Len(a)) /\ Len(a \o b) = Len(a) + Len(b)
  BY DEF Occurs

LEMMA OccursStill ==
    ASSUME NEW S, NEW x \in Seq(S), NEW a \in Seq(S), NEW b \in Seq(S), NEW at \in Nat,
           Occurs(x, a, at)
    PROVE  Occurs(x, a \o b, at)
  <1>1. /\ Len(x) \in Nat /\ Len(a) \in Nat /\ Len(b) \in Nat
        /\ Len(a \o b) = Len(a) + Len(b) /\ at + Len(x) <= Len(a)
    BY Joined DEF Occurs
  <1>2. \A k \in 1..Len(x) : at + k \in 1..Len(a)
    BY <1>1
  <1> QED
    BY <1>1, <1>2 DEF Occurs

\* F[i] is what the first i sequences of s make, one after the other.
Runs(F, s) ==
    /\ F[0] = <<>>
    /\ \A i \in 1..Len(s) : F[i] = F[i - 1] \o s[i]
    /\ F[Len(s)] = FlattenSeq(s)

LEMMA FlattenRuns ==
    ASSUME NEW S, NEW s \in Seq(Seq(S))
    PROVE  \E F \in [0..Len(s) -> Seq(S)] : Runs(F, s)
  <1> DEFINE n == Len(s)
  <1>1. CASE n = 0
    <2> DEFINE F == [i \in 0..0 |-> <<>>]
    <2>1. FlattenSeq(s) = <<>>
      BY <1>1 DEF FlattenSeq
    <2>2. F \in [0..n -> Seq(S)] /\ Runs(F, s)
      BY <1>1, <2>1 DEF Runs
    <2> QED
      BY <2>2
  <1>2. CASE n # 0
    <2> DEFINE f == CHOOSE f : Flattens(f, s, n)
               F == [i \in 0..n |-> IF i = 0 THEN <<>> ELSE f[i]]
               T == {k \in 0..n : F[k] \in Seq(S)}
    <2>1. n \in Nat
      OBVIOUS
    <2>2. Flattens(f, s, n)
      BY <2>1, FlattenExists
    <2>3. FlattenSeq(s) = f[n]
      BY <1>2 DEF FlattenSeq, Flattens
    <2> HIDE DEF f
    <2>4. ASSUME NEW k \in 1..n
          PROVE  F[k] = IF k = 1 THEN s[k] ELSE F[k - 1] \o s[k]
      <3>1. f[k] = IF k = 1 THEN s[k] ELSE f[k - 1] \o s[k]
        BY <2>2 DEF Flattens
      <3> QED
        BY <3>1
    <2>5. F[0] = <<>> /\ F[n] = f[n]
      BY <1>2, <2>1
    <2>6. F = [i \in 0..n |-> F[i]]
      OBVIOUS
    <2> HIDE DEF F, n
    <2>7. \A k \in 1..n : s[k] \in Seq(S)
      BY DEF n
    <2>8. 0 \in T
      <3>1. <<>> \in Seq(S) /\ 0 \in 0..n
        BY <2>1
      <3> QED
        BY <2>5, <3>1
    <2>9. \A k \in 1..n : k - 1 \in T => k \in T
      <3> SUFFICES ASSUME NEW k \in 1..n, k - 1 \in T PROVE k \in T
        OBVIOUS
      <3>1. F[k - 1] \in Seq(S) /\ s[k] \in Seq(S)
        BY <2>7
      <3>2. F[k - 1] \o s[k] \in Seq(S)
        BY <3>1, Joined
      <3>3. F[k] \in Seq(S)
        BY <2>4, <2>7, <3>2
      <3>4. k \in 0..n
        BY <2>1
      <3> QED
        BY <3>3, <3>4
    <2>10. T = 0..n
      <3>1. T \in SUBSET (0..n)
        OBVIOUS
      <3> HIDE DEF T
      <3> QED
        BY <2>1, <2>8, <2>9, <3>1, Upto
    <2>11. \A k \in 0..n : F[k] \in Seq(S)
      BY <2>10
    <2>12. F \in [0..n -> Seq(S)]
      BY <2>6, <2>11
    <2>13. \A k \in 1..n : F[k] = F[k - 1] \o s[k]
      <3> TAKE k \in 1..n
      <3>1. CASE k = 1
        <4>1. <<>> \o s[k] = s[k] /\ k - 1 = 0
          BY <2>7, <3>1, Joined
        <4> QED
          BY <2>4, <2>5, <3>1, <4>1
      <3> QED
        BY <2>4, <3>1
    <2>14. Runs(F, s)
      BY <2>3, <2>5, <2>13 DEF Runs, n
    <2> QED
      BY <2>12, <2>14 DEF n
  <1> QED
    BY <1>1, <1>2

\* Each sequence stands in the whole behind what the ones before it make.
LEMMA FlattenParts ==
    ASSUME NEW S, NEW s \in Seq(Seq(S)),
           NEW F \in [0..Len(s) -> Seq(S)], Runs(F, s), NEW i \in 1..Len(s)
    PROVE  /\ Occurs(s[i], FlattenSeq(s), Len(F[i - 1]))
           /\ Len(F[i]) = Len(F[i - 1]) + Len(s[i])
  <1> DEFINE n == Len(s)
             T == {m \in 0..n : i <= m => Occurs(s[i], F[m], Len(F[i - 1]))}
  <1>1. n \in Nat /\ i \in 1..n
    OBVIOUS
  <1>2. F \in [0..n -> Seq(S)] /\ \A k \in 1..n : s[k] \in Seq(S)
    OBVIOUS
  <1>3. \A k \in 1..n : F[k] = F[k - 1] \o s[k]
    BY DEF Runs
  <1>4. F[n] = FlattenSeq(s)
    BY DEF Runs
  <1> HIDE DEF n
  <1>5. \A k \in 1..n : F[k - 1] \in Seq(S) /\ F[k] \in Seq(S)
    <2>1. \A k \in 1..n : k - 1 \in 0..n /\ k \in 0..n
      BY <1>1
    <2> QED
      BY <1>2, <2>1
  <1>6. 0 \in T
    BY <1>1
  <1>7. ASSUME NEW m \in 1..n, m - 1 \in T
        PROVE  m \in T
    <2>1. CASE i = m
      <3>1. Occurs(s[i], F[i - 1] \o s[i], Len(F[i - 1]))
        BY <1>2, <1>5, <2>1, OccursBehind
      <3>2. m \in 0..n
        BY <1>1
      <3> QED
        BY <1>3, <2>1, <3>1, <3>2
    <2>2. CASE i < m
      <3>1. Occurs(s[i], F[m - 1], Len(F[i - 1]))
        BY <1>1, <1>7, <2>2
      <3>2. Len(F[i - 1]) \in Nat
        BY <1>1, <1>5
      <3>3. Occurs(s[i], F[m - 1] \o s[m], Len(F[i - 1]))
        BY <1>1, <1>2, <1>5, <3>1, <3>2, OccursStill
      <3>4. m \in 0..n
        BY <1>1
      <3> QED
        BY <1>3, <3>3, <3>4
    <2>3. CASE m < i
      BY <1>1, <2>3
    <2> QED
      BY <1>1, <2>1, <2>2, <2>3
  <1>8. T = 0..n
    <2>1. T \in SUBSET (0..n)
      OBVIOUS
    <2> HIDE DEF T
    <2> QED
      BY <1>1, <1>6, <1>7, <2>1, Upto
  <1>9. n \in T
    <2>1. n \in 0..n
      BY <1>1
    <2> HIDE DEF T
    <2> QED
      BY <1>8, <2>1
  <1>10. Occurs(s[i], F[n], Len(F[i - 1]))
    BY <1>1, <1>9
  <1>11. Len(F[i - 1] \o s[i]) = Len(F[i - 1]) + Len(s[i])
    BY <1>1, <1>2, <1>5, OccursBehind
  <1> QED
    BY <1>1, <1>3, <1>4, <1>10, <1>11

\* f is the function that json_get_string() defines, from the position lo on.
Reads(f, j, lo) ==
    f = [i \in lo..(Len(j) + 2) |->
            IF i > Len(j) \/ j[i] = Byte(Quote) THEN <<>>
            ELSE Piece(j, i) \o f[i + Taken(j, i)]]

\* There is such a function, as a position needs later ones only.
LEMMA ReaderExists ==
    ASSUME NEW j, Len(j) \in Nat
    PROVE  \E f : Reads(f, j, 1)
  <1> DEFINE m == Len(j)
             T == {k \in 0..(m + 1) : \E f : Reads(f, j, m + 2 - k)}
  <1>1. m \in Nat
    OBVIOUS
  <1> HIDE DEF m
  <1>2. 0 \in T
    <2> DEFINE f == [i \in (m + 2)..(m + 2) |-> <<>>]
    <2>1. f = [i \in (m + 2 - 0)..(m + 2) |->
            IF i > m \/ j[i] = Byte(Quote) THEN <<>>
            ELSE Piece(j, i) \o f[i + Taken(j, i)]]
      <3>1. m + 2 - 0 = m + 2 /\ \A i \in (m + 2)..(m + 2) : i > m
        BY <1>1
      <3> QED
        BY <3>1
    <2>2. Reads(f, j, m + 2 - 0)
      BY <2>1 DEF Reads, m
    <2> QED
      BY <1>1, <2>2
  <1>3. ASSUME NEW k \in 1..(m + 1), k - 1 \in T
        PROVE  k \in T
    <2> DEFINE lo == m + 2 - k
               rhs(g, i) == IF i > m \/ j[i] = Byte(Quote) THEN <<>>
                            ELSE Piece(j, i) \o g[i + Taken(j, i)]
    <2>1. PICK f : Reads(f, j, m + 2 - (k - 1))
      BY <1>3
    <2>2. m + 2 - (k - 1) = lo + 1 /\ lo \in 1..(m + 1)
      BY <1>1
    <2>3. f = [i \in (lo + 1)..(m + 2) |-> rhs(f, i)]
      BY <2>1, <2>2 DEF Reads, m
    <2> HIDE DEF lo
    <2> DEFINE x == rhs(f, lo)
               g == [i \in lo..(m + 2) |-> IF i = lo THEN x ELSE f[i]]
    <2>4. ASSUME NEW i \in lo..(m + 2)
          PROVE  g[i] = rhs(g, i)
      <3>1. Taken(j, i) \in {1, 2}
        BY DEF Taken
      <3>2. CASE i > m
        <4>1. rhs(f, i) = <<>> /\ rhs(g, i) = <<>>
          BY <3>2
        <4>2. CASE i = lo
          BY <4>1, <4>2
        <4>3. CASE i # lo
          <5>1. i \in (lo + 1)..(m + 2)
            BY <4>3, <2>2, <1>1
          <5>2. f[i] = rhs(f, i)
            <6> HIDE DEF rhs
            <6> QED BY <2>3, <5>1
          <5> HIDE DEF rhs
          <5>3. g[i] = f[i]
            BY <4>3
          <5> QED
            BY <4>1, <5>2, <5>3
        <4> QED
          BY <4>2, <4>3
      <3>3. CASE i <= m
        <4>1. i + Taken(j, i) \in (lo + 1)..(m + 2)
          BY <1>1, <2>2, <3>1, <3>3
        <4>2. g[i + Taken(j, i)] = f[i + Taken(j, i)]
          <5>1. i + Taken(j, i) \in lo..(m + 2) /\ i + Taken(j, i) # lo
            BY <1>1, <2>2, <4>1
          <5> HIDE DEF x
          <5> QED BY <5>1
        <4>3. rhs(g, i) = rhs(f, i)
          <5> HIDE DEF g
          <5> QED BY <4>2
        <4>4. g[i] = rhs(f, i)
          <5>1. CASE i = lo
            <6> HIDE DEF rhs
            <6> QED BY <5>1
          <5>2. CASE i # lo
            <6>1. i \in (lo + 1)..(m + 2)
              BY <5>2, <2>2, <1>1
            <6> HIDE DEF rhs
            <6>2. f[i] = rhs(f, i)
              BY <2>3, <6>1
            <6> QED
              BY <5>2, <6>2
          <5> QED
            BY <5>1, <5>2
        <4> HIDE DEF g, rhs
        <4> QED
          BY <4>3, <4>4
      <3>4. i > m \/ i <= m
        BY <1>1, <2>2
      <3> QED
        BY <3>2, <3>3, <3>4
    <2>5. g = [i \in lo..(m + 2) |-> rhs(g, i)]
      <3>1. g = [i \in lo..(m + 2) |-> g[i]]
        OBVIOUS
      <3> HIDE DEF g, rhs
      <3> QED
        BY <2>4, <3>1
    <2>6. Reads(g, j, m + 2 - k)
      <3> HIDE DEF g
      <3> QED BY <2>5 DEF Reads, lo, m
    <2> HIDE DEF g
    <2>7. k \in 0..(m + 1)
      BY <1>1
    <2> QED
      BY <2>6, <2>7
  <1>4. T = 0..(m + 1)
    <2>1. T \in SUBSET (0..(m + 1)) /\ m + 1 \in Nat
      BY <1>1
    <2> HIDE DEF T
    <2> QED
      BY <1>2, <1>3, <2>1, Upto
  <1>5. m + 1 \in T
    <2>1. m + 1 \in 0..(m + 1)
      BY <1>1
    <2> HIDE DEF T
    <2> QED BY <1>4, <2>1
  <1>6. m + 2 - (m + 1) = 1
    BY <1>1
  <1> QED
    BY <1>5, <1>6

\* The units of a JSON string without digits that are none.
Unit == {"byte", "escape", "hex"} \X Nat

LEMMA LetterIs ==
    /\ DOMAIN Letter = {34, 92, 10, 13, 9}
    /\ Letter[34] = 34 /\ Letter[92] = 92
    /\ Letter[10] = 110 /\ Letter[13] = 114 /\ Letter[9] = 116
  BY DEF Letter, Quote, Backslash

\* The node undoes what the letters stand for.
LEMMA LetterUndone ==
    /\ \A c \in DOMAIN Letter : Unescape(Letter[c]) = c /\ Letter[c] \in Nat
    /\ \A b \in Nat : Unescape(b) \in Nat
  <1> DEFINE L == Letter
  <1>1. /\ DOMAIN L = {34, 92, 10, 13, 9}
        /\ L[34] = 34 /\ L[92] = 92 /\ L[10] = 110 /\ L[13] = 114 /\ L[9] = 116
    BY LetterIs
  <1> HIDE DEF L
  <1>2. \A b \in {110, 114, 116} : \E c \in DOMAIN L : L[c] = b
    BY <1>1
  <1>3. \A c, d \in DOMAIN L : L[c] = L[d] => c = d
    BY <1>1
  <1>4. \A b : Unescape(b) = IF b \in {110, 114, 116} THEN CHOOSE c \in DOMAIN L : L[c] = b ELSE b
    BY DEF Unescape, L
  <1>5. \A c \in DOMAIN L : L[c] \in Nat /\ c \in Nat
    BY <1>1
  <1>6. ASSUME NEW c \in DOMAIN L PROVE Unescape(L[c]) = c
    <2>1. CASE L[c] \in {110, 114, 116}
      <3>1. Unescape(L[c]) = CHOOSE d \in DOMAIN L : L[d] = L[c]
        BY <1>4, <2>1
      <3> QED
        BY <3>1, <1>3
    <2>2. CASE L[c] \notin {110, 114, 116}
      <3>1. Unescape(L[c]) = L[c]
        BY <1>4, <2>2
      <3>2. c \in {34, 92}
        BY <1>1, <2>2
      <3> QED
        BY <1>1, <3>1, <3>2
    <2> QED
      BY <2>1, <2>2
  <1>7. ASSUME NEW b \in Nat PROVE Unescape(b) \in Nat
    <2>1. CASE b \in {110, 114, 116}
      <3>1. PICK c \in DOMAIN L : L[c] = b
        BY <1>2, <2>1
      <3> QED
        BY <1>5, <1>6, <3>1
    <2>2. CASE b \notin {110, 114, 116}
      BY <1>4, <2>2
    <2> QED
      BY <2>1, <2>2
  <1> QED
    BY <1>5, <1>6, <1>7 DEF L

LEMMA ServerLetterIs ==
    /\ DOMAIN ServerLetter = {34, 92, 47, 8, 9, 10, 12, 13}
    /\ ServerLetter[34] = 34 /\ ServerLetter[92] = 92 /\ ServerLetter[47] = 47
    /\ ServerLetter[8] = 98 /\ ServerLetter[9] = 116 /\ ServerLetter[10] = 110
    /\ ServerLetter[12] = 102 /\ ServerLetter[13] = 114
  BY DEF ServerLetter, Quote, Backslash

\* Of the letters that a server may write, it undoes all but two.
LEMMA ServerLetterUndone ==
    /\ \A c \in DOMAIN ServerLetter :
          /\ ServerLetter[c] \in Nat
          /\ Esc(ServerLetter[c]) \notin Unread => Unescape(ServerLetter[c]) = c
    /\ \A c \in DOMAIN Letter : c \in DOMAIN ServerLetter /\ ServerLetter[c] = Letter[c]
  <1>1. \A c \in DOMAIN Letter : c \in DOMAIN ServerLetter /\ ServerLetter[c] = Letter[c]
    BY LetterIs, ServerLetterIs
  <1>2. ASSUME NEW c \in DOMAIN ServerLetter
        PROVE  /\ ServerLetter[c] \in Nat
               /\ Esc(ServerLetter[c]) \notin Unread => Unescape(ServerLetter[c]) = c
    <2>1. CASE c \in DOMAIN Letter
      BY <1>1, <2>1, LetterUndone
    <2>2. CASE c = 47
      <3>1. Unescape(47) = 47
        BY DEF Unescape
      <3> QED
        BY <2>2, <3>1, ServerLetterIs
    <2>3. CASE c \in {8, 12}
      <3>1. Esc(ServerLetter[c]) \in Unread
        BY <2>3 DEF Unread
      <3> QED
        BY <2>3, <3>1, ServerLetterIs
    <2> QED
      BY <2>1, <2>2, <2>3, LetterIs, ServerLetterIs
  <1> QED
    BY <1>1, <1>2

\* The halves of a pair, and what they stand for.
IsHigh(c) == c \in 55296..56319
IsLow(c) == c \in 56320..57343
Joint(hi, lo) == 65536 + (hi - 55296) * 1024 + (lo - 56320)

\* A pair is two halves in a row.
LEMMA PairIs ==
    ASSUME NEW j, NEW i
    PROVE  IsPair(j, i) <=> /\ j[i][1] = "hex" /\ IsHigh(j[i][2])
                            /\ i < Len(j)
                            /\ j[i + 1][1] = "hex" /\ IsLow(j[i + 1][2])
  BY SMTT(30) DEF IsPair, IsHigh, IsLow

\* What the node reads at a position is a sequence of bytes.
LEMMA PieceType ==
    ASSUME NEW j \in Seq(Unit), NEW i \in 1..Len(j)
    PROVE  Piece(j, i) \in Seq(Int) /\ Taken(j, i) \in {1, 2}
  <1>1. j[i] \in Unit
    OBVIOUS
  <1>2. j[i][1] \in {"byte", "escape", "hex"} /\ j[i][2] \in Nat
    BY <1>1 DEF Unit
  <1>3. PICK k \in {"byte", "escape", "hex"}, b \in Nat : j[i][1] = k /\ j[i][2] = b
    BY <1>2
  <1>4. \A c \in Int : Decoded(c) \in Seq(Int)
    BY DEF Decoded
  <1>5. CodePoint(j, i) \in Int
    <2>1. CASE IsPair(j, i)
      <3>1. i + 1 \in 1..Len(j)
        <4>1. i < Len(j) /\ Len(j) \in Nat
          BY <2>1, PairIs
        <4> QED
          BY <4>1
      <3>2. j[i + 1] \in Unit
        BY <3>1
      <3>3. j[i + 1][2] \in Nat
        BY <3>2 DEF Unit
      <3> QED
        BY <1>3, <2>1, <3>3 DEF CodePoint
    <2>2. CASE ~IsPair(j, i)
      BY <1>3, <2>2 DEF CodePoint
    <2> QED
      BY <2>1, <2>2
  <1>6. Unescape(b) \in Int
    BY LetterUndone
  <1>7. CASE k = "byte"
    <2>1. Piece(j, i) = <<b>>
      BY Zenon, <1>3, <1>7 DEF Piece
    <2> QED
      BY <2>1 DEF Taken
  <1>8. CASE k = "escape"
    <2>1. Piece(j, i) = <<Unescape(b)>>
      BY Zenon, <1>3, <1>8 DEF Piece
    <2> QED
      BY <1>6, <2>1 DEF Taken
  <1>9. CASE k = "hex"
    <2>1. Piece(j, i) = Decoded(CodePoint(j, i))
      BY Zenon, <1>3, <1>9 DEF Piece
    <2> QED
      BY <1>4, <1>5, <2>1 DEF Taken
  <1> QED
    BY <1>7, <1>8, <1>9

\* So is all that it reads from there on.
LEMMA ReaderType ==
    ASSUME NEW j \in Seq(Unit), NEW f, Reads(f, j, 1)
    PROVE  /\ \A i \in 1..(Len(j) + 2) : f[i] \in Seq(Int)
           /\ f[Len(j) + 1] = <<>>
           /\ \A i \in 1..Len(j) : j[i] # Byte(Quote) =>
                 f[i] = Piece(j, i) \o f[i + Taken(j, i)]
  <1> DEFINE m == Len(j)
             T == {k \in 0..(m + 1) : \A i \in (m + 2 - k)..(m + 2) : f[i] \in Seq(Int)}
  <1>1. m \in Nat
    OBVIOUS
  <1>2. \A i \in 1..(m + 2) :
            f[i] = IF i > m \/ j[i] = Byte(Quote) THEN <<>>
                   ELSE Piece(j, i) \o f[i + Taken(j, i)]
    BY DEF Reads
  <1>3. \A i \in 1..m : Piece(j, i) \in Seq(Int) /\ Taken(j, i) \in {1, 2}
    BY PieceType
  <1> HIDE DEF m
  <1>4. ASSUME NEW i \in 1..(m + 2), i > m
        PROVE  f[i] = <<>>
    BY <1>2, <1>4
  <1>5. 0 \in T
    <2>1. \A i \in (m + 2 - 0)..(m + 2) : i \in 1..(m + 2) /\ i > m
      BY <1>1
    <2>2. <<>> \in Seq(Int) /\ 0 \in 0..(m + 1)
      BY <1>1
    <2> QED
      BY <1>4, <2>1, <2>2
  <1>6. ASSUME NEW k \in 1..(m + 1), k - 1 \in T
        PROVE  k \in T
    <2>1. \A i \in (m + 2 - (k - 1))..(m + 2) : f[i] \in Seq(Int)
      BY <1>6
    <2>2. ASSUME NEW i \in (m + 2 - k)..(m + 2)
          PROVE  f[i] \in Seq(Int)
      <3>1. i \in 1..(m + 2)
        BY <1>1
      <3>2. CASE i > m \/ j[i] = Byte(Quote)
        <4>1. f[i] = <<>>
          BY <1>2, <3>1, <3>2
        <4> QED
          BY <4>1
      <3>3. CASE ~(i > m \/ j[i] = Byte(Quote))
        <4>1. i \in 1..m
          BY <1>1, <3>1, <3>3
        <4>2. i + Taken(j, i) \in (m + 2 - (k - 1))..(m + 2)
          <5>1. \A t \in {1, 2} : i + t \in (m + 2 - (k - 1))..(m + 2)
            BY <1>1, <4>1
          <5> QED
            BY <1>3, <4>1, <5>1
        <4>3. f[i] = Piece(j, i) \o f[i + Taken(j, i)]
          BY <1>2, <3>1, <3>3
        <4>4. Piece(j, i) \in Seq(Int) /\ f[i + Taken(j, i)] \in Seq(Int)
          BY <1>3, <2>1, <4>1, <4>2
        <4> QED
          BY <4>3, <4>4, Joined
      <3> QED
        BY <3>2, <3>3
    <2>3. k \in 0..(m + 1)
      BY <1>1
    <2> QED
      BY <2>2, <2>3
  <1>7. T = 0..(m + 1)
    <2>1. T \in SUBSET (0..(m + 1)) /\ m + 1 \in Nat
      BY <1>1
    <2> HIDE DEF T
    <2> QED
      BY <1>5, <1>6, <2>1, Upto
  <1>8. \A i \in 1..(m + 2) : f[i] \in Seq(Int)
    <2>1. m + 1 \in 0..(m + 1) /\ m + 2 - (m + 1) = 1
      BY <1>1
    <2>2. m + 1 \in T
      <3> HIDE DEF T
      <3> QED
        BY <1>7, <2>1
    <2> QED
      BY <2>1, <2>2
  <1>9. f[m + 1] = <<>>
    <2>1. m + 1 \in 1..(m + 2) /\ m + 1 > m
      BY <1>1
    <2> QED
      BY <1>4, <2>1
  <1>10. \A i \in 1..m : j[i] # Byte(Quote) =>
            f[i] = Piece(j, i) \o f[i + Taken(j, i)]
    <2>1. \A i \in 1..m : i \in 1..(m + 2) /\ ~(i > m)
      BY <1>1
    <2> QED
      BY <1>2, <2>1
  <1> QED
    BY <1>8, <1>9, <1>10 DEF m

\* A code point of Unicode, and not half of a pair.
LEMMA CharIs ==
    ASSUME NEW c \in Chars
    PROVE  c \in Nat /\ IsCode(c) /\ ~IsHigh(c)
  BY SMT, TextAssumption DEF IsCode, IsHigh

\* A character that takes two \u, and these two.
Wide(c) == 65536 <= c
High(c) == 55296 + ((c - 65536) \div 1024)
Low(c) == 56320 + ((c - 65536) % 1024)

\* How a character may be spelt.
LEMMA SpellingIs ==
    ASSUME NEW c \in Nat, NEW x \in Spellings(c)
    PROVE  \/ /\ ~(c < 32 \/ c \in {Quote, Backslash})
              /\ x = [i \in DOMAIN Utf8(c) |-> Byte(Utf8(c)[i])]
           \/ c \in DOMAIN ServerLetter /\ x = <<Esc(ServerLetter[c])>>
           \/ ~Wide(c) /\ x = <<Hex(c)>>
           \/ Wide(c) /\ x = <<Hex(High(c)), Hex(Low(c))>>
  BY SMT DEF Spellings, Wide, High, Low

\* The two are surrogates, and stand for the character.
LEMMA Surrogates ==
    ASSUME NEW c, IsCode(c), Wide(c)
    PROVE  /\ IsHigh(High(c)) /\ IsLow(Low(c))
           /\ High(c) \in Nat /\ Low(c) \in Nat
           /\ Joint(High(c), Low(c)) = c
  BY SMT DEF IsCode, IsHigh, IsLow, Joint, Wide, High, Low

\* The units of a spelling are units.
LEMMA SpellingType ==
    ASSUME NEW c \in Chars, NEW x \in Spellings(c)
    PROVE  x \in Seq(Unit)
  <1>1. c \in Nat
    BY CharIs
  <1>2. CASE x = [i \in DOMAIN Utf8(c) |-> Byte(Utf8(c)[i])]
    <2>1. Utf8(c) \in Seq(Nat)
      <3>1. IsCode(c)
        BY CharIs
      <3> QED
        BY <3>1, Utf8Bytes
    <2>2. \A i \in 1..Len(Utf8(c)) : Byte(Utf8(c)[i]) \in Unit
      BY <2>1 DEF Byte, Unit
    <2>3. DOMAIN Utf8(c) = 1..Len(Utf8(c)) /\ Len(Utf8(c)) \in Nat
      BY <2>1
    <2>4. x \in [1..Len(Utf8(c)) -> Unit]
      BY <1>2, <2>2, <2>3
    <2> QED
      BY <2>3, <2>4
  <1>3. CASE c \in DOMAIN ServerLetter /\ x = <<Esc(ServerLetter[c])>>
    <2>1. ServerLetter[c] \in Nat
      BY <1>3, ServerLetterUndone
    <2>2. Esc(ServerLetter[c]) \in Unit
      BY <2>1 DEF Esc, Unit
    <2> QED
      BY <1>3, <2>2
  <1>4. CASE x = <<Hex(c)>>
    <2>1. Hex(c) \in Unit
      BY <1>1 DEF Hex, Unit
    <2> QED
      BY <1>4, <2>1
  <1>5. CASE Wide(c) /\ x = <<Hex(High(c)), Hex(Low(c))>>
    <2>1. High(c) \in Nat /\ Low(c) \in Nat
      BY <1>5, CharIs, Surrogates
    <2>2. Hex(High(c)) \in Unit /\ Hex(Low(c)) \in Unit
      BY <2>1 DEF Hex, Unit
    <2> QED
      BY <1>5, <2>2
  <1> QED
    BY <1>1, <1>2, <1>3, <1>4, <1>5, SpellingIs

\* What the node reads of a unit that stands alone.
LEMMA UnitRead ==
    ASSUME NEW j \in Seq(Unit), NEW f, Reads(f, j, 1), NEW i \in 1..Len(j), NEW b
    PROVE  /\ j[i] = Byte(b) /\ b # Quote => f[i] = <<b>> \o f[i + 1]
           /\ j[i] = Esc(b) => f[i] = <<Unescape(b)>> \o f[i + 1]
           /\ j[i] = Hex(b) /\ ~IsHigh(b) => f[i] = Decoded(b) \o f[i + 1]
  <1>1. j[i] # Byte(Quote) => f[i] = Piece(j, i) \o f[i + Taken(j, i)]
    BY ReaderType
  <1>2. IsPair(j, i) => j[i][1] = "hex" /\ IsHigh(j[i][2])
    BY PairIs
  <1>3. ASSUME j[i] = Byte(b), b # Quote
        PROVE  f[i] = <<b>> \o f[i + 1]
    <2>1. j[i][1] = "byte" /\ j[i][2] = b /\ j[i] # Byte(Quote)
      BY <1>3 DEF Byte
    <2>2. Piece(j, i) = <<b>>
      BY Zenon, <2>1 DEF Piece
    <2>3. Taken(j, i) = 1
      BY <1>2, <2>1 DEF Taken
    <2> QED
      BY <1>1, <2>1, <2>2, <2>3
  <1>4. ASSUME j[i] = Esc(b)
        PROVE  f[i] = <<Unescape(b)>> \o f[i + 1]
    <2>1. j[i][1] = "escape" /\ j[i][2] = b /\ j[i] # Byte(Quote)
      BY <1>4 DEF Byte, Esc
    <2>2. Piece(j, i) = <<Unescape(b)>>
      BY Zenon, <2>1 DEF Piece
    <2>3. Taken(j, i) = 1
      BY <1>2, <2>1 DEF Taken
    <2> QED
      BY <1>1, <2>1, <2>2, <2>3
  <1>5. ASSUME j[i] = Hex(b), ~IsHigh(b)
        PROVE  f[i] = Decoded(b) \o f[i + 1]
    <2>1. j[i][1] = "hex" /\ j[i][2] = b /\ j[i] # Byte(Quote)
      BY <1>5 DEF Byte, Hex
    <2>2. ~IsPair(j, i)
      BY <1>2, <1>5, <2>1
    <2>3. CodePoint(j, i) = b
      BY SMT, <2>1, <2>2 DEF CodePoint
    <2>4. Piece(j, i) = Decoded(b)
      BY Zenon, <2>1, <2>3 DEF Piece
    <2>5. Taken(j, i) = 1
      BY <2>2 DEF Taken
    <2> QED
      BY <1>1, <2>1, <2>4, <2>5
  <1> QED
    BY <1>3, <1>4, <1>5

\* And of a pair.
LEMMA PairRead ==
    ASSUME NEW j \in Seq(Unit), NEW f, Reads(f, j, 1), NEW i \in 1..Len(j),
           i + 1 \in 1..Len(j), NEW hi, NEW lo, IsHigh(hi), IsLow(lo),
           j[i] = Hex(hi), j[i + 1] = Hex(lo)
    PROVE  f[i] = Decoded(Joint(hi, lo)) \o f[i + 2]
  <1>1. j[i] # Byte(Quote) => f[i] = Piece(j, i) \o f[i + Taken(j, i)]
    BY ReaderType
  <1>2. j[i][1] = "hex" /\ j[i][2] = hi /\ j[i] # Byte(Quote)
    BY DEF Byte, Hex
  <1>3. j[i + 1][1] = "hex" /\ j[i + 1][2] = lo
    BY DEF Hex
  <1>4. IsPair(j, i)
    <2>1. i < Len(j)
      OBVIOUS
    <2> QED
      BY <1>2, <1>3, <2>1, PairIs
  <1>5. CodePoint(j, i) = Joint(hi, lo)
    BY SMT, <1>2, <1>3, <1>4 DEF CodePoint, Joint
  <1>6. Piece(j, i) = Decoded(CodePoint(j, i))
    BY Zenon, <1>2 DEF Piece
  <1>7. Taken(j, i) = 2
    BY <1>4 DEF Taken
  <1>8. f[i] = Decoded(CodePoint(j, i)) \o f[i + 2]
    BY <1>1, <1>2, <1>6, <1>7
  <1> QED
    BY <1>5, <1>8

\* Three sequences make the same in either order.
Cat(a, b) == a \o b

LEMMA Associative ==
    \A a, b, c \in Seq(Int) : Cat(Cat(a, b), c) = Cat(a, Cat(b, c))
  <1> SUFFICES ASSUME NEW a \in Seq(Int), NEW b \in Seq(Int), NEW c \in Seq(Int)
               PROVE  (a \o b) \o c = a \o (b \o c)
    BY DEF Cat
  <1> QED
    BY ConcatAssociative

\* Bytes in a row are read in a row.
LEMMA BytesRead ==
    ASSUME NEW j \in Seq(Unit), NEW f, Reads(f, j, 1), NEW u \in Seq(Int), NEW at \in Nat,
           Len(u) \in Nat, \A k \in 1..Len(u) : u[k] # Quote,
           NEW x, x = [k \in DOMAIN u |-> Byte(u[k])], Occurs(x, j, at)
    PROVE  f[at + 1] = u \o f[at + 1 + Len(u)]
  <1> DEFINE n == Len(u)
             T == {k \in 0..n : f[at + 1] = SubSeq(u, 1, k) \o f[at + 1 + k]}
  <1>1. n \in Nat /\ Len(x) = n /\ at + n <= Len(j) /\ Len(j) \in Nat
    BY DEF Occurs
  <1>2. \A i \in 1..(Len(j) + 2) : f[i] \in Seq(Int)
    BY ReaderType
  <1>3. \A k \in 1..n : j[at + k] = Byte(u[k]) /\ u[k] # Quote
    <2>1. \A k \in 1..Len(x) : j[at + k] = x[k]
      BY DEF Occurs
    <2>2. \A k \in 1..Len(u) : x[k] = Byte(u[k])
      OBVIOUS
    <2> QED
      BY <1>1, <2>1, <2>2
  <1>4. \A k \in 1..n : u[k] \in Int /\ SubSeq(u, 1, k - 1) \in Seq(Int)
                        /\ SubSeq(u, 1, k) = SubSeq(u, 1, k - 1) \o <<u[k]>>
    OBVIOUS
  <1>5. SubSeq(u, 1, 0) = <<>> /\ SubSeq(u, 1, n) = u
    OBVIOUS
  <1> HIDE DEF n
  <1>6. 0 \in T
    <2>1. f[at + 1] \in Seq(Int) /\ at + 1 + 0 = at + 1
      BY <1>1, <1>2
    <2>2. <<>> \o f[at + 1] = f[at + 1]
      BY <2>1, Joined
    <2> QED
      BY <1>1, <1>5, <2>1, <2>2
  <1>7. ASSUME NEW k \in 1..n, k - 1 \in T
        PROVE  k \in T
    <2>1. f[at + 1] = SubSeq(u, 1, k - 1) \o f[at + k]
      <3>1. at + 1 + (k - 1) = at + k
        BY <1>1
      <3> QED
        BY <1>7, <3>1
    <2>2. at + k \in 1..Len(j) /\ at + 1 + k \in 1..(Len(j) + 2) /\ at + k + 1 = at + 1 + k
      BY <1>1
    <2>3. f[at + k] = <<u[k]>> \o f[at + k + 1]
      <3>1. at + k \in 1..Len(j)
        BY <2>2
      <3>2. j[at + k] = Byte(u[k]) /\ u[k] # Quote
        BY <1>3
      <3> QED
        BY <3>1, <3>2, UnitRead
    <2>4. f[at + 1 + k] \in Seq(Int) /\ <<u[k]>> \in Seq(Int)
      <3>1. f[at + 1 + k] \in Seq(Int)
        BY <1>2, <2>2
      <3>2. \A b \in Int : <<b>> \in Seq(Int)
        OBVIOUS
      <3> QED
        BY <1>4, <3>1, <3>2
    <2>5. (SubSeq(u, 1, k - 1) \o <<u[k]>>) \o f[at + 1 + k]
            = SubSeq(u, 1, k - 1) \o (<<u[k]>> \o f[at + 1 + k])
      <3>1. Cat(Cat(SubSeq(u, 1, k - 1), <<u[k]>>), f[at + 1 + k])
              = Cat(SubSeq(u, 1, k - 1), Cat(<<u[k]>>, f[at + 1 + k]))
        <4>1. SubSeq(u, 1, k - 1) \in Seq(Int)
          BY <1>4
        <4>2. <<u[k]>> \in Seq(Int)
          BY <2>4
        <4>3. f[at + 1 + k] \in Seq(Int)
          BY <2>4
        <4> QED
          BY <4>1, <4>2, <4>3, Associative
      <3> QED
        BY <3>1 DEF Cat
    <2>6. k \in 0..n
      BY <1>1
    <2> QED
      BY <1>4, <2>1, <2>2, <2>3, <2>5, <2>6
  <1>8. T = 0..n
    <2>1. T \in SUBSET (0..n)
      OBVIOUS
    <2> HIDE DEF T
    <2> QED
      BY <1>1, <1>6, <1>7, <2>1, Upto
  <1>9. n \in T
    <2>1. n \in 0..n
      BY <1>1
    <2> HIDE DEF T
    <2> QED
      BY <1>8, <2>1
  <1> QED
    BY <1>5, <1>9 DEF n

\* However a character is spelt, short of \b and \f, the node reads the character.
LEMMA CharRead ==
    ASSUME NEW j \in Seq(Unit), NEW f, Reads(f, j, 1), NEW at \in Nat,
           NEW c \in Chars, NEW x \in Spellings(c), Occurs(x, j, at),
           \A i \in 1..Len(j) : j[i] \notin Unread
    PROVE  f[at + 1] = Utf8(c) \o f[at + 1 + Len(x)]
  <1>1. c \in Nat /\ IsCode(c) /\ ~IsHigh(c)
    BY CharIs
  <1>2. /\ Utf8(c) = Decoded(c)
        /\ Utf8(c) \in Seq(Int) /\ Len(Utf8(c)) \in Nat
        /\ c < 128 => Utf8(c) = <<c>>
        /\ c >= 128 => \A k \in 1..Len(Utf8(c)) : Utf8(c)[k] >= 128
    <2>1. Utf8(c) = Decoded(c)
      BY <1>1, Utf8IsDecoded
    <2>2. IsCode(c)
      BY <1>1
    <2>3. /\ Utf8(c) \in Seq(Int) /\ Len(Utf8(c)) \in 1..4
          /\ c < 128 => Utf8(c) = <<c>>
          /\ c >= 128 => \A k \in 1..Len(Utf8(c)) : Utf8(c)[k] >= 128
      BY <2>2, Utf8Bytes, Zenon
    <2>4. Len(Utf8(c)) \in Nat
      BY <2>3
    <2> QED
      BY <2>1, <2>3, <2>4, Zenon
  <1>3. Len(j) \in Nat
    OBVIOUS
  <1>4. CASE /\ ~(c < 32 \/ c \in {Quote, Backslash})
             /\ x = [i \in DOMAIN Utf8(c) |-> Byte(Utf8(c)[i])]
    <2>1. \A k \in 1..Len(Utf8(c)) : Utf8(c)[k] # Quote
      <3>1. CASE c < 128
        <4>1. Utf8(c) = <<c>> /\ c # Quote
          BY <1>2, <1>4, <3>1
        <4> QED
          BY <4>1
      <3>2. CASE c >= 128
        BY <1>2, <3>2 DEF Quote
      <3> QED
        BY <1>1, <3>1, <3>2
    <2>2. Len(x) = Len(Utf8(c))
      BY <1>2, <1>4
    <2> QED
      <3> DEFINE u == Utf8(c)
      <3>1. /\ u \in Seq(Int) /\ Len(u) \in Nat /\ \A k \in 1..Len(u) : u[k] # Quote
            /\ x = [k \in DOMAIN u |-> Byte(u[k])] /\ Len(x) = Len(u)
        BY <1>2, <1>4, <2>1, <2>2
      <3> HIDE DEF u
      <3>2. f[at + 1] = u \o f[at + 1 + Len(u)]
        BY <3>1, BytesRead
      <3> QED
        BY <3>1, <3>2 DEF u
  <1>5. CASE c \in DOMAIN ServerLetter /\ x = <<Esc(ServerLetter[c])>>
    <2>1. Len(x) = 1 /\ at + 1 \in 1..Len(j) /\ j[at + 1] = Esc(ServerLetter[c])
      BY <1>3, <1>5 DEF Occurs
    <2>2. f[at + 1] = <<Unescape(ServerLetter[c])>> \o f[at + 1 + 1]
      BY <2>1, UnitRead
    <2>3. Unescape(ServerLetter[c]) = c
      <3>1. Esc(ServerLetter[c]) \notin Unread
        BY <2>1
      <3> QED
        BY <1>5, <3>1, ServerLetterUndone
    <2>4. c < 128
      BY <1>5, ServerLetterIs
    <2> QED
      BY <1>2, <2>1, <2>2, <2>3, <2>4
  <1>6. CASE ~Wide(c) /\ x = <<Hex(c)>>
    <2>1. Len(x) = 1 /\ at + 1 \in 1..Len(j) /\ j[at + 1] = Hex(c)
      BY <1>3, <1>6 DEF Occurs
    <2>2. f[at + 1] = Decoded(c) \o f[at + 1 + 1]
      BY <1>1, <2>1, UnitRead
    <2> QED
      BY <1>2, <2>1, <2>2
  <1>7. CASE Wide(c) /\ x = <<Hex(High(c)), Hex(Low(c))>>
    <2>1. /\ Len(x) = 2 /\ at + 1 \in 1..Len(j) /\ at + 1 + 1 \in 1..Len(j)
          /\ j[at + 1] = Hex(High(c)) /\ j[at + 1 + 1] = Hex(Low(c))
      BY <1>3, <1>7 DEF Occurs
    <2>2. IsHigh(High(c)) /\ IsLow(Low(c))
      BY <1>1, <1>7, Surrogates
    <2>3. f[at + 1] = Decoded(Joint(High(c), Low(c))) \o f[at + 1 + 2]
      BY <2>1, <2>2, PairRead
    <2>4. Joint(High(c), Low(c)) = c
      BY <1>1, <1>7, Surrogates
    <2>5. f[at + 1] = Decoded(c) \o f[at + 1 + 2]
      BY <2>3, <2>4
    <2> QED
      BY <1>2, <2>1, <2>5
  <1> QED
    BY <1>1, <1>4, <1>5, <1>6, <1>7, SpellingIs

\* A text is a sequence of characters.
LEMMA TextIs ==
    ASSUME NEW text \in Texts
    PROVE  text \in Seq(Chars) /\ Len(text) \in Nat /\ DOMAIN text = 1..Len(text)
  <1>1. PICK n \in 0..MaxChars : text \in [1..n -> Chars]
    BY DEF Texts
  <1>2. n \in Nat
    BY TextAssumption
  <1> QED
    BY <1>1, <1>2

\* The characters of a text in UTF-8.
Utf8s(text) == [i \in DOMAIN text |-> Utf8(text[i])]

LEMMA Utf8sType ==
    ASSUME NEW text \in Texts
    PROVE  /\ Utf8s(text) \in Seq(Seq(Int)) /\ Len(Utf8s(text)) = Len(text)
           /\ \A i \in 1..Len(text) : Utf8s(text)[i] = Utf8(text[i])
           /\ Bytes(text) = FlattenSeq(Utf8s(text))
  <1>1. text \in Seq(Chars) /\ Len(text) \in Nat /\ DOMAIN text = 1..Len(text)
    BY TextIs
  <1>2. \A c \in Chars : Utf8(c) \in Seq(Int)
    BY CharIs, Utf8Bytes
  <1>3. Utf8s(text) \in [1..Len(text) -> Seq(Int)]
    BY <1>1, <1>2 DEF Utf8s
  <1>4. Bytes(text) = FlattenSeq(Utf8s(text))
    BY DEF Bytes, Utf8s
  <1>5. \A i \in 1..Len(text) : Utf8s(text)[i] = Utf8(text[i])
    BY <1>1 DEF Utf8s
  <1> QED
    BY <1>1, <1>3, <1>4, <1>5

\* The spellings of the characters of a text, one for each.
LEMMA SpeltIs ==
    ASSUME NEW text \in Texts, NEW u \in Spelt(text)
    PROVE  /\ u \in Seq(Seq(Unit)) /\ Len(u) = Len(text)
           /\ \A i \in 1..Len(text) : text[i] \in Chars /\ u[i] \in Spellings(text[i])
  <1>1. text \in Seq(Chars) /\ Len(text) \in Nat /\ DOMAIN text = 1..Len(text)
    BY TextIs
  <1>2. /\ u \in [1..Len(text) -> UNION {Spellings(text[i]) : i \in DOMAIN text}]
        /\ \A i \in 1..Len(text) : u[i] \in Spellings(text[i])
    BY <1>1 DEF Spelt
  <1>3. \A i \in 1..Len(text) : text[i] \in Chars
    BY <1>1
  <1>4. \A i \in 1..Len(text) : u[i] \in Seq(Unit)
    BY <1>2, <1>3, SpellingType
  <1>5. u \in [1..Len(text) -> Seq(Unit)]
    BY <1>2, <1>4
  <1>6. u \in Seq(Seq(Unit)) /\ Len(u) = Len(text)
    <2> HIDE DEF Unit
    <2> QED
      BY <1>1, <1>5
  <1> QED
    BY <1>2, <1>3, <1>6

\* However a text is spelt, short of \b and \f, the node reads the text.
LEMMA TextRead ==
    ASSUME NEW text \in Texts, NEW body \in Encodings(text),
           \A i \in DOMAIN body : body[i] \notin Unread
    PROVE  json_get_string(body) = Bytes(text)
  <1>1. PICK u \in Spelt(text) : body = FlattenSeq(u)
    BY DEF Encodings
  <1> DEFINE n == Len(text)
             b == Utf8s(text)
  <1>2. /\ u \in Seq(Seq(Unit)) /\ Len(u) = n
        /\ \A i \in 1..n : text[i] \in Chars /\ u[i] \in Spellings(text[i])
    BY SpeltIs
  <1>3. /\ b \in Seq(Seq(Int)) /\ Len(b) = n /\ Bytes(text) = FlattenSeq(b)
        /\ \A i \in 1..n : b[i] = Utf8(text[i])
    BY Utf8sType
  <1>4. n \in Nat
    BY TextIs
  <1> HIDE DEF n, b
  <1>5. PICK F \in [0..Len(u) -> Seq(Unit)] : Runs(F, u)
    BY <1>2, FlattenRuns
  <1>6. PICK B \in [0..Len(b) -> Seq(Int)] : Runs(B, b)
    BY <1>3, FlattenRuns
  <1>7. /\ F \in [0..n -> Seq(Unit)] /\ B \in [0..n -> Seq(Int)]
        /\ F[0] = <<>> /\ B[0] = <<>> /\ F[n] = body /\ B[n] = Bytes(text)
        /\ \A i \in 1..n : B[i] = B[i - 1] \o b[i]
    BY <1>1, <1>2, <1>3, <1>5, <1>6 DEF Runs
  <1>8. body \in Seq(Unit)
    BY <1>4, <1>7
  <1>9. PICK f : Reads(f, body, 1) /\ json_get_string(body) = f[1]
    <2> DEFINE f == CHOOSE f : Reads(f, body, 1)
    <2>1. Len(body) \in Nat
      BY <1>8
    <2>2. Reads(f, body, 1)
      BY <2>1, ReaderExists
    <2>3. json_get_string(body) = f[1]
      BY DEF json_get_string, Reads
    <2> QED
      BY <2>2, <2>3
  <1>10. /\ \A i \in 1..(Len(body) + 2) : f[i] \in Seq(Int)
         /\ f[Len(body) + 1] = <<>>
    BY <1>8, <1>9, ReaderType
  <1> DEFINE T == {k \in 0..n : f[1] = B[k] \o f[1 + Len(F[k])]}
  <1>11. 0 \in T
    <2>1. Len(F[0]) = 0 /\ 1 \in 1..(Len(body) + 2)
      BY <1>7, <1>8
    <2>2. f[1] \in Seq(Int)
      BY <1>10, <2>1
    <2>3. <<>> \o f[1] = f[1]
      BY <2>2, Joined
    <2>4. B[0] \o f[1 + Len(F[0])] = f[1]
      <3>1. 1 + Len(F[0]) = 1
        BY <2>1
      <3> QED
        BY <1>7, <2>3, <3>1
    <2>5. 0 \in 0..n
      BY <1>4
    <2> QED
      BY <2>4, <2>5
  <1>12. ASSUME NEW k \in 1..n, k - 1 \in T
         PROVE  k \in T
    <2>1. k \in 0..n /\ k - 1 \in 0..n /\ k \in 1..Len(u)
      BY <1>2, <1>4
    <2>2. /\ Occurs(u[k], body, Len(F[k - 1]))
          /\ Len(F[k]) = Len(F[k - 1]) + Len(u[k])
      BY <1>1, <1>2, <1>5, <2>1, FlattenParts
    <2>3. F[k - 1] \in Seq(Unit) /\ F[k] \in Seq(Unit) /\ B[k - 1] \in Seq(Int)
      BY <1>7, <2>1
    <2>4. PICK at \in Nat : at = Len(F[k - 1])
      BY <2>3
    <2>5. f[at + 1] = Utf8(text[k]) \o f[at + 1 + Len(u[k])]
      <3> DEFINE c == text[k]
                 x == u[k]
      <3>1. c \in Chars
        BY <1>2
      <3>2. x \in Spellings(c)
        BY <1>2
      <3>3. Occurs(x, body, at)
        BY <2>2, <2>4
      <3>4. Reads(f, body, 1)
        BY <1>9
      <3> HIDE DEF c, x
      <3>5. \A i \in 1..Len(body) : body[i] \notin Unread
        BY <1>8
      <3>6. f[at + 1] = Utf8(c) \o f[at + 1 + Len(x)]
        BY <1>8, <3>1, <3>2, <3>3, <3>4, <3>5, CharRead
      <3> QED
        BY <3>6 DEF c, x
    <2>6. PICK to \in Nat : to = Len(F[k])
      BY <2>3
    <2>7. PICK w \in Nat : w = Len(u[k])
      BY <1>2, <2>1
    <2>8. to = at + w /\ to <= Len(body) /\ Len(body) \in Nat
      <3>1. Len(F[k - 1]) + Len(u[k]) <= Len(body) /\ Len(body) \in Nat
        <4>1. Len(body) \in Nat
          BY <1>8
        <4> QED
          BY <2>2, <4>1 DEF Occurs
      <3>2. at + w <= Len(body)
        BY <2>4, <2>7, <3>1
      <3>3. to = at + w
        BY <2>2, <2>4, <2>6, <2>7
      <3> QED
        BY <3>1, <3>2, <3>3
    <2>9. at + 1 + w = 1 + to /\ at + 1 = 1 + at /\ 1 + to \in 1..(Len(body) + 2)
      BY ONLY <2>8, at \in Nat, to \in Nat, w \in Nat
    <2>10. f[1 + at] = b[k] \o f[1 + to]
      BY <1>3, <2>5, <2>7, <2>9
    <2>11. f[1] = B[k - 1] \o f[1 + at]
      BY <1>12, <2>4
    <2>12. b[k] \in Seq(Int) /\ f[1 + to] \in Seq(Int)
      BY <1>3, <1>10, <2>9
    <2>13. (B[k - 1] \o b[k]) \o f[1 + to] = B[k - 1] \o (b[k] \o f[1 + to])
      <3>1. Cat(Cat(B[k - 1], b[k]), f[1 + to])
              = Cat(B[k - 1], Cat(b[k], f[1 + to]))
        <4>1. B[k - 1] \in Seq(Int)
          BY <2>3
        <4>2. b[k] \in Seq(Int)
          BY <2>12
        <4>3. f[1 + to] \in Seq(Int)
          BY <2>12
        <4> QED
          BY <4>1, <4>2, <4>3, Associative
      <3> QED
        BY <3>1 DEF Cat
    <2>14. f[1] = B[k] \o f[1 + to]
      BY <1>7, <2>10, <2>11, <2>13
    <2> QED
      BY <2>1, <2>6, <2>14
  <1>13. T = 0..n
    <2>1. T \in SUBSET (0..n)
      OBVIOUS
    <2> HIDE DEF T
    <2> QED
      BY <1>4, <1>11, <1>12, <2>1, Upto
  <1>14. f[1] = B[n] \o f[1 + Len(F[n])]
    <2>1. n \in 0..n
      BY <1>4
    <2>2. n \in T
      <3> HIDE DEF T
      <3> QED
        BY <1>13, <2>1
    <2> QED
      BY <2>2
  <1>15. 1 + Len(body) = Len(body) + 1
    BY <1>8
  <1>16. B[n] \in Seq(Int)
    BY <1>4, <1>7
  <1>17. B[n] \o <<>> = B[n]
    BY <1>16
  <1> QED
    BY <1>7, <1>9, <1>10, <1>14, <1>15, <1>17

\* What json_escape() makes of one byte.
Escaped(b) == IF b \in DOMAIN Letter THEN Esc(Letter[b]) ELSE Byte(b)

LEMMA EscapeIs ==
    ASSUME NEW s \in Seq(Int)
    PROVE  /\ json_escape(s) \in Seq({Escaped(b) : b \in Int})
           /\ Len(json_escape(s)) = Len(s)
           /\ \A k \in 1..Len(s) : json_escape(s)[k] = Escaped(s[k])
  <1>1. DOMAIN s = 1..Len(s) /\ Len(s) \in Nat /\ \A k \in 1..Len(s) : s[k] \in Int
    OBVIOUS
  <1>2. json_escape(s) = [k \in 1..Len(s) |-> Escaped(s[k])]
    BY <1>1 DEF json_escape, Escaped
  <1>3. json_escape(s) \in [1..Len(s) -> {Escaped(b) : b \in Int}]
    BY <1>1, <1>2
  <1> QED
    BY <1>1, <1>2, <1>3

\* A sequence that agrees with one and the one behind it is the two in a row.
LEMMA JoinedWhen ==
    ASSUME NEW S, NEW p \in Seq(S), NEW q \in Seq(S), NEW e \in Seq(S),
           Len(e) = Len(p) + Len(q),
           \A k \in 1..Len(p) : e[k] = p[k],
           \A k \in 1..Len(q) : e[Len(p) + k] = q[k]
    PROVE  e = p \o q
  <1> DEFINE c == p \o q
  <1>1. /\ c \in Seq(S) /\ Len(c) = Len(p) + Len(q) /\ Len(p) \in Nat /\ Len(q) \in Nat
        /\ \A k \in 1..Len(p) : c[k] = p[k]
        /\ \A k \in 1..Len(q) : c[Len(p) + k] = q[k]
    BY Joined
  <1> HIDE DEF c
  <1>2. ASSUME NEW k \in 1..(Len(p) + Len(q))
        PROVE  e[k] = c[k]
    <2>1. CASE k \in 1..Len(p)
      BY <1>1, <2>1
    <2>2. CASE k \notin 1..Len(p)
      <3>1. k - Len(p) \in 1..Len(q) /\ k = Len(p) + (k - Len(p))
        BY <1>1, <2>2
      <3>2. PICK i \in 1..Len(q) : k = Len(p) + i
        BY <3>1
      <3> QED
        BY <1>1, <3>2
    <2> QED
      BY <2>1, <2>2
  <1>3. e = c
    BY <1>1, <1>2
  <1> QED
    BY <1>3 DEF c

\* Two texts in a row are escaped one after the other.
LEMMA EscapeJoined ==
    ASSUME NEW a \in Seq(Int), NEW b \in Seq(Int)
    PROVE  json_escape(a \o b) = json_escape(a) \o json_escape(b)
  <1> DEFINE S == {Escaped(v) : v \in Int}
             p == json_escape(a)
             q == json_escape(b)
             e == json_escape(a \o b)
  <1>1. a \o b \in Seq(Int) /\ Len(a \o b) = Len(a) + Len(b) /\ Len(a) \in Nat /\ Len(b) \in Nat
    BY Joined
  <1>2. /\ p \in Seq(S) /\ Len(p) = Len(a) /\ \A k \in 1..Len(a) : p[k] = Escaped(a[k])
        /\ q \in Seq(S) /\ Len(q) = Len(b) /\ \A k \in 1..Len(b) : q[k] = Escaped(b[k])
    BY EscapeIs
  <1>3. e \in Seq(S) /\ Len(e) = Len(a) + Len(b)
        /\ \A k \in 1..(Len(a) + Len(b)) : e[k] = Escaped((a \o b)[k])
    BY <1>1, EscapeIs
  <1>4. /\ \A k \in 1..Len(a) : (a \o b)[k] = a[k]
        /\ \A k \in 1..Len(b) : (a \o b)[Len(a) + k] = b[k]
    BY Joined
  <1> HIDE DEF S, p, q, e
  <1>5. \A k \in 1..Len(a) : e[k] = p[k]
    <2>1. \A k \in 1..Len(a) : k \in 1..(Len(a) + Len(b))
      BY <1>1
    <2> QED
      BY <1>2, <1>3, <1>4, <2>1
  <1>6. \A k \in 1..Len(b) : e[Len(a) + k] = q[k]
    <2>1. \A k \in 1..Len(b) : Len(a) + k \in 1..(Len(a) + Len(b))
      BY <1>1
    <2> QED
      BY <1>2, <1>3, <1>4, <2>1
  <1>7. e = p \o q
    <2>1. p \in Seq(S)
      BY <1>2
    <2>2. q \in Seq(S)
      BY <1>2
    <2>3. e \in Seq(S)
      BY <1>3
    <2>4. Len(e) = Len(p) + Len(q)
      BY <1>2, <1>3
    <2>5. \A k \in 1..Len(p) : e[k] = p[k]
      BY <1>2, <1>5
    <2>6. \A k \in 1..Len(q) : e[Len(p) + k] = q[k]
      BY <1>2, <1>6
    <2> QED
      BY <2>1, <2>2, <2>3, <2>4, <2>5, <2>6, JoinedWhen
  <1> QED
    BY <1>7 DEF p, q, e

\* A character that the node escapes is spelt as a server understands it.
LEMMA CharEscaped ==
    ASSUME NEW c \in Chars, ~Bare(c)
    PROVE  json_escape(Utf8(c)) \in Spellings(c)
  <1>1. c \in Nat /\ IsCode(c) /\ (c < 32 => c \in DOMAIN Letter)
    BY CharIs DEF Bare
  <1>2. /\ Utf8(c) \in Seq(Int) /\ Len(Utf8(c)) \in Nat
        /\ c < 128 => Utf8(c) = <<c>>
        /\ c >= 128 => \A k \in 1..Len(Utf8(c)) : Utf8(c)[k] >= 128
    BY <1>1, Utf8Bytes
  <1>3. CASE c \in DOMAIN Letter
    <2>1. Utf8(c) = <<c>>
      BY <1>2, <1>3, LetterIs
    <2>2. json_escape(<<c>>) = <<Esc(Letter[c])>>
      BY <1>3 DEF json_escape
    <2>3. <<Esc(Letter[c])>> \in {<<Esc(ServerLetter[k])>> : k \in {c} \cap DOMAIN ServerLetter}
      BY <1>3, ServerLetterUndone
    <2> QED
      BY SMT, <2>1, <2>2, <2>3 DEF Spellings
  <1>4. CASE c \notin DOMAIN Letter
    <2>1. ~(c < 32) /\ c \notin {Quote, Backslash}
      BY <1>1, <1>4, LetterIs DEF Quote, Backslash
    <2>2. \A k \in DOMAIN Utf8(c) : Utf8(c)[k] \notin DOMAIN Letter
      <3>1. CASE c < 128
        <4>1. Utf8(c) = <<c>>
          BY <1>2, <3>1
        <4> QED
          BY <1>4, <4>1
      <3>2. CASE c >= 128
        <4>1. \A k \in DOMAIN Utf8(c) : Utf8(c)[k] >= 128
          BY <1>2, <3>2
        <4>2. \A b \in DOMAIN Letter : ~(b >= 128)
          BY LetterIs
        <4> QED
          BY <4>1, <4>2
      <3> QED
        BY <1>1, <3>1, <3>2
    <2>3. json_escape(Utf8(c)) = [i \in DOMAIN Utf8(c) |-> Byte(Utf8(c)[i])]
      BY <2>2 DEF json_escape
    <2> QED
      BY SMT, <1>4, <2>1, <2>3 DEF Spellings
  <1> QED
    BY <1>3, <1>4

\* A text that the node escapes is one that a server understands.
LEMMA TextEscaped ==
    ASSUME NEW text \in Texts, \A i \in DOMAIN text : ~Bare(text[i])
    PROVE  json_escape(Bytes(text)) \in Encodings(text)
  <1> DEFINE n == Len(text)
             b == Utf8s(text)
             u == [i \in DOMAIN text |-> json_escape(Utf8(text[i]))]
  <1>1. /\ b \in Seq(Seq(Int)) /\ Len(b) = n /\ Bytes(text) = FlattenSeq(b)
        /\ \A i \in 1..n : b[i] = Utf8(text[i])
    BY Utf8sType
  <1>2. n \in Nat /\ DOMAIN text = 1..n /\ \A i \in 1..n : text[i] \in Chars
    <2>1. text \in Seq(Chars) /\ n \in Nat /\ DOMAIN text = 1..n
      BY TextIs
    <2> QED
      BY <2>1
  <1>3. u \in Spelt(text)
    <2>1. ASSUME NEW i \in DOMAIN text
          PROVE  json_escape(Utf8(text[i])) \in Spellings(text[i])
      <3>1. text[i] \in Chars /\ ~Bare(text[i])
        BY <1>2
      <3> QED
        BY <3>1, CharEscaped
    <2> QED
      BY <2>1 DEF Spelt
  <1>4. \A i \in 1..n : u[i] = json_escape(b[i])
    BY <1>1, <1>2
  <1> HIDE DEF u, n, b
  <1>5. u \in Seq(Seq(Unit)) /\ Len(u) = n
    BY <1>3, SpeltIs DEF n
  <1>6. PICK U \in [0..Len(u) -> Seq(Unit)] : Runs(U, u)
    BY <1>5, FlattenRuns
  <1>7. PICK B \in [0..Len(b) -> Seq(Int)] : Runs(B, b)
    BY <1>1, FlattenRuns
  <1>8. /\ U[0] = <<>> /\ B[0] = <<>> /\ B \in [0..n -> Seq(Int)]
        /\ U[n] = FlattenSeq(u) /\ B[n] = Bytes(text)
        /\ \A i \in 1..n : U[i] = U[i - 1] \o u[i] /\ B[i] = B[i - 1] \o b[i]
    BY <1>1, <1>5, <1>6, <1>7 DEF Runs
  <1> DEFINE T == {k \in 0..n : U[k] = json_escape(B[k])}
  <1>9. 0 \in T
    <2>1. json_escape(<<>>) = <<>>
      BY DEF json_escape
    <2> QED
      BY <1>2, <1>8, <2>1
  <1>10. ASSUME NEW k \in 1..n, k - 1 \in T
         PROVE  k \in T
    <2>1. k \in 0..n /\ k - 1 \in 0..n
      BY <1>2
    <2>2. B[k - 1] \in Seq(Int) /\ b[k] \in Seq(Int)
      <3>1. B[k - 1] \in Seq(Int)
        BY <1>8, <2>1
      <3>2. b[k] \in Seq(Int)
        BY <1>1
      <3> QED
        BY <3>1, <3>2
    <2>3. json_escape(B[k - 1] \o b[k]) = json_escape(B[k - 1]) \o json_escape(b[k])
      BY <2>2, EscapeJoined
    <2> QED
      BY <1>4, <1>8, <1>10, <2>1, <2>3
  <1>11. T = 0..n
    <2>1. T \in SUBSET (0..n)
      OBVIOUS
    <2> HIDE DEF T
    <2> QED
      BY <1>2, <1>9, <1>10, <2>1, Upto
  <1>12. n \in T
    <2>1. n \in 0..n
      BY <1>2
    <2> HIDE DEF T
    <2> QED
      BY <1>11, <2>1
  <1>13. FlattenSeq(u) = json_escape(Bytes(text))
    BY <1>8, <1>12
  <1> QED
    BY <1>3, <1>13 DEF Encodings

\* What a prompt or an answer may lose is the texts that are named for it.
LEMMA PromptKept ==
    ASSUME NEW asked \in Asking
    PROVE  "plain" \notin asked
  <1>1. PICK text \in Texts : asked = LostPrompt(text)
    BY DEF Asking
  <1>2. Asked(text) \/ \E i \in DOMAIN text : Bare(text[i])
    BY TextEscaped DEF Asked
  <1> QED
    BY <1>1, <1>2 DEF LostPrompt

LEMMA AnswerKept ==
    ASSUME NEW heard \in Hearing
    PROVE  "plain" \notin heard
  <1>1. PICK text \in Texts : heard \in {LostAnswer(text, body) : body \in Encodings(text)}
    BY DEF Hearing
  <1>2. PICK body \in Encodings(text) : heard = LostAnswer(text, body)
    BY <1>1
  <1>3. Heard(text, body) \/ \E i \in DOMAIN body : body[i] \in Unread
    <2>1. ASSUME \A i \in DOMAIN body : body[i] \notin Unread
          PROVE  Heard(text, body)
      <3>1. json_get_string(body) = Bytes(text)
        BY <2>1, TextRead
      <3> QED
        BY <3>1 DEF Heard
    <2> QED
      BY <2>1
  <1> QED
    BY <1>2, <1>3 DEF LostAnswer

\* So is what an asking of the server adds.
LEMMA PostKept ==
    ASSUME NEW s \in Sessions, LoopPost(s)
    PROVE  "plain" \in garbled' => "plain" \in garbled
  <1>1. CASE UNCHANGED garbled
    BY <1>1
  <1>2. CASE \E asked \in Asking, heard \in Hearing \cup {{}} :
                garbled' = garbled \cup asked \cup heard
    <2>1. PICK asked \in Asking, heard \in Hearing \cup {{}} :
                garbled' = garbled \cup asked \cup heard
      BY <1>2
    <2>2. "plain" \notin asked
      BY PromptKept
    <2>3. "plain" \notin heard
      <3>1. CASE heard \in Hearing
        BY <3>1, AnswerKept
      <3>2. CASE heard = {}
        BY <3>2
      <3> QED
        BY <3>1, <3>2
    <2> QED
      BY <2>1, <2>2, <2>3
  <1> QED
    BY <1>1, <1>2 DEF LoopPost

\* No step garbles a text.
LEMMA TextStep == TextsSurvive /\ [Next]_vars => TextsSurvive'
  <1> SUFFICES ASSUME TextsSurvive, [Next]_vars PROVE TextsSurvive'
    OBVIOUS
  <1>1. CASE UNCHANGED vars
    BY <1>1 DEF TextsSurvive, vars
  <1>2. CASE OpenBegin \/ CloseBegin \/ ControlStep
    <2>1. garbled' = garbled
      BY <1>2 DEF OpenBegin, CloseBegin, ControlStep, OpenConnect, OpenAnswers, OpenRequests,
         OpenLoop, CloseRequests, CloseJoin, CloseNull
    <2> QED
      BY <2>1 DEF TextsSurvive
  <1>3. ASSUME NEW s \in Sessions, LooperStep(s)
        PROVE  TextsSurvive'
    <2>1. CASE LoopPost(s)
      BY <2>1, PostKept DEF TextsSurvive
    <2>2. CASE LoopTop(s) \/ LoopGet(s) \/ LoopRemove(s) \/ LoopCheck(s) \/ LoopOffer(s) \/ LoopAdd(s)
      <3>1. garbled' = garbled
        BY <2>2 DEF LoopTop, LoopGet, LoopRemove, LoopCheck, LoopOffer, LoopAdd
      <3> QED
        BY <3>1 DEF TextsSurvive
    <2> QED
      BY <1>3, <2>1, <2>2 DEF LooperStep
  <1>4. ASSUME NEW w \in Writers, WriteBegin(w) \/ WriteAdd(w)
        PROVE  TextsSurvive'
    <2>1. garbled' = garbled
      BY <1>4 DEF WriteBegin, WriteAdd
    <2> QED
      BY <2>1 DEF TextsSurvive
  <1>5. ASSUME NEW r \in Readers, ReadBegin(r) \/ ReaderStep(r)
        PROVE  TextsSurvive'
    <2>1. garbled' = garbled
      BY <1>5 DEF ReadBegin, ReaderStep, ReadGet, ReadTake
    <2> QED
      BY <2>1 DEF TextsSurvive
  <1> QED
    BY <1>1, <1>2, <1>3, <1>4, <1>5 DEF Next

\* For every set of characters of Unicode and texts of any length: what
\* json_escape() writes of a prompt is the prompt, unless it has a control
\* character without a letter; and in every spelling that a server may choose,
\* short of \b and \f, what json_get_string() reads is the answer.
THEOREM TextsCorrect == Spec => []TextsSurvive
  <1>1. Init => TextsSurvive
    BY DEF Init, TextsSurvive
  <1> QED
    BY <1>1, TextStep, PTL DEF Spec
=============================================================================
