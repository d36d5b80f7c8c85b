----------------------------- MODULE OllamaNode -----------------------------
(***************************************************************************)
(* OllamaNode: writers put prompts on a request queue, a background thread  *)
(* (looper) takes them one by one, asks the server, and puts the answers on *)
(* the queue that readers take from.  Nothing is locked; the queues and     *)
(* _cancel are all that the threads share safely.  Messages other than      *)
(* writes and reads come from one thread.                                   *)
(*                                                                         *)
(* Everything an open() makes has the number of that open(): its two queues *)
(* and its looper.  A prompt is its number in the order of arrival, and the *)
(* answer to it has that number too.  The server, and the queue, are        *)
(* external: remove() blocks until there is an item or the queue is closed  *)
(* and empty; add() to a closed queue throws; a queue that nobody holds any *)
(* more is closed.  A call through a null pointer, and an exception in the  *)
(* looper, end the program.                                                 *)
(***************************************************************************)
EXTENDS JsonText

CONSTANTS
    Readers, Writers,
    MaxOpens,     \* bound: calls of open() that succeed
    MaxPrompts,   \* bound: strings written
    MaxStrings    \* bound: strings in one StringValue

Threads == Readers \cup Writers
Sessions == 1..MaxOpens
None == 0
Prompts == 1..MaxPrompts

ASSUME ThreadAssumption == Readers \cap Writers = {}
ASSUME BoundAssumption ==
    {MaxOpens, MaxPrompts} \subseteq Nat /\ MaxStrings \in Nat \ {0}

VARIABLES
    \* the node
    cancel,      \* _cancel
    loop,        \* _loop: the session whose looper it points to, or None
    qvp,         \* _qvp: the session whose answers it holds, or None
    req_queue,   \* _req_queue: the session whose prompts it holds, or None
    \* the queues
    prompts,     \* prompts waiting, per session
    closed,      \* the prompt queue of a session is closed
    answers,     \* answers waiting, per session
    \* the loopers, per session
    lpc,         \* where the looper is; "none" before it starts
    lqueue,      \* the queue it waits on
    lreq,        \* the prompt it works on
    \* the threads
    cpc,         \* the thread that opens and closes
    opening,     \* the session it opens
    pc,          \* readers and writers
    left,        \* strings a writer has still to add
    source,      \* the answers a reader waits for
    keeps,       \* the reader holds a reference, from stream()
    \* history
    opens,       \* sessions so far
    arrived,     \* prompts so far
    accepted,    \* prompts that were added, per session
    given,       \* answers that were added, per session
    garbled,     \* of which texts one was not understood as it was meant
    reopened,    \* TRUE once open() replaced a session that was not closed
    terminated   \* the program has ended

nodeVars == <<cancel, loop, qvp, req_queue>>
queueVars == <<prompts, closed, answers>>
loopVars == <<lpc, lqueue, lreq>>
writeVars == <<left, arrived, accepted>>
readVars == <<source, keeps>>
vars == <<nodeVars, queueVars, loopVars, cpc, opening, pc, writeVars, readVars,
          opens, given, garbled, reopened, terminated>>

LoopPc == {"none", "lp_top", "lp_get", "lp_wait", "lp_check", "lp_post", "lp_offer", "lp_add",
           "done"}
ControlPc == {"idle", "op_connect", "op_qvp", "op_req", "op_loop", "cl_req", "cl_join", "cl_null"}

\* Prompts with a bare control character; answers with \b or \f; all others.
TextKinds == {"prompt", "answer", "plain"}

NodeType ==
    /\ cancel \in BOOLEAN
    /\ loop \in {None} \cup Sessions
    /\ qvp \in {None} \cup Sessions
    /\ req_queue \in {None} \cup Sessions
QueueType ==
    /\ prompts \in [Sessions -> Seq(Prompts)]
    /\ closed \in [Sessions -> BOOLEAN]
    /\ answers \in [Sessions -> Seq(Prompts)]
    /\ accepted \in [Sessions -> Seq(Prompts)]
    /\ given \in [Sessions -> Seq(Prompts)]
    /\ arrived \in 0..MaxPrompts
LooperType ==
    /\ lpc \in [Sessions -> LoopPc]
    /\ lqueue \in [Sessions -> {None} \cup Sessions]
    /\ lreq \in [Sessions -> {None} \cup Prompts]
    /\ \A s \in Sessions :
         /\ lpc[s] = "lp_wait" => lqueue[s] # None
         /\ lpc[s] \in {"lp_check", "lp_post", "lp_offer", "lp_add"} => lreq[s] # None
ControlType ==
    /\ cpc \in ControlPc
    /\ opening \in {None} \cup Sessions
    /\ opens \in 0..MaxOpens
    /\ cpc = "op_connect" => opens < MaxOpens
ThreadType ==
    /\ pc \in [Threads -> {"idle", "wr_add", "rd_get", "rd_take"}]
    /\ left \in [Writers -> 0..MaxStrings]
    /\ source \in [Readers -> {None} \cup Sessions]
    /\ keeps \in [Readers -> BOOLEAN]
    /\ \A w \in Writers : pc[w] = "wr_add" => left[w] # 0
    /\ \A r \in Readers : pc[r] = "rd_take" => source[r] # None
FlagType == garbled \subseteq TextKinds /\ reopened \in BOOLEAN /\ terminated \in BOOLEAN

TypeOK == NodeType /\ QueueType /\ LooperType /\ ControlType /\ ThreadType /\ FlagType

Init ==
    /\ cancel = FALSE
    /\ loop = None /\ qvp = None /\ req_queue = None
    /\ prompts = [s \in Sessions |-> <<>>]
    /\ closed = [s \in Sessions |-> FALSE]
    /\ answers = [s \in Sessions |-> <<>>]
    /\ lpc = [s \in Sessions |-> "none"]
    /\ lqueue = [s \in Sessions |-> None]
    /\ lreq = [s \in Sessions |-> None]
    /\ cpc = "idle"
    /\ opening = None
    /\ pc = [t \in Threads |-> "idle"]
    /\ left = [w \in Writers |-> 0]
    /\ source = [r \in Readers |-> None]
    /\ keeps = [r \in Readers |-> FALSE]
    /\ opens = 0
    /\ arrived = 0
    /\ accepted = [s \in Sessions |-> <<>>]
    /\ given = [s \in Sessions |-> <<>>]
    /\ garbled = {} /\ reopened = FALSE
    /\ terminated = FALSE

Goto(t, label) == pc' = [pc EXCEPT ![t] = label]
LoopGoto(s, label) == lpc' = [lpc EXCEPT ![s] = label]
Terminate == terminated' = TRUE

-----------------------------------------------------------------------------
(* open() and close()                                                       *)

\* The URL is parsed; a URL without a model throws after this step as well.
OpenBegin ==
    /\ cpc = "idle"
    /\ opens < MaxOpens
    /\ cancel' = FALSE
    /\ cpc' = "op_connect"
    /\ UNCHANGED <<loop, qvp, req_queue, queueVars, loopVars, opening, pc, writeVars,
                   readVars, opens, given, garbled, reopened, terminated>>

\* The server is there, or open() throws and leaves the node as it is.
OpenConnect ==
    /\ cpc = "op_connect"
    /\ \/ /\ cpc' = "op_qvp"
          /\ opens' = opens + 1
          /\ opening' = opens + 1
          /\ reopened' = (reopened \/ loop # None)
       \/ /\ cpc' = "idle"
          /\ UNCHANGED <<opens, opening, reopened>>
    /\ UNCHANGED <<nodeVars, queueVars, loopVars, pc, writeVars, readVars, given, garbled, terminated>>

OpenAnswers ==
    /\ cpc = "op_qvp"
    /\ qvp' = opening
    /\ cpc' = "op_req"
    /\ UNCHANGED <<cancel, loop, req_queue, queueVars, loopVars, opening, pc, writeVars,
                   readVars, opens, given, garbled, reopened, terminated>>

\* A request queue that is replaced is gone.
OpenRequests ==
    /\ cpc = "op_req"
    /\ req_queue' = opening
    /\ closed' = [s \in Sessions |-> closed[s] \/ s = req_queue]
    /\ cpc' = "op_loop"
    /\ UNCHANGED <<cancel, loop, qvp, prompts, answers, loopVars, opening, pc, writeVars,
                   readVars, opens, given, garbled, reopened, terminated>>

OpenLoop ==
    /\ cpc = "op_loop"
    /\ loop' = opening
    /\ LoopGoto(opening, "lp_top")
    /\ cpc' = "idle"
    /\ UNCHANGED <<cancel, qvp, req_queue, queueVars, lqueue, lreq, opening, pc, writeVars,
                   readVars, opens, given, garbled, reopened, terminated>>

\* close() of a node that is not open does nothing.
CloseBegin ==
    /\ cpc = "idle"
    /\ loop # None
    /\ cancel' = TRUE
    /\ cpc' = "cl_req"
    /\ UNCHANGED <<loop, qvp, req_queue, queueVars, loopVars, opening, pc, writeVars,
                   readVars, opens, given, garbled, reopened, terminated>>

\* Mutant of CloseRequests: the looper stays in remove().
CloseRequestsNot ==
    /\ cpc = "cl_req"
    /\ cpc' = "cl_join"
    /\ UNCHANGED <<nodeVars, queueVars, loopVars, opening, pc, writeVars,
                   readVars, opens, given, garbled, reopened, terminated>>

CloseRequests ==
    /\ cpc = "cl_req"
    /\ closed' = [closed EXCEPT ![req_queue] = TRUE]
    /\ cpc' = "cl_join"
    /\ UNCHANGED <<nodeVars, prompts, answers, loopVars, opening, pc, writeVars,
                   readVars, opens, given, garbled, reopened, terminated>>

\* Mutant of CloseJoin: the looper is left to end by itself.
CloseJoinNot ==
    /\ cpc = "cl_join"
    /\ loop' = None
    /\ cpc' = "cl_null"
    /\ UNCHANGED <<cancel, qvp, req_queue, queueVars, loopVars, opening, pc, writeVars,
                   readVars, opens, given, garbled, reopened, terminated>>

CloseJoin ==
    /\ cpc = "cl_join"
    /\ lpc[loop] = "done"
    /\ loop' = None
    /\ cpc' = "cl_null"
    /\ UNCHANGED <<cancel, qvp, req_queue, queueVars, loopVars, opening, pc, writeVars,
                   readVars, opens, given, garbled, reopened, terminated>>

\* The queue of answers is not closed, only let go.
CloseNull ==
    /\ cpc = "cl_null"
    /\ qvp' = None
    /\ req_queue' = None
    /\ cpc' = "idle"
    /\ UNCHANGED <<cancel, loop, queueVars, loopVars, opening, pc, writeVars,
                   readVars, opens, given, garbled, reopened, terminated>>

-----------------------------------------------------------------------------
(* looper()                                                                 *)

\* while (not _cancel)
LoopTop(s) ==
    /\ lpc[s] = "lp_top"
    /\ LoopGoto(s, IF cancel THEN "done" ELSE "lp_get")
    /\ UNCHANGED <<nodeVars, queueVars, lqueue, lreq, cpc, opening, pc, writeVars,
                   readVars, opens, given, garbled, reopened, terminated>>

\* _req_queue is read; remove() then works on that queue.
LoopGet(s) ==
    /\ lpc[s] = "lp_get"
    /\ \/ /\ req_queue # None
          /\ lqueue' = [lqueue EXCEPT ![s] = req_queue]
          /\ LoopGoto(s, "lp_wait")
          /\ UNCHANGED terminated
       \/ /\ req_queue = None
          /\ Terminate
          /\ UNCHANGED <<lqueue, lpc>>
    /\ UNCHANGED <<nodeVars, queueVars, lreq, cpc, opening, pc, writeVars,
                   readVars, opens, given, garbled, reopened>>

\* Mutant of LoopRemove: the youngest prompt first.
LoopRemoveLast(s) ==
    LET q == lqueue[s] IN
    /\ lpc[s] = "lp_wait"
    /\ \/ /\ prompts[q] # <<>>
          /\ lreq' = [lreq EXCEPT ![s] = prompts[q][Len(prompts[q])]]
          /\ prompts' = [prompts EXCEPT ![q] = SubSeq(@, 1, Len(@) - 1)]
          /\ LoopGoto(s, "lp_check")
       \/ /\ prompts[q] = <<>> /\ closed[q]
          /\ LoopGoto(s, "done")
          /\ UNCHANGED <<prompts, lreq>>
    /\ UNCHANGED <<nodeVars, closed, answers, lqueue, cpc, opening, pc, writeVars,
                   readVars, opens, given, garbled, reopened, terminated>>

\* Mutant of LoopRemove: Canceled is caught and nothing else.
LoopRemoveGoesOn(s) ==
    LET q == lqueue[s] IN
    /\ lpc[s] = "lp_wait"
    /\ prompts[q] # <<>> \/ closed[q]
    /\ lreq' = [lreq EXCEPT ![s] = IF prompts[q] = <<>> THEN None ELSE Head(prompts[q])]
    /\ prompts' = [prompts EXCEPT ![q] = IF @ = <<>> THEN @ ELSE Tail(@)]
    /\ LoopGoto(s, "lp_check")
    /\ UNCHANGED <<nodeVars, closed, answers, lqueue, cpc, opening, pc, writeVars,
                   readVars, opens, given, garbled, reopened, terminated>>

\* A prompt; or Canceled, and the looper ends.
LoopRemove(s) ==
    LET q == lqueue[s] IN
    /\ lpc[s] = "lp_wait"
    /\ \/ /\ prompts[q] # <<>>
          /\ lreq' = [lreq EXCEPT ![s] = Head(prompts[q])]
          /\ prompts' = [prompts EXCEPT ![q] = Tail(@)]
          /\ LoopGoto(s, "lp_check")
       \/ /\ prompts[q] = <<>> /\ closed[q]
          /\ LoopGoto(s, "done")
          /\ UNCHANGED <<prompts, lreq>>
    /\ UNCHANGED <<nodeVars, closed, answers, lqueue, cpc, opening, pc, writeVars,
                   readVars, opens, given, garbled, reopened, terminated>>

LoopCheck(s) ==
    /\ lpc[s] = "lp_check"
    /\ LoopGoto(s, IF cancel THEN "done" ELSE "lp_post")
    /\ UNCHANGED <<nodeVars, queueVars, lqueue, lreq, cpc, opening, pc, writeVars,
                   readVars, opens, given, garbled, reopened, terminated>>

\* A prompt, a role or a content goes out escaped, in the body of a request.
Asked(text) == json_escape(Bytes(text)) \in Encodings(text)

\* Consumers expect single lines.
OneLine(s) == [i \in DOMAIN s |-> IF s[i] \in {10, 13} THEN 32 ELSE s[i]]

\* A text that the server says is read back from the body it is spelt in.
Heard(text, body) == OneLine(json_get_string(body)) = OneLine(Bytes(text))

\* What may be lost of a prompt, and of an answer, which a server may spell in
\* any way.
LostPrompt(text) ==
    IF Asked(text) THEN {}
    ELSE {IF \E i \in DOMAIN text : Bare(text[i]) THEN "prompt" ELSE "plain"}
LostAnswer(text, body) ==
    IF Heard(text, body) THEN {}
    ELSE {IF \E i \in DOMAIN body : body[i] \in Unread THEN "answer" ELSE "plain"}
Asking == {LostPrompt(text) : text \in Texts}
Hearing == UNION {{LostAnswer(text, body) : body \in Encodings(text)} : text \in Texts}

\* do_generate() or do_chat(): the answer, or a made-up one after an error; an
\* exception, of digits that are none, leaves the thread.
LoopPost(s) ==
    /\ lpc[s] = "lp_post"
    /\ \/ /\ \E asked \in Asking, heard \in Hearing \cup {{}} :
               garbled' = garbled \cup asked \cup heard
          /\ LoopGoto(s, "lp_offer")
          /\ UNCHANGED terminated
       \/ /\ Throws(<<BadHex>>)
          /\ Terminate
          /\ UNCHANGED <<lpc, garbled>>
    /\ UNCHANGED <<nodeVars, queueVars, lqueue, lreq, cpc, opening, pc, writeVars,
                   readVars, opens, given, reopened>>

\* Mutant of LoopOffer: not _cancel is taken for _cancel.
LoopOfferCanceled(s) ==
    /\ lpc[s] = "lp_offer"
    /\ \/ /\ cancel /\ qvp # None
          /\ LoopGoto(s, "lp_add")
          /\ UNCHANGED lreq
       \/ /\ ~cancel \/ qvp = None
          /\ LoopGoto(s, "lp_top")
          /\ lreq' = [lreq EXCEPT ![s] = None]
    /\ UNCHANGED <<nodeVars, queueVars, lqueue, cpc, opening, pc, writeVars,
                   readVars, opens, given, garbled, reopened, terminated>>

\* The answer is for nobody once close() has begun.
LoopOffer(s) ==
    /\ lpc[s] = "lp_offer"
    /\ \/ /\ ~cancel /\ qvp # None
          /\ LoopGoto(s, "lp_add")
          /\ UNCHANGED lreq
       \/ /\ cancel \/ qvp = None
          /\ LoopGoto(s, "lp_top")
          /\ lreq' = [lreq EXCEPT ![s] = None]
    /\ UNCHANGED <<nodeVars, queueVars, lqueue, cpc, opening, pc, writeVars,
                   readVars, opens, given, garbled, reopened, terminated>>

\* _qvp is read again for add(): it may be another queue by now, or null.
LoopAdd(s) ==
    /\ lpc[s] = "lp_add"
    /\ \/ /\ qvp # None
          /\ answers' = [answers EXCEPT ![qvp] = Append(@, lreq[s])]
          /\ given' = [given EXCEPT ![qvp] = Append(@, lreq[s])]
          /\ lreq' = [lreq EXCEPT ![s] = None]
          /\ LoopGoto(s, "lp_top")
          /\ UNCHANGED terminated
       \/ /\ qvp = None
          /\ Terminate
          /\ UNCHANGED <<answers, given, lreq, lpc>>
    /\ UNCHANGED <<nodeVars, prompts, closed, lqueue, cpc, opening, pc, writeVars,
                   readVars, opens, garbled, reopened>>

-----------------------------------------------------------------------------
(* write_one() and do_write(): throw if the node is not open, else add the  *)
(* strings one by one.                                                      *)

WriteBegin(w) ==
    /\ pc[w] = "idle"
    /\ loop # None
    /\ \E n \in 1..MaxStrings :
         /\ arrived + n <= MaxPrompts
         /\ left' = [left EXCEPT ![w] = n]
    /\ Goto(w, "wr_add")
    /\ UNCHANGED <<nodeVars, queueVars, loopVars, cpc, opening, arrived, accepted,
                   readVars, opens, given, garbled, reopened, terminated>>

\* _req_queue is read again: null, closed (add() throws), or takes the string.
WriteAdd(w) ==
    /\ pc[w] = "wr_add"
    /\ \/ /\ req_queue = None
          /\ Terminate
          /\ UNCHANGED <<prompts, left, arrived, accepted, pc>>
       \/ /\ req_queue \in {q \in Sessions : closed[q]}
          /\ left' = [left EXCEPT ![w] = 0]
          /\ Goto(w, "idle")
          /\ UNCHANGED <<prompts, arrived, accepted, terminated>>
       \/ /\ req_queue \in {q \in Sessions : ~closed[q]}
          /\ arrived < MaxPrompts
          /\ arrived' = arrived + 1
          /\ prompts' = [prompts EXCEPT ![req_queue] = Append(@, arrived + 1)]
          /\ accepted' = [accepted EXCEPT ![req_queue] = Append(@, arrived + 1)]
          /\ left' = [left EXCEPT ![w] = @ - 1]
          /\ Goto(w, IF left[w] = 1 THEN "idle" ELSE "wr_add")
          /\ UNCHANGED terminated
    /\ UNCHANGED <<nodeVars, closed, answers, loopVars, cpc, opening, readVars,
                   opens, given, garbled, reopened>>

-----------------------------------------------------------------------------
(* read(), and remove() on the queue that stream() returned.                *)

\* A node that is not open returns void.
ReadBegin(r) ==
    /\ pc[r] = "idle"
    /\ loop # None
    /\ \E b \in BOOLEAN : keeps' = [keeps EXCEPT ![r] = b]
    /\ Goto(r, "rd_get")
    /\ UNCHANGED <<nodeVars, queueVars, loopVars, cpc, opening, writeVars, source,
                   opens, given, garbled, reopened, terminated>>

\* read() calls through _qvp; stream() only copies it.
ReadGet(r) ==
    /\ pc[r] = "rd_get"
    /\ \/ /\ qvp # None
          /\ source' = [source EXCEPT ![r] = qvp]
          /\ Goto(r, "rd_take")
          /\ UNCHANGED <<keeps, terminated>>
       \/ /\ qvp = None
          /\ ~keeps[r]
          /\ Terminate
          /\ UNCHANGED <<source, keeps, pc>>
       \/ /\ qvp = None
          /\ keeps[r]
          /\ keeps' = [keeps EXCEPT ![r] = FALSE]
          /\ Goto(r, "idle")
          /\ UNCHANGED <<source, terminated>>
    /\ UNCHANGED <<nodeVars, queueVars, loopVars, cpc, opening, writeVars,
                   opens, given, garbled, reopened>>

\* Nobody holds the queue of answers of session s any more.
LetGo(s) == s # qvp /\ ~\E r \in Readers : keeps[r] /\ source[r] = s

\* The oldest answer; or void, if the queue has been destroyed.
ReadTake(r) ==
    LET s == source[r] IN
    /\ pc[r] = "rd_take"
    /\ \/ /\ answers[s] # <<>>
          /\ answers' = [answers EXCEPT ![s] = Tail(@)]
       \/ /\ answers[s] = <<>> /\ LetGo(s)
          /\ UNCHANGED answers
    /\ source' = [source EXCEPT ![r] = None]
    /\ keeps' = [keeps EXCEPT ![r] = FALSE]
    /\ Goto(r, "idle")
    /\ UNCHANGED <<nodeVars, prompts, closed, loopVars, cpc, opening, writeVars,
                   opens, given, garbled, reopened, terminated>>

-----------------------------------------------------------------------------
ControlStep ==
    \/ OpenConnect \/ OpenAnswers \/ OpenRequests \/ OpenLoop
    \/ CloseRequests \/ CloseJoin \/ CloseNull
LooperStep(s) ==
    \/ LoopTop(s) \/ LoopGet(s) \/ LoopRemove(s) \/ LoopCheck(s) \/ LoopPost(s)
    \/ LoopOffer(s) \/ LoopAdd(s)
ReaderStep(r) == ReadGet(r) \/ ReadTake(r)

Next ==
    /\ ~terminated
    /\ \/ OpenBegin \/ CloseBegin \/ ControlStep
       \/ \E s \in Sessions : LooperStep(s)
       \/ \E w \in Writers : WriteBegin(w) \/ WriteAdd(w)
       \/ \E r \in Readers : ReadBegin(r) \/ ReaderStep(r)

Spec == Init /\ [][Next]_vars

\* A thread inside a call and a looper run whenever they can; a request to
\* the server ends, by its timeout if not otherwise.
Fairness ==
    /\ WF_vars(ControlStep /\ ~terminated)
    /\ \A s \in Sessions : WF_vars(LooperStep(s) /\ ~terminated)
    /\ \A w \in Writers : WF_vars(WriteAdd(w) /\ ~terminated)
    /\ \A r \in Readers : WF_vars(ReaderStep(r) /\ ~terminated)

FairSpec == Spec /\ Fairness
-----------------------------------------------------------------------------
(* Properties                                                               *)

\* Unless a node is opened again without a close(), every session answers its
\* own prompts, in the order they were accepted and without skipping one: no
\* answer of an earlier session reaches a later one, whatever the looper was
\* doing when close() came.
AnswersInOrder ==
    ~reopened => \A s \in Sessions :
        given[s] = SubSeq(accepted[s], 1, Len(given[s]))

\* Whatever characters of Unicode a prompt is made of, short of a control
\* character that is no tab, newline or return, the server reads the prompt that
\* was written; and whatever an answer is made of, and however the server spells
\* it, short of \b and \f, the reader gets the server's text on one line.
TextsSurvive == "plain" \notin garbled

\* A node that is closed, and never was opened twice, has no looper left that
\* could touch the node or the server.
ClosedIsQuiet ==
    (~reopened /\ cpc = "idle" /\ loop = None) => \A s \in Sessions : lpc[s] \in {"none", "done"}

\* close() joins the looper before it lets go of the queues: unless the node was
\* opened twice, a looper that is about to call remove() through _req_queue, or
\* add() through _qvp, finds the queue of its own session there, never null and
\* never another one, although it reads both pointers without a lock.
LooperHasQueues ==
    ~reopened => \A s \in Sessions :
        /\ lpc[s] = "lp_get" => req_queue = s
        /\ lpc[s] = "lp_add" => qvp = s

\* What CloseReturns rests on: whoever waits in remove() waits on the queue that the
\* node has, or on one that is closed; and close() joins a looper that was started,
\* has _cancel to find at its next look and no open queue to wait on, although it
\* reads _req_queue and _cancel whenever it gets there, and also if open() had put
\* another queue and another looper in the place of the first.
JoinCannotHang ==
    /\ \A s \in Sessions : lpc[s] = "lp_wait" => lqueue[s] = req_queue \/ closed[lqueue[s]]
    /\ cpc = "cl_join" => cancel /\ lpc[loop] # "none" /\ closed[req_queue]

\* A node that is not opened twice without a close() is a SessionService, although
\* nothing is locked: open() starts the session that close() ends, a prompt goes to
\* the session that is on when it is added and is answered there in its turn, and
\* after the join nothing is answered any more.
Service == INSTANCE SessionService WITH
    accepting <- IF req_queue \in {q \in Sessions : ~closed[q]} THEN req_queue ELSE None,
    serving <- IF cpc = "cl_null" THEN None ELSE req_queue,
    asked <- accepted,
    told <- given,
    waiting <- answers
ImplementsService == Service!Init /\ [][Service!Next \/ reopened']_Service!vars

\* A prompt that was accepted is answered unless the node is closed or opened
\* again first.
PromptAnswered ==
    \A n \in Prompts : \A s \in Sessions :
        (n \in {accepted[s][i] : i \in DOMAIN accepted[s]})
            ~> (\/ n \in {given[s][i] : i \in DOMAIN given[s]}
                \/ closed[s] \/ reopened \/ terminated)

\* close() returns: the looper ends wherever it was when close() came, also
\* with prompts waiting, and also if another looper of the node is still there.
CloseReturns == (cpc = "cl_join") ~> (cpc = "idle" \/ terminated)
=============================================================================
