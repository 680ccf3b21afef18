------------------------------ MODULE ChatThread ------------------------------
(***************************************************************************)
(* One thread of the chat, in one browser tab: a question is sent in two   *)
(* server calls, the first routes it and creates a run, the second         *)
(* executes the run and answers.  The tab polls the run's progress         *)
(* meanwhile, and the user may stop waiting at any moment and ask the next *)
(* question while the calls of the last one are still out.                 *)
(*                                                                         *)
(* Sources: chat-shell.tsx (the tab), actions/runs.ts (the calls),         *)
(* chat_conversation_service.py (the history), and the routes that the     *)
(* calls reach: create, execute and cancel a run.                          *)
(*                                                                         *)
(* A question stands for its request id, its bubble and its run.  Calls of *)
(* different questions overtake each other; a call may be lost.  Left out: *)
(* leaving the thread, the wording of errors, and the scope.               *)
(***************************************************************************)
EXTENDS Naturals

CONSTANTS
  Questions,   \* those the user asks, each once
  NoQuestion,
  MaxLost      \* answers that never reach the tab, and writes that fail

ASSUME ChatAssumption == NoQuestion \notin Questions /\ MaxLost \in Nat

VARIABLES
  shown,       \* question -> what the thread shows in reply
  phased,        \* the questions whose bubble shows the phases of the run
  isRunning,   \* is the composer locked?
  active,      \* activeRequestId: the question that is waited for
  activeRun,   \* activeRunId: the question whose run the tab knows
  pollTimer,   \* the question whose progress is polled
  cancelled,   \* cancelledRequests: stopped, and onSend not yet at its end
  awaiting,    \* question -> the call that its onSend waits for
  polls,       \* progress requests on their way
  cancels,     \* cancel requests on their way
  lost,        \* questions one of whose calls was rejected
  losses,      \* how much was lost so far, see MaxLost
  served,      \* question -> where the server is with its call
  reply,       \* question -> the answer of the call, on its way to the tab
  chatRun,     \* question -> status of its run
  stored       \* the turns in the history: <<role, question>>

tabVars    == <<shown, phased, isRunning, active, activeRun, pollTimer, cancelled,
                awaiting, lost>>
serverVars == <<served, reply, chatRun, stored>>
chatVars   == <<tabVars, polls, cancels, losses, serverVars>>

Displays == {"pending", "answer", "stopped early", "stopped late"}
Notes    == {"stopped early", "stopped late"}

ChatTypeOK ==
  /\ shown \in [Questions -> SUBSET Displays]
  /\ isRunning \in BOOLEAN
  /\ active \in Questions \union {NoQuestion}
  /\ activeRun \in Questions \union {NoQuestion}
  /\ pollTimer \in Questions \union {NoQuestion}
  /\ phased \subseteq Questions /\ cancelled \subseteq Questions
  /\ polls \subseteq Questions /\ cancels \subseteq Questions
  /\ lost \subseteq Questions
  /\ awaiting \in [Questions -> {"unsent", "start", "finalize", "over"}]
  /\ served \in [Questions -> {"no", "record", "route", "execute", "running",
                               "read", "done"}]
  /\ reply \in [Questions -> {"none", "error", "reply", "run"}]
  /\ chatRun \in [Questions -> {"none", "pending", "running", "cancelled", "ended"}]
  /\ losses \in 0..MaxLost
  /\ stored \subseteq {"user", "assistant"} \X Questions
  /\ isRunning <=> active # NoQuestion

ChatInit ==
  /\ shown = [q \in Questions |-> {}]
  /\ phased = {} /\ cancelled = {} /\ polls = {} /\ cancels = {} /\ lost = {}
  /\ isRunning = FALSE
  /\ active = NoQuestion /\ activeRun = NoQuestion /\ pollTimer = NoQuestion
  /\ awaiting = [q \in Questions |-> "unsent"]
  /\ served = [q \in Questions |-> "no"]
  /\ reply = [q \in Questions |-> "none"]
  /\ chatRun = [q \in Questions |-> "none"]
  /\ losses = 0 /\ stored = {}

-----------------------------------------------------------------------------
(* The tab.                                                                *)

\* Mutant: a new question starts with no memory of the stopped ones.
Send_ForgetsStops(q) ==
  /\ ~isRunning /\ awaiting[q] = "unsent"
  /\ isRunning' = TRUE
  /\ active' = q /\ activeRun' = NoQuestion
  /\ cancelled' = {}
  /\ shown' = [shown EXCEPT ![q] = {"pending"}]
  /\ awaiting' = [awaiting EXCEPT ![q] = "start"]
  /\ served' = [served EXCEPT ![q] = "record"]
  /\ UNCHANGED <<phased, pollTimer, polls, cancels, lost, losses, reply, chatRun, stored>>

\* The composer is locked while isRunning; the question and a pending bubble
\* are added, and the first call goes out.
Send(q) ==
  /\ ~isRunning /\ awaiting[q] = "unsent"
  /\ isRunning' = TRUE
  /\ active' = q /\ activeRun' = NoQuestion
  /\ shown' = [shown EXCEPT ![q] = {"pending"}]
  /\ awaiting' = [awaiting EXCEPT ![q] = "start"]
  /\ served' = [served EXCEPT ![q] = "record"]
  /\ UNCHANGED <<phased, pollTimer, cancelled, polls, cancels, lost, losses, reply, chatRun, stored>>

\* The bubble of q gives way to an answer, or to nothing.
DropsPending(q) == /\ shown' = [shown EXCEPT ![q] = @ \ {"pending"}]
                   /\ phased' = phased \ {q}
Answers(q) == /\ shown' = [shown EXCEPT ![q] = (@ \ {"pending"}) \union {"answer"}]
              /\ phased' = phased \ {q}

\* Mutant: the end of any onSend frees the composer.
Finally_FreesAlways(q) ==
  /\ pollTimer' = NoQuestion
  /\ cancelled' = cancelled \ {q}
  /\ awaiting' = [awaiting EXCEPT ![q] = "over"]
  /\ isRunning' = FALSE
  /\ active' = NoQuestion /\ activeRun' = NoQuestion

\* The finally block of onSend: the timer is cleared whoever set it.
Finally(q) ==
  /\ pollTimer' = NoQuestion
  /\ cancelled' = cancelled \ {q}
  /\ awaiting' = [awaiting EXCEPT ![q] = "over"]
  /\ isRunning' = (isRunning /\ active # q)
  /\ active' = IF active = q THEN NoQuestion ELSE active
  /\ activeRun' = IF active = q THEN NoQuestion ELSE activeRun

Stopped(q) == q \in cancelled

\* The answer of a call is looked at unless the question was stopped.
Settles(q) ==
  /\ Finally(q)
  /\ \/ Stopped(q) /\ UNCHANGED <<shown, phased>>
     \/ ~Stopped(q) /\ reply[q] = "error" /\ DropsPending(q)
     \/ ~Stopped(q) /\ reply[q] = "reply" /\ Answers(q)

StartReturns(q) ==
  /\ awaiting[q] = "start" /\ reply[q] # "none"
  /\ Stopped(q) \/ reply[q] # "run"
  /\ Settles(q)
  /\ reply' = [reply EXCEPT ![q] = "none"]
  /\ UNCHANGED <<polls, cancels, lost, losses, served, chatRun, stored>>

\* A run was created: poll it, and ask for its execution.
Finalizes(q) ==
  /\ awaiting[q] = "start" /\ reply[q] = "run" /\ ~Stopped(q)
  /\ activeRun' = q
  /\ pollTimer' = q
  /\ polls' = polls \union {q}
  /\ awaiting' = [awaiting EXCEPT ![q] = "finalize"]
  /\ served' = [served EXCEPT ![q] = "execute"]
  /\ reply' = [reply EXCEPT ![q] = "none"]
  /\ UNCHANGED <<shown, phased, isRunning, active, cancelled, cancels, lost, losses, chatRun, stored>>

FinalizeReturns(q) ==
  /\ awaiting[q] = "finalize" /\ reply[q] # "none"
  /\ Settles(q)
  /\ reply' = [reply EXCEPT ![q] = "none"]
  /\ UNCHANGED <<polls, cancels, lost, losses, served, chatRun, stored>>

\* Mutant: a rejected second call is sent again.
CallRejected_Retries(q) ==
  /\ awaiting[q] = "finalize"
  /\ losses < MaxLost /\ losses' = losses + 1
  /\ served' = [served EXCEPT ![q] = "execute"]
  /\ UNCHANGED <<tabVars, polls, cancels, reply, chatRun, stored>>

\* The call itself is rejected, its answer lost with it.  There is no catch:
\* the finally block runs and the bubble stays.  The server goes on.
CallRejected(q) ==
  /\ awaiting[q] \in {"start", "finalize"}
  /\ losses < MaxLost /\ losses' = losses + 1
  /\ lost' = lost \union {q}
  /\ Finally(q)
  /\ UNCHANGED <<shown, phased, polls, cancels, serverVars>>

\* Escape, or the button under any pending bubble.
Stop ==
  /\ active # NoQuestion
  /\ cancelled' = cancelled \union {active}
  /\ shown' = [shown EXCEPT ![active] = (@ \ {"pending"}) \union
                 {IF activeRun = NoQuestion THEN "stopped early" ELSE "stopped late"}]
  /\ phased' = phased \ {active}
  /\ cancels' = cancels \union ({activeRun} \ {NoQuestion})
  /\ pollTimer' = NoQuestion
  /\ active' = NoQuestion /\ activeRun' = NoQuestion
  /\ isRunning' = FALSE
  /\ UNCHANGED <<awaiting, polls, lost, losses, serverVars>>

PollTicks ==
  /\ pollTimer # NoQuestion
  /\ polls' = polls \union {pollTimer}
  /\ UNCHANGED <<tabVars, cancels, losses, serverVars>>

\* A poll that fails returns null; one that returns late finds no bubble.
PollReturns(q) ==
  /\ q \in polls
  /\ polls' = polls \ {q}
  /\ \/ phased' = phased
     \/ /\ ~Stopped(q) /\ "pending" \in shown[q]
        /\ phased' = phased \union {q}
  /\ UNCHANGED <<shown, isRunning, active, activeRun, pollTimer, cancelled, awaiting,
                 lost, losses, cancels, serverVars>>

-----------------------------------------------------------------------------
(* The calls, on the server.                                               *)

\* persistMessage: a write that fails is swallowed.
Persists(role, q) ==
  \/ stored' = stored \union {<<role, q>>} /\ UNCHANGED losses
  \/ losses < MaxLost /\ losses' = losses + 1 /\ UNCHANGED stored

Replies(q, r) == /\ served' = [served EXCEPT ![q] = "done"]
                 /\ reply' = [reply EXCEPT ![q] = r]

RecordsQuestion(q) ==
  /\ served[q] = "record"
  /\ Persists("user", q)
  /\ served' = [served EXCEPT ![q] = "route"]
  /\ UNCHANGED <<tabVars, polls, cancels, reply, chatRun>>

\* The router declines, a request fails, or a run is created, not queued.
RoutesQuestion(q) ==
  /\ served[q] = "route"
  /\ \/ Persists("assistant", q) /\ Replies(q, "reply") /\ UNCHANGED chatRun
     \/ Replies(q, "error") /\ UNCHANGED <<chatRun, losses, stored>>
     \/ /\ chatRun' = [chatRun EXCEPT ![q] = "pending"]
        /\ Replies(q, "run") /\ UNCHANGED <<losses, stored>>
  /\ UNCHANGED <<tabVars, polls, cancels>>

\* The route refuses (admission, an open call), or the run is marked running,
\* a cancelled one as well: it counts as restarted.
ExecutesRun(q) ==
  /\ served[q] = "execute"
  /\ \/ Replies(q, "error") /\ UNCHANGED chatRun
     \/ /\ chatRun[q] \in {"pending", "cancelled"}
        /\ chatRun' = [chatRun EXCEPT ![q] = "running"]
        /\ served' = [served EXCEPT ![q] = "running"] /\ UNCHANGED reply
  /\ UNCHANGED <<tabVars, polls, cancels, losses, stored>>

\* The execution raises, as the EDGAR one does when it sees a cancellation,
\* or it returns, as the agentic one may even then.
EndsRun(q) ==
  /\ served[q] = "running"
  /\ \/ /\ chatRun' = [chatRun EXCEPT ![q] = IF @ = "cancelled" THEN @ ELSE "ended"]
        /\ Replies(q, "error")
     \/ /\ chatRun' = [chatRun EXCEPT ![q] = "ended"]
        /\ served' = [served EXCEPT ![q] = "read"] /\ UNCHANGED reply
  /\ UNCHANGED <<tabVars, polls, cancels, losses, stored>>

\* Mutant: a failure after the execution is answered by nothing.
AnswersQuestion_Silent(q) ==
  /\ served[q] = "read"
  /\ \/ /\ served' = [served EXCEPT ![q] = "done"]
        /\ UNCHANGED <<reply, losses, stored>>
     \/ Persists("assistant", q) /\ Replies(q, "reply")
  /\ UNCHANGED <<tabVars, polls, cancels, chatRun>>

\* Run and artifacts are read again; if that fails the answer is not stored.
AnswersQuestion(q) ==
  /\ served[q] = "read"
  /\ \/ Replies(q, "error") /\ UNCHANGED <<losses, stored>>
     \/ Persists("assistant", q) /\ Replies(q, "reply")
  /\ UNCHANGED <<tabVars, polls, cancels, chatRun>>

\* A finished run is not cancelled, and a request that fails is forgotten.
CancelArrives(q) ==
  /\ q \in cancels
  /\ cancels' = cancels \ {q}
  /\ \/ UNCHANGED chatRun
     \/ /\ chatRun[q] \in {"pending", "running"}
        /\ chatRun' = [chatRun EXCEPT ![q] = "cancelled"]
  /\ UNCHANGED <<tabVars, polls, losses, served, reply, stored>>

-----------------------------------------------------------------------------
Serves(q)  == RecordsQuestion(q) \/ RoutesQuestion(q) \/ ExecutesRun(q) \/ EndsRun(q)
                \/ AnswersQuestion(q)
Returns(q) == StartReturns(q) \/ Finalizes(q) \/ FinalizeReturns(q)

ChatNext ==
  \/ Stop \/ PollTicks
  \/ \E q \in Questions :
       \/ Send(q) \/ Returns(q) \/ CallRejected(q) \/ PollReturns(q)
       \/ Serves(q) \/ CancelArrives(q)

ChatSpec == ChatInit /\ [][ChatNext]_chatVars

-----------------------------------------------------------------------------
\* What the thread says of a stopped question stays true: no answer of it
\* shows up beside the note, however late, and a question that was stopped
\* "before the analysis started" is never analysed, though its run may exist
\* (chat-shell.tsx, handleStop; the calls of onSend look at stopped()).
StopNoteIsTrue ==
  \A q \in Questions :
    /\ shown[q] \intersect Notes # {} => shown[q] \intersect {"pending", "answer"} = {}
    /\ "stopped early" \in shown[q] => chatRun[q] \in {"none", "pending"}

\* A bubble that says the question is being worked on belongs to the question
\* that is waited for, whose composer is locked, unless its call was lost;
\* so an onSend that ends late must leave its successor alone.
BubbleIsAwaited ==
  \A q \in Questions :
    "pending" \in shown[q] => q \in lost \/ (active = q /\ isRunning)

\* Nobody waits for nothing: while onSend waits for a call, the server has it
\* in hand or its answer is on its way.  Each call takes finitely many steps, so
\* the composer, locked meanwhile, is always given back (startAnalysisRun and
\* finalizeAnalysisRun answer on every path, the failures included).
AwaitedIsServed ==
  \A q \in Questions : awaiting[q] \in {"start", "finalize"} =>
    served[q] \notin {"no", "done"} \/ reply[q] # "none"

\* What a comment says of the cancel request ("records intent so the run can
\* abort at its next status check", actions/runs.ts): a run that is cancelled
\* does not run.  It does not hold: executing it restarts it.
CancelledStaysCancelled ==
  [][\A q \in Questions : chatRun[q] = "cancelled" => chatRun'[q] = "cancelled"]_chatVars

\* While a run is waited for, its progress is polled.  It does not hold where
\* calls overlap: the end of a stopped question clears its successor's timer.
ProgressIsPolled ==
  \A q \in Questions : active = q /\ awaiting[q] = "finalize" => pollTimer = q

\* What does hold of the comment: a cancel that finds the execution neither asked
\* for nor under way, because it is over or was never asked for, lasts, and the
\* run is not asked to execute later (runs.ts: finalizeAnalysisRun executes once).
CancelAfterExecutionLasts ==
  [][\A q \in Questions :
       chatRun[q] = "cancelled" /\ served[q] \notin {"execute", "running"} =>
         chatRun'[q] = "cancelled" /\ served'[q] \notin {"execute", "running"}]_chatVars

\* No stopped question still waits for its calls when the next one is asked.
OneOnSendAtATime ==
  \A q \in Questions : awaiting[q] \in {"start", "finalize"} => active = q
=============================================================================
