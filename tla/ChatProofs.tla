------------------------------ MODULE ChatProofs ------------------------------
(***************************************************************************)
(* Proofs about ChatThread, for any number of questions and losses: what   *)
(* the thread shows is true of the calls and of the runs behind it.        *)
(***************************************************************************)
EXTENDS ChatThread, TLAPS

\* A question that was not asked has left no trace.
Untouched(q) ==
  awaiting[q] = "unsent" =>
    /\ shown[q] = {} /\ active # q
    /\ served[q] = "no" /\ reply[q] = "none" /\ chatRun[q] = "none"

\* The tab's side: an onSend that still waits was stopped, or it is the one
\* the composer is locked for; a note replaces the bubble for good.
Tab(q) ==
  /\ active = q => /\ awaiting[q] \in {"start", "finalize"}
                   /\ shown[q] = {"pending"} /\ q \notin cancelled
                   /\ awaiting[q] = "finalize" <=> activeRun = q
  /\ awaiting[q] \in {"start", "finalize"} => active = q \/ q \in cancelled
  /\ q \in cancelled => shown[q] \intersect Notes # {}
  /\ shown[q] \intersect Notes # {} => shown[q] \intersect {"pending", "answer"} = {}
  /\ "pending" \in shown[q] => q \in lost \/ active = q

\* The server's side: until the tab asks for its execution, and for ever when
\* it was stopped before, a run is at most created, and no cancel is out.
Early(q) == awaiting[q] = "start" \/ "stopped early" \in shown[q]

Server(q) ==
  /\ Early(q) => /\ served[q] \in {"record", "route", "done"}
                 /\ chatRun[q] \in {"none", "pending"}
                 /\ awaiting[q] # "finalize"
  /\ q \in cancels => "stopped late" \in shown[q] /\ ~Early(q)
  /\ awaiting[q] \in {"start", "finalize"} =>
       served[q] \notin {"no", "done"} \/ reply[q] # "none"

ChatInv ==
  /\ ChatTypeOK
  /\ activeRun \in {NoQuestion, active}
  /\ \A q \in Questions : Untouched(q) /\ Tab(q) /\ Server(q)

-----------------------------------------------------------------------------
\* What is known of each question.
Known(q) == Untouched(q) /\ Tab(q) /\ Server(q)

\* The end of an onSend writes to its own bubble only, and not even there if
\* it was stopped.
LEMMA SettledShows ==
  ASSUME ChatTypeOK, NEW q \in Questions, Tab(q), Settles(q), awaiting[q] \in {"start", "finalize"}
  PROVE  /\ shown' \in [Questions -> SUBSET Displays]
         /\ \A r \in Questions : r # q => shown'[r] = shown[r] /\ awaiting'[r] = awaiting[r]
         /\ awaiting'[q] = "over"
         /\ q \in cancelled => shown'[q] = shown[q]
         /\ q \notin cancelled => "pending" \notin shown'[q] /\ active = q
                                    /\ shown'[q] \subseteq {"answer"}
<1>1. /\ awaiting' = [awaiting EXCEPT ![q] = "over"]
      /\ awaiting'[q] = "over"
      /\ \A r \in Questions : r # q => awaiting'[r] = awaiting[r]
  BY DEF Settles, Finally, ChatTypeOK
<1>2. CASE q \in cancelled
  BY <1>1, <1>2 DEF Settles, Stopped, ChatTypeOK
<1>3. CASE q \notin cancelled
  <2>1. active = q /\ shown[q] = {"pending"}
    BY <1>3 DEF Tab
  <2>2. PICK S \in {{}, {"answer"}} : shown' = [shown EXCEPT ![q] = S]
    <3>1. CASE DropsPending(q)
      <4>1. shown[q] \ {"pending"} = {}
        BY <2>1
      <4> QED BY <3>1, <4>1 DEF DropsPending
    <3>2. CASE Answers(q)
      <4>1. (shown[q] \ {"pending"}) \union {"answer"} = {"answer"}
        BY <2>1
      <4> QED BY <3>2, <4>1 DEF Answers
    <3> QED BY <1>3, <3>1, <3>2 DEF Settles, Stopped
  <2>3. S \in SUBSET Displays
    BY <2>2 DEF Displays
  <2> QED BY <1>1, <1>3, <2>1, <2>2, <2>3 DEF ChatTypeOK
<1> QED BY <1>2, <1>3

\* A question is asked while nothing is waited for, so it is the only one.
LEMMA SendKeeps ==
  ASSUME ChatInv, NEW q \in Questions, Send(q)
  PROVE  ChatInv'
<1>0. ChatTypeOK /\ activeRun \in {NoQuestion, active}
  BY DEF ChatInv
<1>1. ChatTypeOK'
  BY <1>0, ChatAssumption DEF ChatTypeOK, Displays, Send
<1>2. activeRun' \in {NoQuestion, active'}
  BY <1>0 DEF ChatTypeOK, Send
<1>3. ASSUME NEW r \in Questions PROVE Known(r)'
  <2>0. Untouched(r) /\ Tab(r) /\ Server(r)
    BY <1>3 DEF ChatInv
  <2>1. Untouched(r)'
    BY <1>0, <1>3, <2>0, ChatAssumption DEF Untouched, Tab, ChatTypeOK, Send
  <2>2. Tab(r)'
    BY <1>0, <1>3, <2>0, ChatAssumption
       DEF Untouched, Tab, ChatTypeOK, Displays, Notes, Send
  <2>3. Server(r)'
    BY <1>0, <1>3, <2>0, ChatAssumption
       DEF Untouched, Tab, Server, Early, ChatTypeOK, Displays, Notes, Send
  <2> QED BY <2>1, <2>2, <2>3 DEF Known
<1> QED BY <1>1, <1>2, <1>3 DEF ChatInv, Known

\* The end of the first call: the bubble of its question gives way, or was
\* replaced by a note before; every other question is left alone.
LEMMA StartReturnsKeeps ==
  ASSUME ChatInv, NEW q \in Questions, StartReturns(q)
  PROVE  ChatInv'
<1>0. ChatTypeOK /\ activeRun \in {NoQuestion, active}
  BY DEF ChatInv
<1>s. /\ shown' \in [Questions -> SUBSET Displays]
      /\ \A r \in Questions : r # q => shown'[r] = shown[r] /\ awaiting'[r] = awaiting[r]
      /\ awaiting'[q] = "over"
      /\ q \in cancelled => shown'[q] = shown[q]
      /\ q \notin cancelled => "pending" \notin shown'[q] /\ active = q
                                 /\ shown'[q] \subseteq {"answer"}
  <2>1. Tab(q)
    BY DEF ChatInv
  <2> QED BY <1>0, <2>1, SettledShows DEF StartReturns
<1>1. ChatTypeOK'
  <2>1. isRunning' \in BOOLEAN
    BY <1>0
       DEF ChatTypeOK, StartReturns, Settles, Finally, Stopped, DropsPending,
           Answers
  <2>2. isRunning' <=> active' # NoQuestion
    BY <1>0, ChatAssumption
       DEF ChatTypeOK, StartReturns, Settles, Finally, Stopped, DropsPending,
           Answers
  <2>3. /\ active' \in Questions \union {NoQuestion}
        /\ activeRun' \in Questions \union {NoQuestion}
        /\ pollTimer' \in Questions \union {NoQuestion}
    BY <1>0
       DEF ChatTypeOK, StartReturns, Settles, Finally, Stopped, DropsPending,
           Answers
  <2>4. shown' \in [Questions -> SUBSET Displays]
    BY <1>0, <1>s
  <2>5. /\ phased' \subseteq Questions /\ cancelled' \subseteq Questions
        /\ polls' \subseteq Questions /\ cancels' \subseteq Questions
        /\ lost' \subseteq Questions
    BY <1>0
       DEF ChatTypeOK, StartReturns, Settles, Finally, Stopped, DropsPending,
           Answers
  <2>6. /\ awaiting' \in [Questions -> {"unsent", "start", "finalize", "over"}]
        /\ served' \in [Questions -> {"no", "record", "route", "execute", "running",
                                       "read", "done"}]
        /\ reply' \in [Questions -> {"none", "error", "reply", "run"}]
        /\ chatRun' \in [Questions -> {"none", "pending", "running", "cancelled", "ended"}]
    BY <1>0
       DEF ChatTypeOK, StartReturns, Settles, Finally, Stopped, DropsPending,
           Answers
  <2>7. losses' \in 0..MaxLost
    BY <1>0, ChatAssumption
       DEF ChatTypeOK, StartReturns, Settles, Finally, Stopped, DropsPending,
           Answers
  <2>8. stored' \subseteq {"user", "assistant"} \X Questions
    BY <1>0
       DEF ChatTypeOK, StartReturns, Settles, Finally, Stopped, DropsPending,
           Answers
  <2> QED BY <2>1, <2>2, <2>3, <2>4, <2>5, <2>6, <2>7, <2>8 DEF ChatTypeOK
<1>2. activeRun' \in {NoQuestion, active'}
  BY <1>0 DEF ChatTypeOK, StartReturns, Settles, Finally, Stopped, DropsPending, Answers
<1>3. ASSUME NEW r \in Questions PROVE Known(r)'
  <2>0. Untouched(r) /\ Tab(r) /\ Server(r)
    BY <1>3 DEF ChatInv
  <2>1. Untouched(r)'
    BY <1>0, <1>3, <2>0, ChatAssumption
       DEF Untouched, Tab, ChatTypeOK, StartReturns, Settles, Finally, Stopped,
           DropsPending, Answers
  <2>2. CASE r # q
    <3>1. /\ shown'[r] = shown[r] /\ awaiting'[r] = awaiting[r]
          /\ served'[r] = served[r] /\ reply'[r] = reply[r] /\ chatRun'[r] = chatRun[r]
          /\ active' = r <=> active = r
          /\ active = r => activeRun' = activeRun
          /\ r \in cancelled' <=> r \in cancelled
          /\ UNCHANGED <<cancels, lost>>
      BY <1>0, <1>3, <1>s, <2>2, ChatAssumption
         DEF ChatTypeOK, StartReturns, Settles, Finally
    <3>2. Tab(r)'
      BY <2>0, <3>1 DEF Tab
    <3>3. Server(r)'
      BY <2>0, <3>1 DEF Server, Early
    <3> QED BY <2>1, <3>2, <3>3 DEF Known
  <2>3. CASE r = q
    <3>1. /\ awaiting'[q] = "over" /\ active' # q /\ q \notin cancelled'
          /\ UNCHANGED <<cancels, lost, served, chatRun>>
      BY <1>0, <1>s, ChatAssumption DEF ChatTypeOK, StartReturns, Settles, Finally
    <3>2. "stopped early" \in shown'[q] <=> q \in cancelled /\ "stopped early" \in shown[q]
      BY <1>s
    <3>3. Tab(q)'
      BY <2>0, <2>3, <1>s, <3>1 DEF Tab, Notes
    <3>4. Server(q)'
      BY <2>0, <2>3, <1>s, <3>1, <3>2 DEF Server, Early, Tab
    <3> QED BY <2>1, <2>3, <3>3, <3>4 DEF Known
  <2> QED BY <2>2, <2>3
<1> QED BY <1>1, <1>2, <1>3 DEF ChatInv, Known

\* The run is known to the tab from here on: a stop is a late one.
LEMMA FinalizesKeeps ==
  ASSUME ChatInv, NEW q \in Questions, Finalizes(q)
  PROVE  ChatInv'
<1>0. ChatTypeOK /\ activeRun \in {NoQuestion, active}
  BY DEF ChatInv
<1>1. ChatTypeOK'
  BY <1>0, ChatAssumption DEF ChatTypeOK, Displays, Finalizes, Stopped
<1>a. active = q
  BY DEF ChatInv, Tab, Finalizes, Stopped
<1>2. activeRun' \in {NoQuestion, active'}
  BY <1>0, <1>a DEF ChatTypeOK, Finalizes, Stopped
<1>3. ASSUME NEW r \in Questions PROVE Known(r)'
  <2>0. Untouched(r) /\ Tab(r) /\ Server(r)
    BY <1>3 DEF ChatInv
  <2>1. Untouched(r)'
    BY <1>0, <1>3, <2>0, ChatAssumption
       DEF Untouched, Tab, ChatTypeOK, Finalizes, Stopped
  <2>2. Tab(r)'
    BY <1>0, <1>a, <1>3, <2>0, ChatAssumption
       DEF Untouched, Tab, ChatTypeOK, Displays, Notes, Finalizes, Stopped
  <2>3. Server(r)'
    BY <1>0, <1>3, <2>0, ChatAssumption
       DEF Untouched, Tab, Server, Early, ChatTypeOK, Displays, Notes,
           Finalizes, Stopped
  <2> QED BY <2>1, <2>2, <2>3 DEF Known
<1> QED BY <1>1, <1>2, <1>3 DEF ChatInv, Known

\* The end of the second call, as that of the first.
LEMMA FinalizeReturnsKeeps ==
  ASSUME ChatInv, NEW q \in Questions, FinalizeReturns(q)
  PROVE  ChatInv'
<1>0. ChatTypeOK /\ activeRun \in {NoQuestion, active}
  BY DEF ChatInv
<1>s. /\ shown' \in [Questions -> SUBSET Displays]
      /\ \A r \in Questions : r # q => shown'[r] = shown[r] /\ awaiting'[r] = awaiting[r]
      /\ awaiting'[q] = "over"
      /\ q \in cancelled => shown'[q] = shown[q]
      /\ q \notin cancelled => "pending" \notin shown'[q] /\ active = q
                                 /\ shown'[q] \subseteq {"answer"}
  <2>1. Tab(q)
    BY DEF ChatInv
  <2> QED BY <1>0, <2>1, SettledShows DEF FinalizeReturns
<1>1. ChatTypeOK'
  <2>1. isRunning' \in BOOLEAN
    BY <1>0
       DEF ChatTypeOK, FinalizeReturns, Settles, Finally, Stopped,
           DropsPending, Answers
  <2>2. isRunning' <=> active' # NoQuestion
    BY <1>0, ChatAssumption
       DEF ChatTypeOK, FinalizeReturns, Settles, Finally, Stopped,
           DropsPending, Answers
  <2>3. /\ active' \in Questions \union {NoQuestion}
        /\ activeRun' \in Questions \union {NoQuestion}
        /\ pollTimer' \in Questions \union {NoQuestion}
    BY <1>0
       DEF ChatTypeOK, FinalizeReturns, Settles, Finally, Stopped,
           DropsPending, Answers
  <2>4. shown' \in [Questions -> SUBSET Displays]
    BY <1>0, <1>s
  <2>5. /\ phased' \subseteq Questions /\ cancelled' \subseteq Questions
        /\ polls' \subseteq Questions /\ cancels' \subseteq Questions
        /\ lost' \subseteq Questions
    BY <1>0
       DEF ChatTypeOK, FinalizeReturns, Settles, Finally, Stopped,
           DropsPending, Answers
  <2>6. /\ awaiting' \in [Questions -> {"unsent", "start", "finalize", "over"}]
        /\ served' \in [Questions -> {"no", "record", "route", "execute", "running",
                                       "read", "done"}]
        /\ reply' \in [Questions -> {"none", "error", "reply", "run"}]
        /\ chatRun' \in [Questions -> {"none", "pending", "running", "cancelled", "ended"}]
    BY <1>0
       DEF ChatTypeOK, FinalizeReturns, Settles, Finally, Stopped,
           DropsPending, Answers
  <2>7. losses' \in 0..MaxLost
    BY <1>0, ChatAssumption
       DEF ChatTypeOK, FinalizeReturns, Settles, Finally, Stopped,
           DropsPending, Answers
  <2>8. stored' \subseteq {"user", "assistant"} \X Questions
    BY <1>0
       DEF ChatTypeOK, FinalizeReturns, Settles, Finally, Stopped,
           DropsPending, Answers
  <2> QED BY <2>1, <2>2, <2>3, <2>4, <2>5, <2>6, <2>7, <2>8 DEF ChatTypeOK
<1>2. activeRun' \in {NoQuestion, active'}
  BY <1>0
     DEF ChatTypeOK, FinalizeReturns, Settles, Finally, Stopped, DropsPending,
         Answers
<1>3. ASSUME NEW r \in Questions PROVE Known(r)'
  <2>0. Untouched(r) /\ Tab(r) /\ Server(r)
    BY <1>3 DEF ChatInv
  <2>1. Untouched(r)'
    BY <1>0, <1>3, <2>0, ChatAssumption
       DEF Untouched, Tab, ChatTypeOK, FinalizeReturns, Settles, Finally,
           Stopped, DropsPending, Answers
  <2>2. CASE r # q
    <3>1. /\ shown'[r] = shown[r] /\ awaiting'[r] = awaiting[r]
          /\ served'[r] = served[r] /\ reply'[r] = reply[r] /\ chatRun'[r] = chatRun[r]
          /\ active' = r <=> active = r
          /\ active = r => activeRun' = activeRun
          /\ r \in cancelled' <=> r \in cancelled
          /\ UNCHANGED <<cancels, lost>>
      BY <1>0, <1>3, <1>s, <2>2, ChatAssumption
         DEF ChatTypeOK, FinalizeReturns, Settles, Finally
    <3>2. Tab(r)'
      BY <2>0, <3>1 DEF Tab
    <3>3. Server(r)'
      BY <2>0, <3>1 DEF Server, Early
    <3> QED BY <2>1, <3>2, <3>3 DEF Known
  <2>3. CASE r = q
    <3>1. /\ awaiting'[q] = "over" /\ active' # q /\ q \notin cancelled'
          /\ UNCHANGED <<cancels, lost, served, chatRun>>
      BY <1>0, <1>s, ChatAssumption DEF ChatTypeOK, FinalizeReturns, Settles, Finally
    <3>2. "stopped early" \in shown'[q] <=> q \in cancelled /\ "stopped early" \in shown[q]
      BY <1>s
    <3>3. Tab(q)'
      BY <2>0, <2>3, <1>s, <3>1 DEF Tab, Notes
    <3>4. Server(q)'
      BY <2>0, <2>3, <1>s, <3>1, <3>2 DEF Server, Early, Tab
    <3> QED BY <2>1, <2>3, <3>3, <3>4 DEF Known
  <2> QED BY <2>2, <2>3
<1> QED BY <1>1, <1>2, <1>3 DEF ChatInv, Known

\* A lost call ends the wait and leaves the bubble, and counts as lost.
LEMMA CallRejectedKeeps ==
  ASSUME ChatInv, NEW q \in Questions, CallRejected(q)
  PROVE  ChatInv'
<1>0. ChatTypeOK /\ activeRun \in {NoQuestion, active}
  BY DEF ChatInv
<1>1. ChatTypeOK'
  <2>1. isRunning' \in BOOLEAN
    BY <1>0 DEF ChatTypeOK, CallRejected, Finally, serverVars
  <2>2. isRunning' <=> active' # NoQuestion
    BY <1>0, ChatAssumption DEF ChatTypeOK, CallRejected, Finally, serverVars
  <2>3. /\ active' \in Questions \union {NoQuestion}
        /\ activeRun' \in Questions \union {NoQuestion}
        /\ pollTimer' \in Questions \union {NoQuestion}
    BY <1>0 DEF ChatTypeOK, CallRejected, Finally, serverVars
  <2>4. shown' \in [Questions -> SUBSET Displays]
    BY <1>0 DEF ChatTypeOK, Displays, CallRejected, Finally, serverVars
  <2>5. /\ phased' \subseteq Questions /\ cancelled' \subseteq Questions
        /\ polls' \subseteq Questions /\ cancels' \subseteq Questions
        /\ lost' \subseteq Questions
    BY <1>0 DEF ChatTypeOK, CallRejected, Finally, serverVars
  <2>6. /\ awaiting' \in [Questions -> {"unsent", "start", "finalize", "over"}]
        /\ served' \in [Questions -> {"no", "record", "route", "execute", "running",
                                       "read", "done"}]
        /\ reply' \in [Questions -> {"none", "error", "reply", "run"}]
        /\ chatRun' \in [Questions -> {"none", "pending", "running", "cancelled", "ended"}]
    BY <1>0 DEF ChatTypeOK, CallRejected, Finally, serverVars
  <2>7. losses' \in 0..MaxLost
    BY <1>0, ChatAssumption DEF ChatTypeOK, CallRejected, Finally, serverVars
  <2>8. stored' \subseteq {"user", "assistant"} \X Questions
    BY <1>0 DEF ChatTypeOK, CallRejected, Finally, serverVars
  <2> QED BY <2>1, <2>2, <2>3, <2>4, <2>5, <2>6, <2>7, <2>8 DEF ChatTypeOK
<1>2. activeRun' \in {NoQuestion, active'}
  BY <1>0 DEF ChatTypeOK, CallRejected, Finally, serverVars
<1>3. ASSUME NEW r \in Questions PROVE Known(r)'
  <2>0. Untouched(r) /\ Tab(r) /\ Server(r)
    BY <1>3 DEF ChatInv
  <2>1. Untouched(r)'
    BY <1>0, <1>3, <2>0, ChatAssumption
       DEF Untouched, Tab, ChatTypeOK, CallRejected, Finally, serverVars
  <2>2. Tab(r)'
    BY <1>0, <1>3, <2>0, ChatAssumption
       DEF Untouched, Tab, ChatTypeOK, Displays, Notes, CallRejected, Finally,
           serverVars
  <2>3. Server(r)'
    BY <1>0, <1>3, <2>0, ChatAssumption
       DEF Untouched, Tab, Server, Early, ChatTypeOK, Displays, Notes,
           CallRejected, Finally, serverVars
  <2> QED BY <2>1, <2>2, <2>3 DEF Known
<1> QED BY <1>1, <1>2, <1>3 DEF ChatInv, Known

\* Polls change what a bubble says of the phases, and nothing else.
LEMMA PollReturnsKeeps ==
  ASSUME ChatInv, NEW q \in Questions, PollReturns(q)
  PROVE  ChatInv'
<1>0. ChatTypeOK /\ activeRun \in {NoQuestion, active}
  BY DEF ChatInv
<1>1. ChatTypeOK'
  BY <1>0, ChatAssumption DEF ChatTypeOK, Displays, PollReturns, Stopped, serverVars
<1>2. activeRun' \in {NoQuestion, active'}
  BY <1>0 DEF ChatTypeOK, PollReturns, Stopped, serverVars
<1>3. ASSUME NEW r \in Questions PROVE Known(r)'
  <2>0. Untouched(r) /\ Tab(r) /\ Server(r)
    BY <1>3 DEF ChatInv
  <2>1. Untouched(r)'
    BY <1>0, <1>3, <2>0, ChatAssumption
       DEF Untouched, Tab, ChatTypeOK, PollReturns, Stopped, serverVars
  <2>2. Tab(r)'
    BY <1>0, <1>3, <2>0, ChatAssumption
       DEF Untouched, Tab, ChatTypeOK, Displays, Notes, PollReturns, Stopped,
           serverVars
  <2>3. Server(r)'
    BY <1>0, <1>3, <2>0, ChatAssumption
       DEF Untouched, Tab, Server, Early, ChatTypeOK, Displays, Notes,
           PollReturns, Stopped, serverVars
  <2> QED BY <2>1, <2>2, <2>3 DEF Known
<1> QED BY <1>1, <1>2, <1>3 DEF ChatInv, Known

\* The server's steps leave the tab alone and go on with one call.
LEMMA RecordsQuestionKeeps ==
  ASSUME ChatInv, NEW q \in Questions, RecordsQuestion(q)
  PROVE  ChatInv'
<1>0. ChatTypeOK /\ activeRun \in {NoQuestion, active}
  BY DEF ChatInv
<1>1. ChatTypeOK'
  <2>1. isRunning' \in BOOLEAN
    BY <1>0 DEF ChatTypeOK, RecordsQuestion, Persists, tabVars
  <2>2. isRunning' <=> active' # NoQuestion
    BY <1>0, ChatAssumption DEF ChatTypeOK, RecordsQuestion, Persists, tabVars
  <2>3. /\ active' \in Questions \union {NoQuestion}
        /\ activeRun' \in Questions \union {NoQuestion}
        /\ pollTimer' \in Questions \union {NoQuestion}
    BY <1>0 DEF ChatTypeOK, RecordsQuestion, Persists, tabVars
  <2>4. shown' \in [Questions -> SUBSET Displays]
    BY <1>0 DEF ChatTypeOK, Displays, RecordsQuestion, Persists, tabVars
  <2>5. /\ phased' \subseteq Questions /\ cancelled' \subseteq Questions
        /\ polls' \subseteq Questions /\ cancels' \subseteq Questions
        /\ lost' \subseteq Questions
    BY <1>0 DEF ChatTypeOK, RecordsQuestion, Persists, tabVars
  <2>6. /\ awaiting' \in [Questions -> {"unsent", "start", "finalize", "over"}]
        /\ served' \in [Questions -> {"no", "record", "route", "execute", "running",
                                       "read", "done"}]
        /\ reply' \in [Questions -> {"none", "error", "reply", "run"}]
        /\ chatRun' \in [Questions -> {"none", "pending", "running", "cancelled", "ended"}]
    BY <1>0 DEF ChatTypeOK, RecordsQuestion, Persists, tabVars
  <2>7. losses' \in 0..MaxLost
    BY <1>0, ChatAssumption DEF ChatTypeOK, RecordsQuestion, Persists, tabVars
  <2>8. stored' \subseteq {"user", "assistant"} \X Questions
    BY <1>0 DEF ChatTypeOK, RecordsQuestion, Persists, tabVars
  <2> QED BY <2>1, <2>2, <2>3, <2>4, <2>5, <2>6, <2>7, <2>8 DEF ChatTypeOK
<1>2. activeRun' \in {NoQuestion, active'}
  BY <1>0 DEF ChatTypeOK, RecordsQuestion, Persists, tabVars
<1>3. ASSUME NEW r \in Questions PROVE Known(r)'
  <2>0. Untouched(r) /\ Tab(r) /\ Server(r)
    BY <1>3 DEF ChatInv
  <2>1. Untouched(r)'
    BY <1>0, <1>3, <2>0, ChatAssumption
       DEF Untouched, Tab, ChatTypeOK, RecordsQuestion, Persists, tabVars
  <2>2. Tab(r)'
    BY <1>0, <1>3, <2>0, ChatAssumption
       DEF Untouched, Tab, ChatTypeOK, Displays, Notes, RecordsQuestion,
           Persists, tabVars
  <2>3. Server(r)'
    BY <1>0, <1>3, <2>0, ChatAssumption
       DEF Untouched, Tab, Server, Early, ChatTypeOK, Displays, Notes,
           RecordsQuestion, Persists, tabVars
  <2> QED BY <2>1, <2>2, <2>3 DEF Known
<1> QED BY <1>1, <1>2, <1>3 DEF ChatInv, Known

\* A run is created at most, and the first call is answered.
LEMMA RoutesQuestionKeeps ==
  ASSUME ChatInv, NEW q \in Questions, RoutesQuestion(q)
  PROVE  ChatInv'
<1>0. ChatTypeOK /\ activeRun \in {NoQuestion, active}
  BY DEF ChatInv
<1>1. ChatTypeOK'
  <2>1. isRunning' \in BOOLEAN
    BY <1>0 DEF ChatTypeOK, RoutesQuestion, Persists, Replies, tabVars
  <2>2. isRunning' <=> active' # NoQuestion
    BY <1>0, ChatAssumption DEF ChatTypeOK, RoutesQuestion, Persists, Replies, tabVars
  <2>3. /\ active' \in Questions \union {NoQuestion}
        /\ activeRun' \in Questions \union {NoQuestion}
        /\ pollTimer' \in Questions \union {NoQuestion}
    BY <1>0 DEF ChatTypeOK, RoutesQuestion, Persists, Replies, tabVars
  <2>4. shown' \in [Questions -> SUBSET Displays]
    BY <1>0 DEF ChatTypeOK, Displays, RoutesQuestion, Persists, Replies, tabVars
  <2>5. /\ phased' \subseteq Questions /\ cancelled' \subseteq Questions
        /\ polls' \subseteq Questions /\ cancels' \subseteq Questions
        /\ lost' \subseteq Questions
    BY <1>0 DEF ChatTypeOK, RoutesQuestion, Persists, Replies, tabVars
  <2>6. /\ awaiting' \in [Questions -> {"unsent", "start", "finalize", "over"}]
        /\ served' \in [Questions -> {"no", "record", "route", "execute", "running",
                                       "read", "done"}]
        /\ reply' \in [Questions -> {"none", "error", "reply", "run"}]
        /\ chatRun' \in [Questions -> {"none", "pending", "running", "cancelled", "ended"}]
    BY <1>0 DEF ChatTypeOK, RoutesQuestion, Persists, Replies, tabVars
  <2>7. losses' \in 0..MaxLost
    BY <1>0, ChatAssumption DEF ChatTypeOK, RoutesQuestion, Persists, Replies, tabVars
  <2>8. stored' \subseteq {"user", "assistant"} \X Questions
    BY <1>0 DEF ChatTypeOK, RoutesQuestion, Persists, Replies, tabVars
  <2> QED BY <2>1, <2>2, <2>3, <2>4, <2>5, <2>6, <2>7, <2>8 DEF ChatTypeOK
<1>2. activeRun' \in {NoQuestion, active'}
  BY <1>0 DEF ChatTypeOK, RoutesQuestion, Persists, Replies, tabVars
<1>3. ASSUME NEW r \in Questions PROVE Known(r)'
  <2>0. Untouched(r) /\ Tab(r) /\ Server(r)
    BY <1>3 DEF ChatInv
  <2>1. Untouched(r)'
    BY <1>0, <1>3, <2>0, ChatAssumption
       DEF Untouched, Tab, ChatTypeOK, RoutesQuestion, Persists, Replies,
           tabVars
  <2>2. Tab(r)'
    BY <1>0, <1>3, <2>0, ChatAssumption
       DEF Untouched, Tab, ChatTypeOK, Displays, Notes, RoutesQuestion,
           Persists, Replies, tabVars
  <2>3. CASE r # q
    <3>1. /\ served'[r] = served[r] /\ reply'[r] = reply[r] /\ chatRun'[r] = chatRun[r]
          /\ UNCHANGED <<shown, awaiting, cancels>>
      BY <1>0, <2>3 DEF ChatTypeOK, RoutesQuestion, Persists, Replies, tabVars
    <3>2. Server(r)'
      BY <2>0, <3>1 DEF Server, Early
    <3> QED BY <2>1, <2>2, <3>2 DEF Known
  <2>4. CASE r = q
    <3>1. UNCHANGED <<shown, awaiting, cancels>>
      BY DEF RoutesQuestion, Persists, Replies, tabVars
    <3>2. Early(q)' <=> Early(q)
      BY <3>1 DEF Early
    <3>3. Early(q) => /\ served'[q] \in {"record", "route", "done"}
                      /\ chatRun'[q] \in {"none", "pending"}
                      /\ awaiting[q] # "finalize"
      BY <1>0, <2>0, <2>4
         DEF Server, ChatTypeOK, RoutesQuestion, Persists, Replies, tabVars
    <3>4. served'[q] \notin {"no", "done"} \/ reply'[q] # "none"
      BY <1>0 DEF ChatTypeOK, RoutesQuestion, Persists, Replies, tabVars
    <3>5. Server(r)'
      BY <2>0, <2>4, <3>1, <3>2, <3>3, <3>4 DEF Server
    <3> QED BY <2>1, <2>2, <3>5 DEF Known
  <2> QED BY <2>3, <2>4
<1> QED BY <1>1, <1>2, <1>3 DEF ChatInv, Known

\* Only a run that the tab has asked to execute is executed.
LEMMA ExecutesRunKeeps ==
  ASSUME ChatInv, NEW q \in Questions, ExecutesRun(q)
  PROVE  ChatInv'
<1>0. ChatTypeOK /\ activeRun \in {NoQuestion, active}
  BY DEF ChatInv
<1>1. ChatTypeOK'
  <2>1. isRunning' \in BOOLEAN
    BY <1>0 DEF ChatTypeOK, ExecutesRun, Replies, tabVars
  <2>2. isRunning' <=> active' # NoQuestion
    BY <1>0, ChatAssumption DEF ChatTypeOK, ExecutesRun, Replies, tabVars
  <2>3. /\ active' \in Questions \union {NoQuestion}
        /\ activeRun' \in Questions \union {NoQuestion}
        /\ pollTimer' \in Questions \union {NoQuestion}
    BY <1>0 DEF ChatTypeOK, ExecutesRun, Replies, tabVars
  <2>4. shown' \in [Questions -> SUBSET Displays]
    BY <1>0 DEF ChatTypeOK, Displays, ExecutesRun, Replies, tabVars
  <2>5. /\ phased' \subseteq Questions /\ cancelled' \subseteq Questions
        /\ polls' \subseteq Questions /\ cancels' \subseteq Questions
        /\ lost' \subseteq Questions
    BY <1>0 DEF ChatTypeOK, ExecutesRun, Replies, tabVars
  <2>6. /\ awaiting' \in [Questions -> {"unsent", "start", "finalize", "over"}]
        /\ served' \in [Questions -> {"no", "record", "route", "execute", "running",
                                       "read", "done"}]
        /\ reply' \in [Questions -> {"none", "error", "reply", "run"}]
        /\ chatRun' \in [Questions -> {"none", "pending", "running", "cancelled", "ended"}]
    BY <1>0 DEF ChatTypeOK, ExecutesRun, Replies, tabVars
  <2>7. losses' \in 0..MaxLost
    BY <1>0, ChatAssumption DEF ChatTypeOK, ExecutesRun, Replies, tabVars
  <2>8. stored' \subseteq {"user", "assistant"} \X Questions
    BY <1>0 DEF ChatTypeOK, ExecutesRun, Replies, tabVars
  <2> QED BY <2>1, <2>2, <2>3, <2>4, <2>5, <2>6, <2>7, <2>8 DEF ChatTypeOK
<1>2. activeRun' \in {NoQuestion, active'}
  BY <1>0 DEF ChatTypeOK, ExecutesRun, Replies, tabVars
<1>3. ASSUME NEW r \in Questions PROVE Known(r)'
  <2>0. Untouched(r) /\ Tab(r) /\ Server(r)
    BY <1>3 DEF ChatInv
  <2>1. Untouched(r)'
    BY <1>0, <1>3, <2>0, ChatAssumption
       DEF Untouched, Tab, ChatTypeOK, ExecutesRun, Replies, tabVars
  <2>2. Tab(r)'
    BY <1>0, <1>3, <2>0, ChatAssumption
       DEF Untouched, Tab, ChatTypeOK, Displays, Notes, ExecutesRun, Replies,
           tabVars
  <2>3. CASE r # q
    <3>1. /\ served'[r] = served[r] /\ reply'[r] = reply[r] /\ chatRun'[r] = chatRun[r]
          /\ UNCHANGED <<shown, awaiting, cancels>>
      BY <1>0, <2>3 DEF ChatTypeOK, ExecutesRun, Replies, tabVars
    <3>2. Server(r)'
      BY <2>0, <3>1 DEF Server, Early
    <3> QED BY <2>1, <2>2, <3>2 DEF Known
  <2>4. CASE r = q
    <3>1. UNCHANGED <<shown, awaiting, cancels>>
      BY DEF ExecutesRun, Replies, tabVars
    <3>2. Early(q)' <=> Early(q)
      BY <3>1 DEF Early
    <3>3. Early(q) => /\ served'[q] \in {"record", "route", "done"}
                      /\ chatRun'[q] \in {"none", "pending"}
                      /\ awaiting[q] # "finalize"
      BY <1>0, <2>0, <2>4 DEF Server, ChatTypeOK, ExecutesRun, Replies, tabVars
    <3>4. served'[q] \notin {"no", "done"} \/ reply'[q] # "none"
      BY <1>0 DEF ChatTypeOK, ExecutesRun, Replies, tabVars
    <3>5. Server(r)'
      BY <2>0, <2>4, <3>1, <3>2, <3>3, <3>4 DEF Server
    <3> QED BY <2>1, <2>2, <3>5 DEF Known
  <2> QED BY <2>3, <2>4
<1> QED BY <1>1, <1>2, <1>3 DEF ChatInv, Known

\* A run that ends was executing.
LEMMA EndsRunKeeps ==
  ASSUME ChatInv, NEW q \in Questions, EndsRun(q)
  PROVE  ChatInv'
<1>0. ChatTypeOK /\ activeRun \in {NoQuestion, active}
  BY DEF ChatInv
<1>1. ChatTypeOK'
  <2>1. isRunning' \in BOOLEAN
    BY <1>0 DEF ChatTypeOK, EndsRun, Replies, tabVars
  <2>2. isRunning' <=> active' # NoQuestion
    BY <1>0, ChatAssumption DEF ChatTypeOK, EndsRun, Replies, tabVars
  <2>3. /\ active' \in Questions \union {NoQuestion}
        /\ activeRun' \in Questions \union {NoQuestion}
        /\ pollTimer' \in Questions \union {NoQuestion}
    BY <1>0 DEF ChatTypeOK, EndsRun, Replies, tabVars
  <2>4. shown' \in [Questions -> SUBSET Displays]
    BY <1>0 DEF ChatTypeOK, Displays, EndsRun, Replies, tabVars
  <2>5. /\ phased' \subseteq Questions /\ cancelled' \subseteq Questions
        /\ polls' \subseteq Questions /\ cancels' \subseteq Questions
        /\ lost' \subseteq Questions
    BY <1>0 DEF ChatTypeOK, EndsRun, Replies, tabVars
  <2>6. /\ awaiting' \in [Questions -> {"unsent", "start", "finalize", "over"}]
        /\ served' \in [Questions -> {"no", "record", "route", "execute", "running",
                                       "read", "done"}]
        /\ reply' \in [Questions -> {"none", "error", "reply", "run"}]
        /\ chatRun' \in [Questions -> {"none", "pending", "running", "cancelled", "ended"}]
    BY <1>0 DEF ChatTypeOK, EndsRun, Replies, tabVars
  <2>7. losses' \in 0..MaxLost
    BY <1>0, ChatAssumption DEF ChatTypeOK, EndsRun, Replies, tabVars
  <2>8. stored' \subseteq {"user", "assistant"} \X Questions
    BY <1>0 DEF ChatTypeOK, EndsRun, Replies, tabVars
  <2> QED BY <2>1, <2>2, <2>3, <2>4, <2>5, <2>6, <2>7, <2>8 DEF ChatTypeOK
<1>2. activeRun' \in {NoQuestion, active'}
  BY <1>0 DEF ChatTypeOK, EndsRun, Replies, tabVars
<1>3. ASSUME NEW r \in Questions PROVE Known(r)'
  <2>0. Untouched(r) /\ Tab(r) /\ Server(r)
    BY <1>3 DEF ChatInv
  <2>1. Untouched(r)'
    BY <1>0, <1>3, <2>0, ChatAssumption
       DEF Untouched, Tab, ChatTypeOK, EndsRun, Replies, tabVars
  <2>2. Tab(r)'
    BY <1>0, <1>3, <2>0, ChatAssumption
       DEF Untouched, Tab, ChatTypeOK, Displays, Notes, EndsRun, Replies,
           tabVars
  <2>3. CASE r # q
    <3>1. /\ served'[r] = served[r] /\ reply'[r] = reply[r] /\ chatRun'[r] = chatRun[r]
          /\ UNCHANGED <<shown, awaiting, cancels>>
      BY <1>0, <2>3 DEF ChatTypeOK, EndsRun, Replies, tabVars
    <3>2. Server(r)'
      BY <2>0, <3>1 DEF Server, Early
    <3> QED BY <2>1, <2>2, <3>2 DEF Known
  <2>4. CASE r = q
    <3>1. UNCHANGED <<shown, awaiting, cancels>>
      BY DEF EndsRun, Replies, tabVars
    <3>2. Early(q)' <=> Early(q)
      BY <3>1 DEF Early
    <3>3. Early(q) => /\ served'[q] \in {"record", "route", "done"}
                      /\ chatRun'[q] \in {"none", "pending"}
                      /\ awaiting[q] # "finalize"
      BY <1>0, <2>0, <2>4 DEF Server, ChatTypeOK, EndsRun, Replies, tabVars
    <3>4. served'[q] \notin {"no", "done"} \/ reply'[q] # "none"
      BY <1>0 DEF ChatTypeOK, EndsRun, Replies, tabVars
    <3>5. Server(r)'
      BY <2>0, <2>4, <3>1, <3>2, <3>3, <3>4 DEF Server
    <3> QED BY <2>1, <2>2, <3>5 DEF Known
  <2> QED BY <2>3, <2>4
<1> QED BY <1>1, <1>2, <1>3 DEF ChatInv, Known

\* Every way out of the second call answers it.
LEMMA AnswersQuestionKeeps ==
  ASSUME ChatInv, NEW q \in Questions, AnswersQuestion(q)
  PROVE  ChatInv'
<1>0. ChatTypeOK /\ activeRun \in {NoQuestion, active}
  BY DEF ChatInv
<1>1. ChatTypeOK'
  <2>1. isRunning' \in BOOLEAN
    BY <1>0 DEF ChatTypeOK, AnswersQuestion, Persists, Replies, tabVars
  <2>2. isRunning' <=> active' # NoQuestion
    BY <1>0, ChatAssumption DEF ChatTypeOK, AnswersQuestion, Persists, Replies, tabVars
  <2>3. /\ active' \in Questions \union {NoQuestion}
        /\ activeRun' \in Questions \union {NoQuestion}
        /\ pollTimer' \in Questions \union {NoQuestion}
    BY <1>0 DEF ChatTypeOK, AnswersQuestion, Persists, Replies, tabVars
  <2>4. shown' \in [Questions -> SUBSET Displays]
    BY <1>0 DEF ChatTypeOK, Displays, AnswersQuestion, Persists, Replies, tabVars
  <2>5. /\ phased' \subseteq Questions /\ cancelled' \subseteq Questions
        /\ polls' \subseteq Questions /\ cancels' \subseteq Questions
        /\ lost' \subseteq Questions
    BY <1>0 DEF ChatTypeOK, AnswersQuestion, Persists, Replies, tabVars
  <2>6. /\ awaiting' \in [Questions -> {"unsent", "start", "finalize", "over"}]
        /\ served' \in [Questions -> {"no", "record", "route", "execute", "running",
                                       "read", "done"}]
        /\ reply' \in [Questions -> {"none", "error", "reply", "run"}]
        /\ chatRun' \in [Questions -> {"none", "pending", "running", "cancelled", "ended"}]
    BY <1>0 DEF ChatTypeOK, AnswersQuestion, Persists, Replies, tabVars
  <2>7. losses' \in 0..MaxLost
    BY <1>0, ChatAssumption DEF ChatTypeOK, AnswersQuestion, Persists, Replies, tabVars
  <2>8. stored' \subseteq {"user", "assistant"} \X Questions
    BY <1>0 DEF ChatTypeOK, AnswersQuestion, Persists, Replies, tabVars
  <2> QED BY <2>1, <2>2, <2>3, <2>4, <2>5, <2>6, <2>7, <2>8 DEF ChatTypeOK
<1>2. activeRun' \in {NoQuestion, active'}
  BY <1>0 DEF ChatTypeOK, AnswersQuestion, Persists, Replies, tabVars
<1>3. ASSUME NEW r \in Questions PROVE Known(r)'
  <2>0. Untouched(r) /\ Tab(r) /\ Server(r)
    BY <1>3 DEF ChatInv
  <2>1. Untouched(r)'
    BY <1>0, <1>3, <2>0, ChatAssumption
       DEF Untouched, Tab, ChatTypeOK, AnswersQuestion, Persists, Replies,
           tabVars
  <2>2. Tab(r)'
    BY <1>0, <1>3, <2>0, ChatAssumption
       DEF Untouched, Tab, ChatTypeOK, Displays, Notes, AnswersQuestion,
           Persists, Replies, tabVars
  <2>3. Server(r)'
    BY <1>0, <1>3, <2>0, ChatAssumption
       DEF Untouched, Tab, Server, Early, ChatTypeOK, Displays, Notes,
           AnswersQuestion, Persists, Replies, tabVars
  <2> QED BY <2>1, <2>2, <2>3 DEF Known
<1> QED BY <1>1, <1>2, <1>3 DEF ChatInv, Known

\* A cancel request is only sent for a question stopped late.
LEMMA CancelArrivesKeeps ==
  ASSUME ChatInv, NEW q \in Questions, CancelArrives(q)
  PROVE  ChatInv'
<1>0. ChatTypeOK /\ activeRun \in {NoQuestion, active}
  BY DEF ChatInv
<1>1. ChatTypeOK'
  BY <1>0, ChatAssumption DEF ChatTypeOK, Displays, CancelArrives, tabVars
<1>2. activeRun' \in {NoQuestion, active'}
  BY <1>0 DEF ChatTypeOK, CancelArrives, tabVars
<1>3. ASSUME NEW r \in Questions PROVE Known(r)'
  <2>0. Untouched(r) /\ Tab(r) /\ Server(r)
    BY <1>3 DEF ChatInv
  <2>1. Untouched(r)'
    BY <1>0, <1>3, <2>0, ChatAssumption
       DEF Untouched, Tab, ChatTypeOK, CancelArrives, tabVars
  <2>2. Tab(r)'
    BY <1>0, <1>3, <2>0, ChatAssumption
       DEF Untouched, Tab, ChatTypeOK, Displays, Notes, CancelArrives, tabVars
  <2>3. Server(r)'
    BY <1>0, <1>3, <2>0, ChatAssumption
       DEF Untouched, Tab, Server, Early, ChatTypeOK, Displays, Notes,
           CancelArrives, tabVars
  <2> QED BY <2>1, <2>2, <2>3 DEF Known
<1> QED BY <1>1, <1>2, <1>3 DEF ChatInv, Known

\* Stop replaces the bubble of the question that is waited for, early if the
\* first call is still out, late otherwise.
LEMMA StopKeeps ==
  ASSUME ChatInv, Stop
  PROVE  ChatInv'
<1>0. ChatTypeOK /\ activeRun \in {NoQuestion, active}
  BY DEF ChatInv
<1>1. ChatTypeOK'
  BY <1>0, ChatAssumption DEF ChatTypeOK, Displays, Stop, serverVars
<1>2. activeRun' \in {NoQuestion, active'}
  BY <1>0 DEF ChatTypeOK, Stop, serverVars
<1>3. ASSUME NEW r \in Questions PROVE Known(r)'
  <2>0. Untouched(r) /\ Tab(r) /\ Server(r)
    BY <1>3 DEF ChatInv
  <2>1. Untouched(r)'
    BY <1>0, <1>3, <2>0, ChatAssumption DEF Untouched, Tab, ChatTypeOK, Stop, serverVars
  <2>2. Tab(r)'
    BY <1>0, <1>3, <2>0, ChatAssumption
       DEF Untouched, Tab, ChatTypeOK, Displays, Notes, Stop, serverVars
  <2>3. Server(r)'
    BY <1>0, <1>3, <2>0, ChatAssumption
       DEF Untouched, Tab, Server, Early, ChatTypeOK, Displays, Notes, Stop,
           serverVars
  <2> QED BY <2>1, <2>2, <2>3 DEF Known
<1> QED BY <1>1, <1>2, <1>3 DEF ChatInv, Known

\* A tick sends a poll.
LEMMA PollTicksKeeps ==
  ASSUME ChatInv, PollTicks
  PROVE  ChatInv'
<1>0. ChatTypeOK /\ activeRun \in {NoQuestion, active}
  BY DEF ChatInv
<1>1. ChatTypeOK'
  BY <1>0, ChatAssumption DEF ChatTypeOK, Displays, PollTicks, tabVars, serverVars
<1>2. activeRun' \in {NoQuestion, active'}
  BY <1>0 DEF ChatTypeOK, PollTicks, tabVars, serverVars
<1>3. ASSUME NEW r \in Questions PROVE Known(r)'
  <2>0. Untouched(r) /\ Tab(r) /\ Server(r)
    BY <1>3 DEF ChatInv
  <2>1. Untouched(r)'
    BY <1>0, <1>3, <2>0, ChatAssumption
       DEF Untouched, Tab, ChatTypeOK, PollTicks, tabVars, serverVars
  <2>2. Tab(r)'
    BY <1>0, <1>3, <2>0, ChatAssumption
       DEF Untouched, Tab, ChatTypeOK, Displays, Notes, PollTicks, tabVars,
           serverVars
  <2>3. Server(r)'
    BY <1>0, <1>3, <2>0, ChatAssumption
       DEF Untouched, Tab, Server, Early, ChatTypeOK, Displays, Notes,
           PollTicks, tabVars, serverVars
  <2> QED BY <2>1, <2>2, <2>3 DEF Known
<1> QED BY <1>1, <1>2, <1>3 DEF ChatInv, Known

\* Nothing happens.
LEMMA StutterKeeps ==
  ASSUME ChatInv, UNCHANGED chatVars
  PROVE  ChatInv'
<1>0. ChatTypeOK /\ activeRun \in {NoQuestion, active}
  BY DEF ChatInv
<1>1. ChatTypeOK'
  BY <1>0, ChatAssumption DEF ChatTypeOK, Displays, chatVars, tabVars, serverVars
<1>2. activeRun' \in {NoQuestion, active'}
  BY <1>0 DEF ChatTypeOK, chatVars, tabVars, serverVars
<1>3. ASSUME NEW r \in Questions PROVE Known(r)'
  <2>0. Untouched(r) /\ Tab(r) /\ Server(r)
    BY <1>3 DEF ChatInv
  <2>1. Untouched(r)'
    BY <1>0, <1>3, <2>0, ChatAssumption
       DEF Untouched, Tab, ChatTypeOK, chatVars, tabVars, serverVars
  <2>2. Tab(r)'
    BY <1>0, <1>3, <2>0, ChatAssumption
       DEF Untouched, Tab, ChatTypeOK, Displays, Notes, chatVars, tabVars,
           serverVars
  <2>3. Server(r)'
    BY <1>0, <1>3, <2>0, ChatAssumption
       DEF Untouched, Tab, Server, Early, ChatTypeOK, Displays, Notes,
           chatVars, tabVars, serverVars
  <2> QED BY <2>1, <2>2, <2>3 DEF Known
<1> QED BY <1>1, <1>2, <1>3 DEF ChatInv, Known

-----------------------------------------------------------------------------
\* The invariant that the theorems rest on holds for any number of questions.
THEOREM ChatInductive == ChatSpec => []ChatInv
<1>1. ChatInit => ChatInv
  <2> SUFFICES ASSUME ChatInit PROVE ChatInv
    OBVIOUS
  <2>1. ChatTypeOK
    <3>1. isRunning \in BOOLEAN /\ (isRunning <=> active # NoQuestion)
      BY DEF ChatInit
    <3>2. /\ shown \in [Questions -> SUBSET Displays]
          /\ losses \in 0..MaxLost
      BY ChatAssumption DEF ChatInit
    <3> QED BY <3>1, <3>2 DEF ChatInit, ChatTypeOK
  <2>2. activeRun = NoQuestion
    BY DEF ChatInit
  <2>3. ASSUME NEW q \in Questions PROVE Known(q)
    BY <2>3, ChatAssumption DEF ChatInit, Known, Untouched, Tab, Server, Early, Notes
  <2> QED BY <2>1, <2>2, <2>3 DEF ChatInv, Known
<1>2. ChatInv /\ [ChatNext]_chatVars => ChatInv'
  <2> SUFFICES ASSUME ChatInv, [ChatNext]_chatVars PROVE ChatInv'
    OBVIOUS
  <2>1. CASE Stop
    BY <2>1, StopKeeps
  <2>2. CASE PollTicks
    BY <2>2, PollTicksKeeps
  <2>3. ASSUME NEW q \in Questions, Send(q) \/ Returns(q) \/ CallRejected(q) \/ PollReturns(q)
        PROVE  ChatInv'
    BY <2>3, SendKeeps, StartReturnsKeeps, FinalizesKeeps, FinalizeReturnsKeeps,
       CallRejectedKeeps, PollReturnsKeeps DEF Returns
  <2>4. ASSUME NEW q \in Questions, Serves(q) \/ CancelArrives(q)
        PROVE  ChatInv'
    BY <2>4, RecordsQuestionKeeps, RoutesQuestionKeeps, ExecutesRunKeeps, EndsRunKeeps,
       AnswersQuestionKeeps, CancelArrivesKeeps DEF Serves
  <2>5. CASE UNCHANGED chatVars
    BY <2>5, StutterKeeps
  <2> QED BY <2>1, <2>2, <2>3, <2>4, <2>5 DEF ChatNext
<1> QED BY <1>1, <1>2, PTL DEF ChatSpec

\* Whatever overtakes what, for any number of questions and lost calls: no
\* answer appears beside the note of a stopped question, and one stopped
\* before its analysis started is never analysed (chat-shell.tsx, handleStop).
THEOREM StopNotesAreTrue == ChatSpec => []StopNoteIsTrue
<1>1. ChatInv => StopNoteIsTrue
  BY DEF ChatInv, Tab, Server, Early, StopNoteIsTrue
<1> QED BY ChatInductive, <1>1, PTL

\* The end of one onSend never disturbs the next question: a pending bubble is
\* waited for under a locked composer, unless its call was lost.
THEOREM BubblesAreAwaited == ChatSpec => []BubbleIsAwaited
<1>1. ChatInv => BubbleIsAwaited
  BY ChatAssumption DEF ChatInv, ChatTypeOK, Tab, BubbleIsAwaited
<1> QED BY ChatInductive, <1>1, PTL

\* No path of the two calls ends without an answer, so no wait is for nothing
\* (startAnalysisRun and finalizeAnalysisRun in actions/runs.ts).
THEOREM WaitsAreServed == ChatSpec => []AwaitedIsServed
<1>1. ChatInv => AwaitedIsServed
  BY DEF ChatInv, Server, AwaitedIsServed
<1> QED BY ChatInductive, <1>1, PTL

-----------------------------------------------------------------------------
(* What holds of the two properties that do not hold as they are written.  *)

\* A run comes from the routing of its question, so no run is there before.
RunFollowsRoute ==
  \A q \in Questions : served[q] \in {"no", "record", "route"} => chatRun[q] = "none"

LEMMA RunFollowsRouteKept ==
  ASSUME ChatInv, RunFollowsRoute, [ChatNext]_chatVars
  PROVE  RunFollowsRoute'
<1> USE DEF RunFollowsRoute
<1>t. /\ served \in [Questions -> {"no", "record", "route", "execute", "running",
                                    "read", "done"}]
      /\ chatRun \in [Questions -> {"none", "pending", "running", "cancelled", "ended"}]
  BY DEF ChatInv, ChatTypeOK
<1>1. CASE Stop \/ PollTicks \/ UNCHANGED chatVars
  BY <1>1 DEF Stop, PollTicks, chatVars, serverVars
<1>2. ASSUME NEW q \in Questions, Send(q) PROVE RunFollowsRoute'
  <2>1. chatRun[q] = "none"
    BY <1>2 DEF ChatInv, Untouched, Send
  <2> QED BY <1>2, <1>t, <2>1 DEF Send
<1>3. ASSUME NEW q \in Questions, Returns(q) \/ CallRejected(q) \/ PollReturns(q)
      PROVE  RunFollowsRoute'
  BY <1>3, <1>t DEF Returns, StartReturns, Finalizes, FinalizeReturns, CallRejected,
                    PollReturns, serverVars
<1>4. ASSUME NEW q \in Questions, Serves(q) PROVE RunFollowsRoute'
  BY <1>4, <1>t DEF Serves, RecordsQuestion, RoutesQuestion, ExecutesRun, EndsRun,
                    AnswersQuestion, Replies
<1>5. ASSUME NEW q \in Questions, CancelArrives(q) PROVE RunFollowsRoute'
  BY <1>5, <1>t DEF CancelArrives
<1> QED BY <1>1, <1>2, <1>3, <1>4, <1>5 DEF ChatNext

\* A cancelled run is restarted by an execution that was asked for before the
\* cancel arrived (run_management_service.py counts it as restarted), and by
\* nothing else: a question is routed once and executed once.
LEMMA CancelLastsStep ==
  ASSUME ChatInv, RunFollowsRoute, [ChatNext]_chatVars, NEW q \in Questions,
         chatRun[q] = "cancelled", served[q] \notin {"execute", "running"}
  PROVE  chatRun'[q] = "cancelled" /\ served'[q] \notin {"execute", "running"}
<1>t. /\ served \in [Questions -> {"no", "record", "route", "execute", "running",
                                    "read", "done"}]
      /\ chatRun \in [Questions -> {"none", "pending", "running", "cancelled", "ended"}]
  BY DEF ChatInv, ChatTypeOK
<1>n. served[q] \notin {"no", "record", "route"} /\ ~Early(q)
  BY DEF RunFollowsRoute, ChatInv, Server
<1>1. CASE Stop \/ PollTicks \/ UNCHANGED chatVars
  BY <1>1 DEF Stop, PollTicks, chatVars, serverVars
<1>2. ASSUME NEW r \in Questions, Send(r)
      PROVE  chatRun'[q] = "cancelled" /\ served'[q] \notin {"execute", "running"}
  BY <1>2, <1>t DEF Send
<1>3. ASSUME NEW r \in Questions, Returns(r) \/ CallRejected(r) \/ PollReturns(r)
      PROVE  chatRun'[q] = "cancelled" /\ served'[q] \notin {"execute", "running"}
  BY <1>3, <1>t, <1>n DEF Returns, StartReturns, Finalizes, FinalizeReturns, CallRejected,
                    PollReturns, serverVars, Early
<1>4. ASSUME NEW r \in Questions, Serves(r)
      PROVE  chatRun'[q] = "cancelled" /\ served'[q] \notin {"execute", "running"}
  BY <1>4, <1>t, <1>n DEF Serves, RecordsQuestion, RoutesQuestion, ExecutesRun, EndsRun,
                    AnswersQuestion, Replies
<1>5. ASSUME NEW r \in Questions, CancelArrives(r)
      PROVE  chatRun'[q] = "cancelled" /\ served'[q] \notin {"execute", "running"}
  BY <1>5, <1>t DEF CancelArrives
<1> QED BY <1>1, <1>2, <1>3, <1>4, <1>5 DEF ChatNext

\* The comment on the cancel request (actions/runs.ts) fails by exactly one
\* order of arrival: a cancel overtaken by no execution is final.
THEOREM OnlyPendingExecutionsRestart == ChatSpec => CancelAfterExecutionLasts
<1>1. ChatInit => RunFollowsRoute
  BY DEF ChatInit, RunFollowsRoute
<1>2. ChatInv /\ RunFollowsRoute /\ [ChatNext]_chatVars => RunFollowsRoute'
  BY RunFollowsRouteKept
<1>3. ChatInv /\ RunFollowsRoute /\ [ChatNext]_chatVars =>
        [\A q \in Questions :
           chatRun[q] = "cancelled" /\ served[q] \notin {"execute", "running"} =>
             chatRun'[q] = "cancelled" /\ served'[q] \notin {"execute", "running"}]_chatVars
  BY CancelLastsStep
<1> QED BY <1>1, <1>2, <1>3, ChatInductive, PTL DEF ChatSpec, CancelAfterExecutionLasts

\* With one onSend at a time, whoever clears the timer has set it.
LEMMA PolledKept ==
  ASSUME ChatInv, ProgressIsPolled, OneOnSendAtATime, [ChatNext]_chatVars
  PROVE  ProgressIsPolled'
<1> SUFFICES ASSUME NEW q \in Questions, active' = q, awaiting'[q] = "finalize"
             PROVE  pollTimer' = q
  BY DEF ProgressIsPolled
<1>t. /\ awaiting \in [Questions -> {"unsent", "start", "finalize", "over"}]
      /\ NoQuestion \notin Questions
  BY ChatAssumption DEF ChatInv, ChatTypeOK
<1>1. CASE Stop
  BY <1>1, <1>t DEF Stop
<1>2. CASE PollTicks \/ UNCHANGED chatVars
  BY <1>2 DEF PollTicks, chatVars, tabVars, ProgressIsPolled
<1>3. ASSUME NEW r \in Questions, Send(r) PROVE pollTimer' = q
  BY <1>3, <1>t DEF Send
<1>4. ASSUME NEW r \in Questions, Finally(r), awaiting[r] \in {"start", "finalize"}
      PROVE  FALSE
  BY <1>4, <1>t DEF Finally, OneOnSendAtATime
<1>5. ASSUME NEW r \in Questions, Finalizes(r) PROVE pollTimer' = q
  <2>1. active = r
    BY <1>5 DEF Finalizes, OneOnSendAtATime
  <2> QED BY <1>5, <2>1 DEF Finalizes
<1>6. ASSUME NEW r \in Questions, PollReturns(r) \/ Serves(r) \/ CancelArrives(r)
      PROVE  pollTimer' = q
  BY <1>6 DEF PollReturns, Serves, RecordsQuestion, RoutesQuestion, ExecutesRun, EndsRun,
              AnswersQuestion, CancelArrives, tabVars, ProgressIsPolled
<1> QED BY <1>1, <1>2, <1>3, <1>4, <1>5, <1>6
        DEF ChatNext, Returns, StartReturns, FinalizeReturns, CallRejected, Settles

\* The timer that onSend sets stays set as long as its question is waited for,
\* where no call of a stopped question is still out when the next one is asked.
THEOREM LoneQuestionsArePolled ==
  ChatSpec /\ []OneOnSendAtATime => []ProgressIsPolled
<1>1. ChatInit => ProgressIsPolled
  BY DEF ChatInit, ProgressIsPolled
<1>2. ChatInv /\ ProgressIsPolled /\ OneOnSendAtATime /\ [ChatNext]_chatVars
        => ProgressIsPolled'
  BY PolledKept
<1> QED BY <1>1, <1>2, ChatInductive, PTL DEF ChatSpec
===============================================================================
