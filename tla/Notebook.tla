------------------------------- MODULE Notebook -------------------------------
(***************************************************************************)
(* What an investigation promises to whoever stores, reads and resumes it, *)
(* with all reasoning left out: results are only ever added, and no more   *)
(* of them than the budget allows; the store keeps a beginning of what has *)
(* been done, so that a crash costs one batch at most and nothing that was *)
(* kept; and an answer, once given, is the end of the adding and stays.    *)
(***************************************************************************)
EXTENDS Naturals, Sequences

CONSTANTS Budget,     \* results that an investigation may add
          BatchSize,  \* results that may be on their way to the store
          NoAnswer

VARIABLES
  done,     \* the results there are
  kept,     \* the results in the store
  answer    \* as stored; NoAnswer until there is one

notebook == <<done, kept, answer>>

Init == done = <<>> /\ kept = <<>> /\ answer = NoAnswer

\* One result more, that may be stored at once.
Add ==
  /\ answer = NoAnswer
  /\ Len(done) < Budget /\ Len(done) < Len(kept) + BatchSize
  /\ Len(done') = Len(done) + 1
  /\ \A n \in 1..Len(done) : done'[n] = done[n]
  /\ kept' \in {kept, done'}
  /\ UNCHANGED answer

Keep == kept' = done /\ UNCHANGED <<done, answer>>

\* Whoever was working dies; the next one goes by the store.
Lose == done' = kept /\ UNCHANGED <<kept, answer>>

Answer ==
  /\ answer = NoAnswer /\ answer' # NoAnswer
  /\ kept' = done
  /\ UNCHANGED done

Next == Add \/ Keep \/ Lose \/ Answer

Spec == Init /\ [][Next]_notebook

===============================================================================
