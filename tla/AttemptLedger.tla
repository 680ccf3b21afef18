---------------------------- MODULE AttemptLedger ----------------------------
(***************************************************************************)
(* What the job table promises about one run, with the protocol left out:  *)
(* attempts are opened one at a time and counted, an open attempt is held  *)
(* by at most one claimant, each with a fresh token, and an attempt that   *)
(* ends stays ended.                                                       *)
(***************************************************************************)
EXTENDS Naturals

CONSTANT Runs

VARIABLES
  opened,   \* attempts ever opened for the run
  phase,    \* of the newest attempt: none open, waiting for or held by a worker
  holder,   \* token of the claimant; 0 when not held
  tokens    \* tokens handed out so far

ledger == <<opened, phase, holder, tokens>>

Init ==
  /\ opened = [r \in Runs |-> 0]
  /\ phase  = [r \in Runs |-> "none"]
  /\ holder = [r \in Runs |-> 0]
  /\ tokens = 0

Open(r) ==
  /\ phase[r] = "none"
  /\ opened' = [opened EXCEPT ![r] = @ + 1]
  /\ phase'  = [phase EXCEPT ![r] = "waiting"]
  /\ UNCHANGED <<holder, tokens>>

\* A first claim, or a takeover from a claimant that went away.
Take(r) ==
  /\ phase[r] \in {"waiting", "held"}
  /\ tokens' = tokens + 1
  /\ phase'  = [phase EXCEPT ![r] = "held"]
  /\ holder' = [holder EXCEPT ![r] = tokens + 1]
  /\ UNCHANGED opened

End(r) ==
  /\ phase[r] \in {"waiting", "held"}
  /\ phase'  = [phase EXCEPT ![r] = "none"]
  /\ holder' = [holder EXCEPT ![r] = 0]
  /\ UNCHANGED <<opened, tokens>>

\* A held attempt fails and its successor is opened with it.
EndAndReopen(r) ==
  /\ phase[r] = "held"
  /\ opened' = [opened EXCEPT ![r] = @ + 1]
  /\ phase'  = [phase EXCEPT ![r] = "waiting"]
  /\ holder' = [holder EXCEPT ![r] = 0]
  /\ UNCHANGED tokens

Next == \E r \in Runs : Open(r) \/ Take(r) \/ End(r) \/ EndAndReopen(r)

Spec == Init /\ [][Next]_ledger

==============================================================================
