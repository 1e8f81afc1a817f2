------------------------------ MODULE HiresInTurn ------------------------------
(***************************************************************************)
(* What a hire is paid for.  hire_crew reads the crew count first and      *)
(* writes that count plus one at its commit, so that hires of one crew     *)
(* which overlap lose members that were paid for.  Here a history variable *)
(* remembers the crews whose hires have; each other crew has a member for  *)
(* each hire that was paid, whatever else its user buys meanwhile.         *)
(***************************************************************************)
EXTENDS Wallets, FiniteSets

VARIABLE rivalled       \* crews, by user and airport, with overlapping hires

Crews == Users \X Airports
Hiring(s, c) ==
  pc[s] # "idle" /\ job[s].reason = "crew_hire" /\ <<job[s].user, job[s].about>> = c

Rivalled == {c \in Crews : \E s, t \in Sessions : s # t /\ Hiring(s, c) /\ Hiring(t, c)}
Record == rivalled' = rivalled \cup Rivalled'

(* The actions of Next, each with Record.                                  *)
HistoryInit == Init /\ rivalled = {}
HistoryNext ==
  \E s \in Sessions :
    \/ SignupBegin(s) /\ Record
    \/ UnlockBegin(s) /\ Record
    \/ HireBegin(s) /\ Record
    \/ RentBegin(s) /\ Record
    \/ ClaimBegin(s) /\ Record
    \/ SignupCommit(s) /\ Record
    \/ UnlockInsert(s) /\ Record
    \/ UnlockCommit(s) /\ Record
    \/ HireCommit(s) /\ Record
    \/ RentCommit(s) /\ Record
    \/ ClaimCommit(s) /\ Record
    \/ ReadWallet(s) /\ Record
    \/ UpdateWallet(s) /\ Record
    \/ Refuse(s) /\ Record
    \/ Fail(s) /\ Record
HistorySpec ==
  /\ HistoryInit
  /\ [][HistoryNext]_<<vars, rivalled>>
  /\ Fairness
-------------------------------------------------------------------------------
Hires(c) == {i \in 1 .. Len(ledger[c[1]]) : Posted(c[1], i, "crew_hire", c[2])}
Starter(c) == IF c[1] \in accounts /\ c[2] \in StarterCrew THEN 1 ELSE 0

(* Each hire in the ledger has added one member to its crew, unless two    *)
(* hires of that crew overlapped: no refused, failed or other request of   *)
(* the user takes a member that was paid for, or adds one.  (hire_crew.)   *)
HiresCount ==
  \A c \in Crews \ rivalled : crew[c] = Starter(c) + Cardinality(Hires(c))

(* The inductive invariant: at most one session hires such a crew, and the *)
(* crew is still as that session has read it.                              *)
RivalsInv ==
  \A c \in Crews \ rivalled : \A s, t \in Sessions :
    Hiring(s, c) => seen[s] = crew[c] /\ (Hiring(t, c) => s = t)

InTurnInv == HiresCount /\ RivalsInv
===============================================================================
