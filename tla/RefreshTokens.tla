----------------------------- MODULE RefreshTokens -----------------------------
(***************************************************************************)
(* The refresh_tokens table of one user and the transactions of /auth that *)
(* write it.                                                               *)
(*                                                                         *)
(* A job is a request to the server: sent by a sender, loaded once its     *)
(* transaction has read the row of the token it brought, then answered.    *)
(* The server goes on with a job whoever still awaits its answer.          *)
(*                                                                         *)
(* There is no clock: any token may be found past its expires_at.  The     *)
(* access token that is issued with each refresh token has no row.         *)
(***************************************************************************)
EXTENDS Integers, FiniteSets

CONSTANTS Tokens, Senders, None

ASSUME TokensAssumption == None \notin Tokens \cup Senders

VARIABLES
  row,        \* the table
  parent,     \* history: the token that each token was exchanged for
  job         \* the request of each sender

tableVars == <<row, parent>>
serverVars == <<tableVars, job>>

OptionalToken == Tokens \cup {None}

Row == [issued : BOOLEAN, revoked : BOOLEAN, replaced_by : OptionalToken]
Issued(b) == [issued |-> b, revoked |-> FALSE, replaced_by |-> None]

Job == [kind : {"none", "login", "refresh", "logout"}, token : OptionalToken,
        stage : {"none", "sent", "loaded", "issued", "refused", "done"},
        answer : OptionalToken, awaited : BOOLEAN]
NoJob == [kind |-> "none", token |-> None, stage |-> "none", answer |-> None,
          awaited |-> FALSE]
Request(kind, t) ==
  [kind |-> kind, token |-> t, stage |-> "sent", answer |-> None, awaited |-> TRUE]

ServerTypeOK ==
  /\ row \in [Tokens -> Row]
  /\ parent \in [Tokens -> OptionalToken]
  /\ job \in [Senders -> Job]

ServerInit ==
  /\ row = [t \in Tokens |-> Issued(FALSE)]
  /\ parent = [t \in Tokens |-> None]
  /\ job = [s \in Senders |-> NoJob]

-------------------------------------------------------------------------------
Unissued == {t \in Tokens : ~row[t].issued}
NewToken == CHOOSE t \in Tokens : ~row[t].issued

At(s, kind, stage) == job[s].kind = kind /\ job[s].stage = stage

(* The answer, of which nothing is left if nobody awaits it.               *)
Answer(s, stage, t) ==
  job' = [job EXCEPT ![s] = IF job[s].awaited
                            THEN [job[s] EXCEPT !.stage = stage, !.answer = t]
                            ELSE NoJob]

(* login and signup                                                        *)
Login(s) ==
  /\ At(s, "login", "sent")
  /\ Unissued # {}
  /\ row' = [row EXCEPT ![NewToken] = Issued(TRUE)]
  /\ Answer(s, "issued", NewToken)
  /\ UNCHANGED parent

(* refresh, up to its test of the row                                      *)
LoadToken(s) ==
  /\ At(s, "refresh", "sent")
  /\ \/ row[job[s].token].revoked /\ Answer(s, "refused", None)
     \/ ~row[job[s].token].revoked /\ job' = [job EXCEPT ![s].stage = "loaded"]
  /\ UNCHANGED tableVars

(* refresh, from its test to the commit.  The test is not repeated: a      *)
(* second transaction only waits for the row lock of the first.            *)
RotateUnsaved(s) ==
  /\ At(s, "refresh", "loaded")
  /\ Unissued # {}
  /\ row' = [row EXCEPT ![job[s].token].revoked = TRUE]
  /\ UNCHANGED parent
  /\ Answer(s, "issued", NewToken)
RotateFault(s) ==
  /\ At(s, "refresh", "loaded")
  /\ Unissued # {}
  /\ row' = [row EXCEPT ![NewToken] = Issued(TRUE), ![job[s].token].revoked = TRUE]
  /\ parent' = [parent EXCEPT ![NewToken] = job[s].token]
  /\ Answer(s, "issued", NewToken)
Rotate(s) ==
  /\ At(s, "refresh", "loaded")
  /\ Unissued # {}
  /\ row' = [row EXCEPT ![NewToken] = Issued(TRUE), ![job[s].token].revoked = TRUE,
                        ![job[s].token].replaced_by = NewToken]
  /\ parent' = [parent EXCEPT ![NewToken] = job[s].token]
  /\ Answer(s, "issued", NewToken)

(* logout: what it reads does not matter, a revoked row stays revoked.     *)
Logout(s) ==
  /\ At(s, "logout", "sent")
  /\ row' = [row EXCEPT ![job[s].token].revoked = TRUE]
  /\ Answer(s, "done", None)
  /\ UNCHANGED parent

(* The request does not get there, or its transaction is rolled back, or   *)
(* it is refused because the token is past its expires_at.                 *)
JobFails(s) ==
  /\ job[s].stage \in {"sent", "loaded"}
  /\ job' = [job EXCEPT ![s] = NoJob]
  /\ UNCHANGED tableVars

Serve(s) == Login(s) \/ LoadToken(s) \/ Rotate(s) \/ Logout(s) \/ JobFails(s)

(* The chain of replaced tokens: what a row points at was exchanged for    *)
(* it, and a token that has been exchanged is revoked and points at one of *)
(* those it was exchanged for ("Link rotation chain", refresh).  Transac-  *)
(* tions that exchange one token twice overwrite the link but do not break *)
(* it.                                                                     *)
RotationChain ==
  \A t \in Tokens :
    /\ row[t].replaced_by # None =>
         row[t].revoked /\ parent[row[t].replaced_by] = t
    /\ \A n \in Tokens : parent[n] = t =>
         row[t].revoked /\ row[t].replaced_by # None /\ row[n].issued
===============================================================================
