----------------------------- MODULE SignInProofs -----------------------------
(***************************************************************************)
(* Proofs about SignIn, for any sets of pages, calls and tokens.           *)
(*                                                                         *)
(* The argument rests on where a token is known.  A token that the server  *)
(* has issued is first in one answer only, then in the store, then in the  *)
(* jobs that bring it; it is never in two of these stages.  So nobody can  *)
(* have used up the token of an answer, and what Refreshed puts into the   *)
(* store is usable.                                                        *)
(***************************************************************************)
EXTENDS SignIn, TLAPS

TableInv ==
  /\ RotationChain
  /\ \A t \in Tokens : ~row[t].issued => row[t] = Issued(FALSE) /\ parent[t] = None

(* What a job is like, by itself.                                          *)
JobShape(s) ==
  /\ job[s].kind = "none" => job[s] = NoJob
  /\ job[s].kind = "login" => job[s].token = None
  /\ job[s].kind \in {"refresh", "logout"} =>
       job[s].token \in Tokens /\ row[job[s].token].issued
  /\ ~job[s].awaited => job[s] = NoJob \/ job[s].stage \in {"sent", "loaded"}
  /\ job[s].stage # "issued" => job[s].answer = None
  /\ job[s].stage = "done" => job[s].kind = "logout"

(* Who awaits it.                                                          *)
JobAwaited(s) ==
  /\ job[s].awaited => \/ job[s].kind = "refresh" /\ pc[s] = "refreshing"
                       \/ job[s].kind = "login" /\ pc[s] = "login"
                       \/ job[s].kind = "logout" /\ pc[s] = "logout"
  /\ pc[s] = "refreshing" => s \in Callers /\ (job[s] = NoJob \/ job[s].awaited)
  /\ pc[s] \in {"login", "logout"} => s \notin Callers

(* Nobody else knows the token of an answer.                               *)
AnswerIsNew(s) ==
  job[s].stage = "issued" =>
    /\ job[s].kind \in {"login", "refresh"}
    /\ job[s].answer \in Tokens
    /\ row[job[s].answer].issued /\ ~row[job[s].answer].revoked
    /\ job[s].answer # stored
    /\ \A r \in Senders : /\ job[r].token # job[s].answer
                          /\ r # s => job[r].answer # job[s].answer
    /\ job[s].kind = "refresh" => row[job[s].token].revoked

JobInv == \A s \in Senders : JobShape(s) /\ JobAwaited(s) /\ AnswerIsNew(s)

ReplacedInv ==
  \A p \in Pages : \A t \in replaced[p] :
    row[t].issued /\ row[t].revoked /\ t # stored

(* Who used up the stored token will put another one in its place.         *)
UsedUp(s) ==
  /\ job[s].awaited /\ job[s].token = stored
  /\ \/ job[s].kind = "refresh" /\ job[s].stage = "issued"
     \/ job[s].stage = "done"

StoreInv ==
  /\ \A s \in Senders : stored # None /\ ~job[s].awaited /\ job[s].token = stored => missed
  /\ stored # None /\ row[stored].revoked => missed \/ \E s \in Senders : UsedUp(s)

PromiseInv ==
  \A p \in Pages : refreshPromise[p] # None =>
    pageOf[refreshPromise[p]] = p /\ pc[refreshPromise[p]] = "refreshing"

SignInInv ==
  /\ TypeOK /\ TableInv /\ JobInv /\ ReplacedInv /\ StoreInv
  /\ PromiseInv /\ OneRefreshPerPage /\ NeverReplays

-------------------------------------------------------------------------------
(* The initial state.                                                      *)
LEMMA SignInInit == Init => SignInInv
<1>. SUFFICES ASSUME Init PROVE SignInInv
  OBVIOUS
<1>1. TypeOK
  BY TokensAssumption, PagesAssumption
  DEF Init, ServerInit, TypeOK, ServerTypeOK, Row, Issued, Job, NoJob, OptionalToken
<1>2. TableInv
  BY TokensAssumption DEF Init, ServerInit, TableInv, RotationChain, Issued
<1>3. JobInv
  BY TokensAssumption, PagesAssumption
  DEF Init, ServerInit, JobInv, JobShape, JobAwaited, AnswerIsNew, NoJob
<1>4. ReplacedInv /\ StoreInv
  BY DEF Init, ReplacedInv, StoreInv
<1>5. PromiseInv /\ OneRefreshPerPage /\ NeverReplays
  BY PagesAssumption DEF Init, PromiseInv, OneRefreshPerPage, NeverReplays
<1>. QED
  BY <1>1, <1>2, <1>3, <1>4, <1>5 DEF SignInInv

-------------------------------------------------------------------------------
(* Calls that start, end, or wait, and sign-outs without a request.        *)

(* What these steps change.                                                *)
Place == {"idle", "calling", "refreshing", "waiting", "login", "logout"}
CallStep(c) ==
  /\ UNCHANGED <<row, parent, job, replaced, refreshPromise>>
  /\ \/ stored' = stored /\ missed' = missed
     \/ stored' = None /\ missed' = FALSE
  /\ isAuthenticated' \in [Pages -> BOOLEAN]
  /\ pc[c] \in {"idle", "calling"} /\ pc'[c] \in {"idle", "calling", "waiting"}
  /\ \A s \in Senders : s # c => pc'[s] = pc[s]
  /\ pc' \in [Senders -> Place]
  /\ pc'[c] = "waiting" => refreshPromise[pageOf[c]] # None

LEMMA GotoPlaces ==
  ASSUME pc \in [Senders -> Place], NEW S, NEW to \in Place, Goto(S, to)
  PROVE  /\ pc' \in [Senders -> Place]
         /\ \A s \in Senders : s \in S => pc'[s] = to
         /\ \A s \in Senders : s \notin S => pc'[s] = pc[s]
BY DEF Goto

LEMMA QuietInv ==
  ASSUME SignInInv, NEW c \in Callers,
         StartCall(c) \/ EndCall(c) \/ NoRefresh(c) \/ AwaitRefresh(c)
  PROVE  SignInInv'
<1>. USE PagesAssumption, TokensAssumption
<1>0. TypeOK /\ c \in Senders /\ pageOf[c] \in Pages
  BY DEF SignInInv
<1>1. CallStep(c)
  <2>0. pc \in [Senders -> Place] /\ isAuthenticated \in [Pages -> BOOLEAN]
    BY <1>0 DEF TypeOK, Place
  <2>1. CASE StartCall(c)
    <3>1. Goto({c}, "calling")
      BY <2>1 DEF StartCall
    <3>. QED
      BY <1>0, <2>0, <2>1, <3>1, GotoPlaces DEF StartCall, CallStep, Place, serverVars, tableVars
  <2>2. CASE EndCall(c)
    <3>1. Goto({c}, "idle")
      BY <2>2 DEF EndCall
    <3>. QED
      BY <1>0, <2>0, <2>2, <3>1, GotoPlaces DEF EndCall, CallStep, Place, serverVars, tableVars
  <2>3. CASE NoRefresh(c)
    <3>1. Goto({c}, "idle")
      BY <2>3 DEF NoRefresh, ForceLogout
    <3>. QED
      BY <1>0, <2>0, <2>3, <3>1, GotoPlaces
      DEF NoRefresh, ForceLogout, clearTokens, CallStep, Place, serverVars, tableVars
  <2>4. CASE AwaitRefresh(c)
    <3>1. Goto({c}, "waiting")
      BY <2>4 DEF AwaitRefresh
    <3>. QED
      BY <1>0, <2>0, <2>4, <3>1, GotoPlaces DEF AwaitRefresh, CallStep, Place, serverVars, tableVars
  <2>. QED
    BY <2>1, <2>2, <2>3, <2>4
<1>2. TypeOK'
  BY <1>0, <1>1 DEF TypeOK, ServerTypeOK, OptionalToken, CallStep, Place
<1>3. TableInv'
  BY <1>1 DEF SignInInv, TableInv, RotationChain, CallStep
<1>4. JobInv'
  BY <1>0, <1>1 DEF SignInInv, JobInv, JobShape, JobAwaited, AnswerIsNew, CallStep
<1>5. ReplacedInv' /\ StoreInv'
  BY <1>0, <1>1 DEF SignInInv, ReplacedInv, StoreInv, UsedUp, TypeOK, CallStep
<1>6. PromiseInv'
  BY <1>0, <1>1 DEF SignInInv, PromiseInv, TypeOK, CallStep
<1>7. OneRefreshPerPage'
  BY <1>0, <1>1 DEF SignInInv, OneRefreshPerPage, PromiseInv, TypeOK, CallStep
<1>8. NeverReplays'
  BY <1>0, <1>1 DEF SignInInv, NeverReplays, CallStep
<1>. QED
  BY <1>2, <1>3, <1>4, <1>5, <1>6, <1>7, <1>8 DEF SignInInv

-------------------------------------------------------------------------------
(* The server.                                                             *)

LEMMA NewTokenIsNew ==
  ASSUME Unissued # {}
  PROVE  NewToken \in Tokens /\ ~row[NewToken].issued
BY DEF Unissued, NewToken

(* A job that goes on without an effect on the table.                      *)
LEMMA LoadInv ==
  ASSUME SignInInv, NEW s \in Senders, LoadToken(s) \/ JobFails(s), UNCHANGED pageVars
  PROVE  SignInInv'
<1>. USE TokensAssumption
<1>0. TypeOK /\ ServerTypeOK /\ JobShape(s) /\ JobAwaited(s)
  BY DEF SignInInv, JobInv, TypeOK
<1>1. /\ UNCHANGED <<row, parent, isAuthenticated, stored, pc, refreshPromise, missed, replaced>>
      /\ \A r \in Senders : r # s => job'[r] = job[r]
      /\ job[s].stage \in {"sent", "loaded"}
      /\ job' \in [Senders -> Job]
      /\ \/ job'[s] = NoJob
         \/ /\ job[s].kind = "refresh"
            /\ job'[s].stage \in {"loaded", "refused"} /\ job'[s].answer = None
            /\ job'[s].kind = job[s].kind /\ job'[s].token = job[s].token
            /\ job'[s].awaited = job[s].awaited
            /\ job'[s].stage = "refused" => job[s].awaited
  <2>0. job \in [Senders -> Job] /\ NoJob \in Job
    BY <1>0 DEF ServerTypeOK, Job, NoJob, OptionalToken
  <2>1. CASE JobFails(s)
    BY <2>0, <2>1 DEF JobFails, pageVars, tableVars
  <2>2. CASE LoadToken(s)
    <3>1. /\ job[s].kind = "refresh" /\ job[s].stage = "sent"
          /\ UNCHANGED <<row, parent, isAuthenticated, stored, pc, refreshPromise, missed, replaced>>
          /\ \/ Answer(s, "refused", None)
             \/ job' = [job EXCEPT ![s].stage = "loaded"]
      BY <2>2 DEF LoadToken, At, pageVars, tableVars
    <3>2. CASE Answer(s, "refused", None)
      BY <2>0, <3>1, <3>2 DEF Answer, Job, OptionalToken
    <3>3. CASE job' = [job EXCEPT ![s].stage = "loaded"]
      BY <1>0, <2>0, <3>1, <3>3 DEF JobShape, Job
    <3>. QED
      BY <3>1, <3>2, <3>3
  <2>. QED
    BY <2>1, <2>2
<1>2. TypeOK'
  BY <1>0, <1>1 DEF TypeOK, ServerTypeOK
<1>3. TableInv'
  BY <1>1 DEF SignInInv, TableInv, RotationChain
<1>4. JobInv'
  BY <1>0, <1>1 DEF SignInInv, JobInv, JobShape, JobAwaited, AnswerIsNew, NoJob
<1>5. ReplacedInv' /\ StoreInv'
  BY <1>0, <1>1 DEF SignInInv, ReplacedInv, StoreInv, UsedUp, TypeOK, NoJob
<1>6. PromiseInv' /\ OneRefreshPerPage'
  BY <1>0, <1>1 DEF SignInInv, PromiseInv, OneRefreshPerPage
<1>8. NeverReplays'
  BY <1>0, <1>1, PagesAssumption DEF SignInInv, NeverReplays, TypeOK, NoJob
<1>. QED
  BY <1>2, <1>3, <1>4, <1>5, <1>6, <1>8 DEF SignInInv

(* The job that issues a token, or has it forgotten if nobody awaits it.   *)
Gives(s, n) ==
  /\ job' \in [Senders -> Job]
  /\ \A r \in Senders : r # s => job'[r] = job[r]
  /\ ~job[s].awaited => job'[s] = NoJob
  /\ job[s].awaited =>
       /\ job'[s].stage = "issued" /\ job'[s].answer = n
       /\ job'[s].kind = job[s].kind /\ job'[s].token = job[s].token /\ job'[s].awaited

LEMMA AnswerGives ==
  ASSUME job \in [Senders -> Job], NEW s \in Senders, NEW n \in Tokens, Answer(s, "issued", n)
  PROVE  Gives(s, n)
<1>1. NoJob \in Job
  BY DEF Job, NoJob, OptionalToken
<1>. QED
  BY <1>1 DEF Answer, Gives, Job, OptionalToken

LEMMA NewIsUnknown ==
  ASSUME SignInInv, NEW n \in Tokens, ~row[n].issued
  PROVE  /\ row[n] = Issued(FALSE) /\ parent[n] = None /\ n # stored
         /\ \A t \in Tokens : row[t].replaced_by # n /\ parent[t] # n
         /\ \A s \in Senders : job[s].token # n /\ job[s].answer # n
         /\ \A p \in Pages : n \notin replaced[p]
<1>. USE TokensAssumption
<1>1. row[n] = Issued(FALSE) /\ parent[n] = None
  BY DEF SignInInv, TableInv
<1>2. n # stored
  BY DEF SignInInv, TypeOK
<1>3. \A t \in Tokens : row[t].replaced_by # n /\ parent[t] # n
  <2>1. \A t \in Tokens : parent[t] = n => row[n].revoked
    BY DEF SignInInv, TableInv, RotationChain
  <2>2. \A t \in Tokens : row[t].replaced_by = n => parent[n] = t
    BY DEF SignInInv, TableInv, RotationChain
  <2>. QED
    BY <1>1, <2>1, <2>2 DEF Issued
<1>4. \A s \in Senders : job[s].token # n /\ job[s].answer # n
  <2>1. TAKE s \in Senders
  <2>2. JobShape(s) /\ AnswerIsNew(s) /\ job[s] \in Job
    BY DEF SignInInv, JobInv, TypeOK, ServerTypeOK
  <2>. QED
    BY <2>2 DEF JobShape, AnswerIsNew, Job, NoJob
<1>5. \A p \in Pages : n \notin replaced[p]
  BY DEF SignInInv, ReplacedInv
<1>. QED
  BY <1>1, <1>2, <1>3, <1>4, <1>5

LEMMA LoginInv ==
  ASSUME SignInInv, NEW s \in Senders, Login(s), UNCHANGED pageVars
  PROVE  SignInInv'
<1>. USE TokensAssumption
<1>1. PICK n \in Tokens : /\ n = NewToken /\ ~row[n].issued
  BY NewTokenIsNew DEF Login
<1>2. /\ row[n] = Issued(FALSE) /\ parent[n] = None /\ n # stored
      /\ \A t \in Tokens : row[t].replaced_by # n /\ parent[t] # n
      /\ \A r \in Senders : job[r].token # n /\ job[r].answer # n
      /\ \A p \in Pages : n \notin replaced[p]
  BY <1>1, NewIsUnknown
<1>3. /\ TypeOK /\ ServerTypeOK /\ JobShape(s) /\ JobAwaited(s)
      /\ job[s].kind = "login" /\ job[s].stage = "sent"
  BY DEF SignInInv, JobInv, TypeOK, Login, At
<1>4. /\ UNCHANGED <<parent, isAuthenticated, stored, pc, refreshPromise, missed, replaced>>
      /\ row' \in [Tokens -> Row] /\ row'[n] = Issued(TRUE)
      /\ \A t \in Tokens : t # n => row'[t] = row[t]
  BY <1>1, <1>3 DEF Login, pageVars, ServerTypeOK, Row, Issued, OptionalToken
<1>5. Gives(s, n)
  BY <1>1, <1>3, AnswerGives DEF Login, ServerTypeOK
<1>6. TypeOK'
  BY <1>3, <1>4, <1>5 DEF TypeOK, ServerTypeOK, Gives, OptionalToken, Issued
<1>7. TableInv'
  BY <1>2, <1>4 DEF SignInInv, TableInv, RotationChain, Issued
<1>8. JobInv'
  <2>1. SUFFICES ASSUME NEW r \in Senders PROVE (JobShape(r) /\ JobAwaited(r) /\ AnswerIsNew(r))'
    BY DEF JobInv
  <2>2. /\ JobShape(r) /\ JobAwaited(r) /\ AnswerIsNew(r)
    BY DEF SignInInv, JobInv
  <2>3. JobShape(r)'
    BY <1>2, <1>3, <1>4, <1>5, <2>2 DEF JobShape, Gives, NoJob, Issued
  <2>4. JobAwaited(r)'
    BY <1>3, <1>4, <1>5, <2>2 DEF JobAwaited, Gives, NoJob
  <2>5. AnswerIsNew(r)'
    BY <1>2, <1>3, <1>4, <1>5, <2>2 DEF AnswerIsNew, JobShape, Gives, NoJob, Issued
  <2>. QED
    BY <2>3, <2>4, <2>5
<1>9. ReplacedInv' /\ StoreInv'
  BY <1>2, <1>3, <1>4, <1>5 DEF SignInInv, ReplacedInv, StoreInv, UsedUp, TypeOK, Gives, NoJob, OptionalToken, JobShape
<1>10. PromiseInv' /\ OneRefreshPerPage' /\ NeverReplays'
  BY <1>3, <1>4, <1>5, PagesAssumption DEF SignInInv, PromiseInv, OneRefreshPerPage, NeverReplays, Gives, JobAwaited, NoJob, TypeOK
<1>. QED
  BY <1>6, <1>7, <1>8, <1>9, <1>10 DEF SignInInv

LEMMA RotateInv ==
  ASSUME SignInInv, NEW s \in Senders, Rotate(s), UNCHANGED pageVars
  PROVE  SignInInv'
<1>. USE TokensAssumption
<1>1. PICK n \in Tokens : /\ n = NewToken /\ ~row[n].issued
  BY NewTokenIsNew DEF Rotate
<1>2. /\ row[n] = Issued(FALSE) /\ parent[n] = None /\ n # stored
      /\ \A t \in Tokens : row[t].replaced_by # n /\ parent[t] # n
      /\ \A r \in Senders : job[r].token # n /\ job[r].answer # n
      /\ \A p \in Pages : n \notin replaced[p]
  BY <1>1, NewIsUnknown
<1>3. /\ TypeOK /\ ServerTypeOK /\ JobShape(s) /\ JobAwaited(s)
      /\ job[s].kind = "refresh" /\ job[s].stage = "loaded"
  BY DEF SignInInv, JobInv, TypeOK, Rotate, At
<1>a. PICK t \in Tokens : t = job[s].token /\ row[t].issued /\ t # n
  BY <1>1, <1>3 DEF JobShape
<1>4. /\ UNCHANGED <<isAuthenticated, stored, pc, refreshPromise, missed, replaced>>
      /\ row' \in [Tokens -> Row] /\ row'[n] = Issued(TRUE)
      /\ row'[t].issued /\ row'[t].revoked /\ row'[t].replaced_by = n
      /\ \A u \in Tokens : u \notin {t, n} => row'[u] = row[u]
      /\ parent' \in [Tokens -> OptionalToken] /\ parent'[n] = t
      /\ \A u \in Tokens : u # n => parent'[u] = parent[u]
  BY <1>1, <1>3, <1>a DEF Rotate, pageVars, ServerTypeOK, Row, Issued, OptionalToken
<1>5. Gives(s, n)
  BY <1>1, <1>3, AnswerGives DEF Rotate, ServerTypeOK
<1>6. TypeOK'
  BY <1>3, <1>4, <1>5, <1>a DEF TypeOK, ServerTypeOK, Gives, OptionalToken, Issued
<1>7. TableInv'
  <2>1. RotationChain /\ \A u \in Tokens : ~row[u].issued => row[u] = Issued(FALSE) /\ parent[u] = None
    BY DEF SignInInv, TableInv
  <2>2. ASSUME NEW u \in Tokens, row'[u].replaced_by # None
        PROVE  row'[u].revoked /\ parent'[row'[u].replaced_by] = u
    <3>1. CASE u = n
      BY <1>4, <2>2, <3>1 DEF Issued
    <3>2. CASE u = t
      BY <1>4, <3>2
    <3>3. CASE u \notin {n, t}
      <4>1. row'[u] = row[u] /\ row[u].replaced_by \in Tokens /\ row[u].replaced_by # n
        BY <1>2, <1>3, <1>4, <2>2, <3>3 DEF ServerTypeOK, Row, OptionalToken
      <4>. QED
        BY <1>4, <2>1, <2>2, <4>1 DEF RotationChain
    <3>. QED
      BY <3>1, <3>2, <3>3
  <2>3. ASSUME NEW u \in Tokens, NEW w \in Tokens, parent'[w] = u
        PROVE  row'[u].revoked /\ row'[u].replaced_by # None /\ row'[w].issued
    <3>1. CASE w = n
      BY <1>4, <2>3, <3>1 DEF Issued
    <3>2. CASE w # n
      <4>1. /\ parent[w] = u /\ u # n /\ row[u].revoked
            /\ row[u].replaced_by # None /\ row[w].issued
        BY <1>2, <1>4, <2>1, <2>3, <3>2 DEF RotationChain
      <4>2. row'[w].issued
        BY <1>4, <3>2, <4>1
      <4>3. row'[u].revoked /\ row'[u].replaced_by # None
        BY <1>4, <4>1
      <4>. QED
        BY <4>2, <4>3
    <3>. QED
      BY <3>1, <3>2
  <2>4. RotationChain'
    BY <2>2, <2>3 DEF RotationChain
  <2>. QED
    BY <1>4, <2>1, <2>4 DEF TableInv, Issued
<1>8. JobInv'
  <2>1. SUFFICES ASSUME NEW r \in Senders PROVE (JobShape(r) /\ JobAwaited(r) /\ AnswerIsNew(r))'
    BY DEF JobInv
  <2>2. /\ JobShape(r) /\ JobAwaited(r) /\ AnswerIsNew(r)
    BY DEF SignInInv, JobInv
  <2>3. JobShape(r)'
    BY <1>2, <1>3, <1>4, <1>5, <1>a, <2>2 DEF JobShape, Gives, NoJob, Issued
  <2>4. JobAwaited(r)'
    BY <1>3, <1>4, <1>5, <2>2 DEF JobAwaited, Gives, NoJob
  <2>5. AnswerIsNew(r)'
    <3>1. CASE r = s
      BY <1>2, <1>3, <1>4, <1>5, <1>a, <2>2, <3>1 DEF AnswerIsNew, JobShape, Gives, NoJob, Issued
    <3>2. CASE r # s /\ job[r].stage = "issued"
      <4>1. /\ job'[r] = job[r] /\ job[r].answer \in Tokens
            /\ job[r].answer # n /\ job[r].answer # t
            /\ job[s].answer = None
        BY <1>2, <1>3, <1>5, <1>a, <2>2, <3>2 DEF AnswerIsNew, Gives, JobShape
      <4>2. \A q \in Senders : /\ job'[q].token # job[r].answer
                               /\ q # r => job'[q].answer # job[r].answer
        BY <1>2, <1>3, <1>5, <1>a, <2>2, <3>2, <4>1 DEF AnswerIsNew, Gives, NoJob
      <4>3. job[r].kind = "refresh" => row'[job[r].token].revoked
        BY <1>2, <1>4, <1>a, <2>2, <3>2 DEF AnswerIsNew, JobShape
      <4>. QED
        BY <1>4, <2>2, <3>2, <4>1, <4>2, <4>3 DEF AnswerIsNew
    <3>3. CASE r # s /\ job[r].stage # "issued"
      BY <1>5, <3>3 DEF AnswerIsNew, Gives
    <3>. QED
      BY <3>1, <3>2, <3>3
  <2>. QED
    BY <2>3, <2>4, <2>5
<1>9. ReplacedInv'
  BY <1>2, <1>4, <1>a DEF SignInInv, ReplacedInv, TypeOK
<1>10. StoreInv'
  <2>1. \A r \in Senders : stored' # None /\ ~job'[r].awaited /\ job'[r].token = stored' => missed'
    BY <1>3, <1>4, <1>5 DEF SignInInv, StoreInv, Gives, NoJob
  <2>2. CASE stored = t /\ job[s].awaited
    <3>1. UsedUp(s)'
      BY <1>3, <1>4, <1>5, <1>a, <2>2 DEF UsedUp, Gives
    <3>. QED
      BY <2>1, <3>1 DEF StoreInv
  <2>3. CASE stored = t /\ ~job[s].awaited
    <3>1. missed
      BY <1>a, <2>3 DEF SignInInv, StoreInv
    <3>. QED
      BY <1>4, <2>1, <3>1 DEF StoreInv
  <2>4. CASE stored # t
    <3>1. stored # None /\ row'[stored].revoked => row[stored].revoked
      BY <1>2, <1>3, <1>4, <2>4 DEF TypeOK, OptionalToken
    <3>2. \A r \in Senders : UsedUp(r) => UsedUp(r)'
      BY <1>3, <1>4, <1>5, <1>a, <2>4 DEF UsedUp, Gives
    <3>. QED
      BY <1>4, <2>1, <3>1, <3>2 DEF SignInInv, StoreInv
  <2>. QED
    BY <2>2, <2>3, <2>4
<1>11. PromiseInv' /\ OneRefreshPerPage'
  BY <1>4 DEF SignInInv, PromiseInv, OneRefreshPerPage
<1>12. NeverReplays'
  BY <1>2, <1>3, <1>4, <1>5, PagesAssumption DEF SignInInv, NeverReplays, Gives, NoJob, TypeOK
<1>. QED
  BY <1>6, <1>7, <1>8, <1>9, <1>10, <1>11, <1>12 DEF SignInInv

LEMMA LogoutInv ==
  ASSUME SignInInv, NEW s \in Senders, Logout(s), UNCHANGED pageVars
  PROVE  SignInInv'
<1>. USE TokensAssumption
<1>1. /\ TypeOK /\ ServerTypeOK /\ JobShape(s) /\ JobAwaited(s)
      /\ job[s].kind = "logout" /\ job[s].stage = "sent"
  BY DEF SignInInv, JobInv, TypeOK, Logout, At
<1>2. PICK t \in Tokens : t = job[s].token /\ row[t].issued
  BY <1>1 DEF JobShape
<1>3. /\ UNCHANGED <<parent, isAuthenticated, stored, pc, refreshPromise, missed, replaced>>
      /\ row' \in [Tokens -> Row]
      /\ row'[t].issued /\ row'[t].revoked /\ row'[t].replaced_by = row[t].replaced_by
      /\ \A u \in Tokens : u # t => row'[u] = row[u]
  BY <1>1, <1>2 DEF Logout, pageVars, ServerTypeOK, Row
<1>4. /\ job' \in [Senders -> Job]
      /\ \A r \in Senders : r # s => job'[r] = job[r]
      /\ ~job[s].awaited => job'[s] = NoJob
      /\ job[s].awaited =>
           /\ job'[s].stage = "done" /\ job'[s].answer = None
           /\ job'[s].kind = "logout" /\ job'[s].token = t /\ job'[s].awaited
  <2>1. NoJob \in Job /\ job \in [Senders -> Job]
    BY <1>1 DEF Job, NoJob, OptionalToken, ServerTypeOK
  <2>2. Answer(s, "done", None)
    BY DEF Logout
  <2>. QED
    BY <1>1, <1>2, <2>1, <2>2 DEF Answer, Job, OptionalToken
<1>5. TypeOK'
  BY <1>1, <1>3, <1>4, <1>2 DEF TypeOK, ServerTypeOK, OptionalToken
<1>6. TableInv'
  <2>1. /\ RotationChain
        /\ \A u \in Tokens : ~row[u].issued => row[u] = Issued(FALSE) /\ parent[u] = None
    BY DEF SignInInv, TableInv
  <2>2. \A u \in Tokens : /\ row'[u].replaced_by = row[u].replaced_by
                          /\ row'[u].issued = row[u].issued
                          /\ row[u].revoked => row'[u].revoked
    BY <1>1, <1>2, <1>3 DEF ServerTypeOK, Row
  <2>3. RotationChain'
    BY <1>3, <2>1, <2>2 DEF RotationChain
  <2>. QED
    BY <1>2, <1>3, <2>1, <2>3 DEF TableInv
<1>7. JobInv'
  <2>1. SUFFICES ASSUME NEW r \in Senders PROVE (JobShape(r) /\ JobAwaited(r) /\ AnswerIsNew(r))'
    BY DEF JobInv
  <2>2. /\ JobShape(r) /\ JobAwaited(r) /\ AnswerIsNew(r)
    BY DEF SignInInv, JobInv
  <2>3. JobShape(r)'
    BY <1>1, <1>2, <1>3, <1>4, <2>2 DEF JobShape, NoJob
  <2>4. JobAwaited(r)'
    BY <1>1, <1>3, <1>4, <2>2 DEF JobAwaited, NoJob
  <2>5. AnswerIsNew(r)'
    <3>1. CASE job'[r].stage = "issued"
      <4>1. /\ r # s /\ job'[r] = job[r] /\ job[r].stage = "issued"
            /\ job[r].answer \in Tokens /\ job[r].answer # t /\ job[s].answer = None
        BY <1>1, <1>2, <1>4, <2>2, <3>1 DEF AnswerIsNew, JobShape, NoJob
      <4>2. \A q \in Senders : /\ job'[q].token # job[r].answer
                               /\ q # r => job'[q].answer # job[r].answer
        BY <1>1, <1>4, <2>2, <4>1 DEF AnswerIsNew, NoJob
      <4>3. job[r].kind = "refresh" => row'[job[r].token].revoked
        BY <1>3, <2>2, <4>1 DEF AnswerIsNew, JobShape
      <4>. QED
        BY <1>3, <2>2, <4>1, <4>2, <4>3 DEF AnswerIsNew
    <3>. QED
      BY <3>1 DEF AnswerIsNew
  <2>. QED
    BY <2>3, <2>4, <2>5
<1>8. ReplacedInv'
  BY <1>1, <1>3 DEF SignInInv, ReplacedInv, TypeOK
<1>9. StoreInv'
  <2>1. \A r \in Senders : stored' # None /\ ~job'[r].awaited /\ job'[r].token = stored' => missed'
    BY <1>1, <1>3, <1>4 DEF SignInInv, StoreInv, NoJob
  <2>2. CASE stored = t /\ job[s].awaited
    <3>1. UsedUp(s)'
      BY <1>3, <1>4, <2>2 DEF UsedUp
    <3>. QED
      BY <2>1, <3>1 DEF StoreInv
  <2>3. CASE stored = t /\ ~job[s].awaited
    <3>1. missed
      BY <1>2, <2>3 DEF SignInInv, StoreInv
    <3>. QED
      BY <1>3, <2>1, <3>1 DEF StoreInv
  <2>4. CASE stored # t
    <3>1. stored # None /\ row'[stored].revoked => row[stored].revoked
      BY <1>1, <1>3, <2>4 DEF TypeOK, OptionalToken
    <3>2. \A r \in Senders : UsedUp(r) => UsedUp(r)'
      BY <1>1, <1>2, <1>3, <1>4, <2>4 DEF UsedUp
    <3>. QED
      BY <1>3, <2>1, <3>1, <3>2 DEF SignInInv, StoreInv
  <2>. QED
    BY <2>2, <2>3, <2>4
<1>10. PromiseInv' /\ OneRefreshPerPage'
  BY <1>3 DEF SignInInv, PromiseInv, OneRefreshPerPage
<1>11. NeverReplays'
  <2>1. SUFFICES ASSUME NEW c \in Callers, pc[c] = "refreshing"
                 PROVE  job'[c].token \notin replaced[pageOf[c]]
    BY <1>3 DEF NeverReplays
  <2>2. job[c].token \notin replaced[pageOf[c]] /\ c \in Senders
    BY <2>1, PagesAssumption DEF SignInInv, NeverReplays
  <2>3. job'[c].token = job[c].token \/ job'[c] = NoJob
    BY <1>2, <1>4, <2>2
  <2>4. replaced[pageOf[c]] \subseteq Tokens
    BY <1>1, <2>2, PagesAssumption DEF TypeOK
  <2>. QED
    BY <2>2, <2>3, <2>4 DEF NoJob
<1>. QED
  BY <1>5, <1>6, <1>7, <1>8, <1>9, <1>10, <1>11 DEF SignInInv

-------------------------------------------------------------------------------
(* The pages.  What TakeAnswer, Abandon and Send make of the jobs.         *)
Freed(s) ==
  \/ job'[s] = NoJob
  \/ /\ job[s].stage \in {"sent", "loaded"}
     /\ job'[s].stage = job[s].stage /\ job'[s].answer = job[s].answer
     /\ job'[s].kind = job[s].kind /\ job'[s].token = job[s].token /\ ~job'[s].awaited
Frees(S) ==
  /\ job' \in [Senders -> Job]
  /\ \A s \in S : Freed(s)
  /\ \A s \in Senders : s \notin S => job'[s] = job[s]
Sends(s, kind, t) ==
  /\ job' \in [Senders -> Job]
  /\ \A r \in Senders : r # s => job'[r] = job[r]
  /\ job'[s] = Request(kind, t)

LEMMA AnswerFrees ==
  ASSUME job \in [Senders -> Job], NEW s \in Senders, TakeAnswer(s)
  PROVE  Frees({s}) /\ job'[s] = NoJob
<1>1. NoJob \in Job
  BY DEF Job, NoJob, OptionalToken
<1>. QED
  BY <1>1 DEF TakeAnswer, Frees, Freed

LEMMA AbandonFrees ==
  ASSUME job \in [Senders -> Job], NEW S \in SUBSET Senders, Abandon(S)
  PROVE  Frees(S)
<1>1. NoJob \in Job
  BY DEF Job, NoJob, OptionalToken
<1>2. ASSUME NEW s \in S, job[s].stage \in {"sent", "loaded"}
      PROVE  job'[s] = [job[s] EXCEPT !.awaited = FALSE]
  BY <1>2 DEF Abandon
<1>3. ASSUME NEW s \in S, job[s].stage \notin {"sent", "loaded"}
      PROVE  job'[s] = NoJob
  BY <1>3 DEF Abandon
<1>4. ASSUME NEW s \in Senders, s \notin S
      PROVE  job'[s] = job[s]
  BY <1>4 DEF Abandon
<1>5. ASSUME NEW s \in S
      PROVE  Freed(s) /\ job'[s] \in Job
  <2>0. job[s] \in Job
    OBVIOUS
  <2>1. CASE job[s].stage \in {"sent", "loaded"}
    BY <1>2, <2>0, <2>1 DEF Freed, Job
  <2>2. CASE job[s].stage \notin {"sent", "loaded"}
    BY <1>1, <1>3, <2>2 DEF Freed
  <2>. QED
    BY <2>1, <2>2
<1>6. job' = [s \in Senders |-> job'[s]]
  BY DEF Abandon
<1>7. \A s \in Senders : job'[s] \in Job
  BY <1>4, <1>5
<1>. QED
  BY <1>4, <1>5, <1>6, <1>7 DEF Frees

LEMMA RequestSends ==
  ASSUME job \in [Senders -> Job], NEW s \in Senders, NEW t \in OptionalToken,
         NEW kind \in {"refresh", "login", "logout"}, Send(s, kind, t)
  PROVE  Sends(s, kind, t)
<1>1. Request(kind, t) \in Job
  BY DEF Job, Request, OptionalToken
<1>. QED
  BY <1>1 DEF Send, Sends
LEMMA ReloadInv ==
  ASSUME SignInInv, NEW p \in Pages, Reload(p)
  PROVE  SignInInv'
<1>. USE TokensAssumption
<1>1. PICK S \in SUBSET Senders : S = {s \in Senders : pageOf[s] = p}
  OBVIOUS
<1>2. TypeOK /\ ServerTypeOK /\ pc \in [Senders -> Place] /\ job \in [Senders -> Job]
  BY DEF SignInInv, TypeOK, ServerTypeOK, Place
<1>3. /\ UNCHANGED <<row, parent, stored, replaced>>
      /\ isAuthenticated' \in [Pages -> BOOLEAN]
      /\ refreshPromise' = [refreshPromise EXCEPT ![p] = None]
      /\ missed' = (missed \/ \E s \in S : stored # None /\ job[s].token = stored)
  BY <1>1, <1>2 DEF Reload, TypeOK, tableVars
<1>4. /\ pc' \in [Senders -> Place]
      /\ \A s \in S : pc'[s] = "idle"
      /\ \A s \in Senders : s \notin S => pc'[s] = pc[s]
  <2>1. Goto(S, "idle")
    BY <1>1 DEF Reload
  <2>2. "idle" \in Place
    BY DEF Place
  <2>. QED
    BY <1>2, <2>1, <2>2, GotoPlaces
<1>5. Frees(S)
  <2>1. Abandon(S)
    BY <1>1 DEF Reload
  <2>. QED
    BY <1>2, <2>1, AbandonFrees
<1>6. TypeOK'
  BY <1>2, <1>3, <1>4, <1>5 DEF TypeOK, ServerTypeOK, Frees, Place, OptionalToken
<1>7. TableInv'
  BY <1>3 DEF SignInInv, TableInv, RotationChain
<1>8. JobInv'
  <2>1. SUFFICES ASSUME NEW r \in Senders PROVE (JobShape(r) /\ JobAwaited(r) /\ AnswerIsNew(r))'
    BY DEF JobInv
  <2>2. JobShape(r) /\ JobAwaited(r) /\ AnswerIsNew(r)
    BY DEF SignInInv, JobInv
  <2>3. JobShape(r)'
    BY <1>3, <1>5, <2>2 DEF JobShape, Frees, Freed, NoJob
  <2>4. JobAwaited(r)'
    BY <1>4, <1>5, <2>2 DEF JobAwaited, Frees, Freed, NoJob
  <2>5. AnswerIsNew(r)'
    BY <1>3, <1>5, <2>2 DEF AnswerIsNew, Frees, Freed, NoJob
  <2>. QED
    BY <2>3, <2>4, <2>5
<1>9. ReplacedInv'
  BY <1>3 DEF SignInInv, ReplacedInv
<1>10. StoreInv'
  <2>1. ASSUME NEW r \in Senders, stored # None, ~job'[r].awaited, job'[r].token = stored
        PROVE  missed'
    <3>1. CASE r \in S
      <4>1. Freed(r)
        BY <1>5, <3>1 DEF Frees
      <4>2. job[r].token = stored
        BY <2>1, <4>1 DEF Freed, NoJob
      <4>. QED
        BY <1>3, <2>1, <3>1, <4>2
    <3>2. CASE r \notin S
      BY <1>3, <1>5, <2>1, <3>2 DEF SignInInv, StoreInv, Frees
    <3>. QED
      BY <3>1, <3>2
  <2>2. ASSUME stored # None, row[stored].revoked, ~missed'
        PROVE  \E r \in Senders : UsedUp(r)'
    <3>1. PICK r \in Senders : UsedUp(r)
      BY <1>3, <2>2 DEF SignInInv, StoreInv
    <3>2. r \notin S
      BY <1>3, <2>2, <3>1 DEF UsedUp
    <3>. QED
      BY <1>3, <1>5, <3>1, <3>2 DEF UsedUp, Frees
  <2>. QED
    BY <1>3, <2>1, <2>2 DEF StoreInv
<1>11. PromiseInv'
  BY <1>1, <1>2, <1>3, <1>4, PagesAssumption DEF SignInInv, PromiseInv, TypeOK
<1>12. OneRefreshPerPage'
  BY <1>1, <1>2, <1>3, <1>4, PagesAssumption DEF SignInInv, OneRefreshPerPage, TypeOK
<1>13. NeverReplays'
  BY <1>3, <1>4, <1>5, PagesAssumption DEF SignInInv, NeverReplays, Frees
<1>. QED
  BY <1>6, <1>7, <1>8, <1>9, <1>10, <1>11, <1>12, <1>13 DEF SignInInv

LEMMA BeginRefreshInv ==
  ASSUME SignInInv, NEW c \in Callers, BeginRefresh(c)
  PROVE  SignInInv'
<1>. USE TokensAssumption, PagesAssumption
<1>1. /\ TypeOK /\ ServerTypeOK /\ pc \in [Senders -> Place] /\ job \in [Senders -> Job]
      /\ c \in Senders /\ pageOf[c] \in Pages
  BY DEF SignInInv, TypeOK, ServerTypeOK, Place
<1>2. /\ UNCHANGED <<row, parent, isAuthenticated, stored, missed, replaced>>
      /\ stored \in Tokens /\ row[stored].issued
      /\ pc[c] = "calling" /\ refreshPromise[pageOf[c]] = None
      /\ refreshPromise' = [refreshPromise EXCEPT ![pageOf[c]] = c]
  BY <1>1 DEF BeginRefresh, TypeOK, OptionalToken, tableVars
<1>3. /\ pc' \in [Senders -> Place] /\ pc'[c] = "refreshing"
      /\ \A s \in Senders : s # c => pc'[s] = pc[s]
  <2>1. Goto({c}, "refreshing") /\ "refreshing" \in Place
    BY DEF BeginRefresh, Place
  <2>. QED
    BY <1>1, <2>1, GotoPlaces
<1>4. Sends(c, "refresh", stored)
  BY <1>1, <1>2, RequestSends DEF BeginRefresh, OptionalToken
<1>5. TypeOK'
  BY <1>1, <1>2, <1>3, <1>4 DEF TypeOK, ServerTypeOK, Sends, Place
<1>6. TableInv'
  BY <1>2 DEF SignInInv, TableInv, RotationChain
<1>7. JobInv'
  <2>1. SUFFICES ASSUME NEW r \in Senders PROVE (JobShape(r) /\ JobAwaited(r) /\ AnswerIsNew(r))'
    BY DEF JobInv
  <2>2. JobShape(r) /\ JobAwaited(r) /\ AnswerIsNew(r)
    BY DEF SignInInv, JobInv
  <2>3. JobShape(r)'
    <3>1. CASE r = c
      BY <1>2, <1>4, <3>1 DEF JobShape, Sends, Request
    <3>2. CASE r # c
      BY <1>2, <1>4, <2>2, <3>2 DEF JobShape, Sends
    <3>. QED
      BY <3>1, <3>2
  <2>4. JobAwaited(r)'
    BY <1>3, <1>4, <2>2 DEF JobAwaited, Sends, Request, NoJob
  <2>5. AnswerIsNew(r)'
    BY <1>2, <1>4, <2>2 DEF AnswerIsNew, Sends, Request
  <2>. QED
    BY <2>3, <2>4, <2>5
<1>8. ReplacedInv'
  BY <1>2 DEF SignInInv, ReplacedInv
<1>9. StoreInv'
  <2>1. \A r \in Senders : UsedUp(r) => UsedUp(r)'
    <3>1. JobAwaited(c)
      BY <1>1 DEF SignInInv, JobInv
    <3>2. ~UsedUp(c)
      BY <1>2, <3>1 DEF UsedUp, JobAwaited
    <3>. QED
      BY <1>2, <1>4, <3>2 DEF UsedUp, Sends
  <2>. QED
    BY <1>2, <1>4, <2>1 DEF SignInInv, StoreInv, Sends, Request
<1>10. PromiseInv'
  BY <1>1, <1>2, <1>3 DEF SignInInv, PromiseInv, TypeOK
<1>11. OneRefreshPerPage'
  BY <1>1, <1>2, <1>3 DEF SignInInv, OneRefreshPerPage, TypeOK
<1>12. NeverReplays'
  BY <1>1, <1>2, <1>3, <1>4 DEF SignInInv, NeverReplays, ReplacedInv, Sends, Request
<1>. QED
  BY <1>5, <1>6, <1>7, <1>8, <1>9, <1>10, <1>11, <1>12 DEF SignInInv
(* The new pair is put into the store, in the place of the token it was    *)
(* asked for with, if any.                                                 *)
LEMMA RefreshedInv ==
  ASSUME SignInInv, NEW c \in Callers, Refreshed(c)
  PROVE  SignInInv'
<1>. USE TokensAssumption, PagesAssumption
<1>1. /\ TypeOK /\ ServerTypeOK /\ pc \in [Senders -> Place] /\ job \in [Senders -> Job]
      /\ c \in Senders /\ JobShape(c) /\ JobAwaited(c) /\ AnswerIsNew(c)
  BY DEF SignInInv, JobInv, TypeOK, ServerTypeOK, Place
<1>2. PICK p \in Pages : p = pageOf[c]
  BY <1>1
<1>3. PICK R \in SUBSET Callers : R = Refreshing(p)
  BY DEF Refreshing
<1>4. pc[c] = "refreshing" /\ job[c].stage = "issued"
  BY DEF Refreshed
<1>5. PICK n \in Tokens :
        /\ n = job[c].answer /\ row[n].issued /\ ~row[n].revoked
        /\ \A r \in Senders : /\ job[r].token # n
                              /\ r # c => job[r].answer # n
  BY <1>1, <1>4 DEF AnswerIsNew
<1>6. PICK t \in Tokens : t = job[c].token /\ row[t].issued /\ row[t].revoked
  BY <1>1, <1>4 DEF JobShape, JobAwaited, AnswerIsNew, NoJob
<1>7. /\ UNCHANGED <<row, parent, isAuthenticated>> /\ stored' = n /\ missed' = FALSE
      /\ refreshPromise' = [refreshPromise EXCEPT ![p] = None]
      /\ replaced' = [replaced EXCEPT ![p] = @ \cup {t}]
  BY <1>2, <1>5, <1>6 DEF Refreshed, setTokens, tableVars
<1>8. /\ pc' \in [Senders -> Place]
      /\ \A s \in R : pc'[s] = "idle"
      /\ \A s \in Senders : s \notin R => pc'[s] = pc[s]
  <2>1. Goto(R, "idle") /\ "idle" \in Place
    BY <1>2, <1>3 DEF Refreshed, Place
  <2>. QED
    BY <1>1, <2>1, GotoPlaces
<1>9. Frees({c}) /\ job'[c] = NoJob
  BY <1>1, AnswerFrees DEF Refreshed
<1>10. /\ c \in R
       /\ \A r \in Callers : r \in R <=> pageOf[r] = p /\ pc[r] \in {"refreshing", "waiting"}
  BY <1>2, <1>3, <1>4 DEF Refreshing
<1>11. \A r \in R : r = c \/ pc[r] = "waiting"
  BY <1>4, <1>2, <1>10 DEF SignInInv, OneRefreshPerPage
<1>12. TypeOK'
  BY <1>1, <1>5, <1>6, <1>7, <1>8, <1>9 DEF TypeOK, ServerTypeOK, Frees, Place, OptionalToken
<1>13. TableInv'
  BY <1>7 DEF SignInInv, TableInv, RotationChain
<1>14. JobInv'
  <2>1. SUFFICES ASSUME NEW r \in Senders PROVE (JobShape(r) /\ JobAwaited(r) /\ AnswerIsNew(r))'
    BY DEF JobInv
  <2>2. CASE r = c
    <3>1. pc'[r] = "idle" /\ job'[r] = NoJob
      BY <1>8, <1>9, <1>10, <2>2
    <3>. QED
      BY <3>1 DEF JobShape, JobAwaited, AnswerIsNew, NoJob
  <2>3. CASE r # c
    <3>1. JobShape(r) /\ JobAwaited(r) /\ AnswerIsNew(r) /\ job'[r] = job[r]
      BY <1>9, <2>3 DEF SignInInv, JobInv, Frees
    <3>2. JobShape(r)'
      BY <1>7, <3>1 DEF JobShape
    <3>3. JobAwaited(r)'
      BY <1>8, <1>11, <2>3, <3>1 DEF JobAwaited
    <3>4. AnswerIsNew(r)'
      BY <1>5, <1>7, <1>9, <2>3, <3>1 DEF AnswerIsNew, Frees, NoJob
    <3>. QED
      BY <3>2, <3>3, <3>4
  <2>. QED
    BY <2>2, <2>3
<1>15. ReplacedInv'
  <2>1. SUFFICES ASSUME NEW q \in Pages, NEW u \in replaced'[q]
                 PROVE  row[u].issued /\ row[u].revoked /\ u # n
    BY <1>7 DEF ReplacedInv
  <2>2. u = t \/ u \in replaced[q]
    BY <1>1, <1>7, <2>1 DEF TypeOK
  <2>. QED
    BY <1>5, <1>6, <2>2 DEF SignInInv, ReplacedInv
<1>16. StoreInv'
  BY <1>5, <1>7, <1>9 DEF StoreInv, Frees, NoJob
<1>17. PromiseInv'
  BY <1>1, <1>2, <1>7, <1>8, <1>10 DEF SignInInv, PromiseInv, TypeOK
<1>18. OneRefreshPerPage'
  BY <1>1, <1>2, <1>7, <1>8, <1>10 DEF SignInInv, OneRefreshPerPage, TypeOK
<1>19. NeverReplays'
  BY <1>1, <1>2, <1>7, <1>8, <1>9, <1>10 DEF SignInInv, NeverReplays, Frees, TypeOK
<1>. QED
  BY <1>12, <1>13, <1>14, <1>15, <1>16, <1>17, <1>18, <1>19 DEF SignInInv

LEMMA RefreshFailsInv ==
  ASSUME SignInInv, NEW c \in Callers, RefreshFails(c)
  PROVE  SignInInv'
<1>. USE TokensAssumption, PagesAssumption
<1>1. /\ TypeOK /\ ServerTypeOK /\ pc \in [Senders -> Place] /\ job \in [Senders -> Job]
      /\ c \in Senders /\ pc[c] = "refreshing"
  BY DEF SignInInv, TypeOK, ServerTypeOK, Place, RefreshFails
<1>2. PICK p \in Pages : p = pageOf[c]
  BY <1>1
<1>3. PICK R \in SUBSET Callers : R = Refreshing(p)
  BY DEF Refreshing
<1>4. /\ UNCHANGED <<row, parent, replaced>> /\ stored' = None /\ missed' = FALSE
      /\ isAuthenticated' \in [Pages -> BOOLEAN]
      /\ refreshPromise' = [refreshPromise EXCEPT ![p] = None]
  BY <1>1, <1>2 DEF RefreshFails, ForceLogout, clearTokens, tableVars, TypeOK
<1>5. /\ pc' \in [Senders -> Place]
      /\ \A s \in R : pc'[s] = "idle"
      /\ \A s \in Senders : s \notin R => pc'[s] = pc[s]
  <2>1. Goto(R, "idle") /\ "idle" \in Place
    BY <1>2, <1>3 DEF RefreshFails, ForceLogout, Place
  <2>. QED
    BY <1>1, <2>1, GotoPlaces
<1>6. Frees({c})
  <2>1. TakeAnswer(c) \/ Abandon({c})
    BY DEF RefreshFails
  <2>. QED
    BY <1>1, <2>1, AnswerFrees, AbandonFrees
<1>7. /\ c \in R
      /\ \A r \in Callers : r \in R <=> pageOf[r] = p /\ pc[r] \in {"refreshing", "waiting"}
  BY <1>1, <1>2, <1>3 DEF Refreshing
<1>8. \A r \in R : r = c \/ pc[r] = "waiting"
  BY <1>1, <1>2, <1>7 DEF SignInInv, OneRefreshPerPage
<1>9. TypeOK'
  BY <1>1, <1>4, <1>5, <1>6 DEF TypeOK, ServerTypeOK, Frees, Place, OptionalToken
<1>10. TableInv'
  BY <1>4 DEF SignInInv, TableInv, RotationChain
<1>11. JobInv'
  <2>1. SUFFICES ASSUME NEW r \in Senders PROVE (JobShape(r) /\ JobAwaited(r) /\ AnswerIsNew(r))'
    BY DEF JobInv
  <2>2. JobShape(r) /\ JobAwaited(r) /\ AnswerIsNew(r)
    BY DEF SignInInv, JobInv
  <2>3. JobShape(r)'
    BY <1>4, <1>6, <2>2 DEF JobShape, Frees, Freed, NoJob
  <2>4. JobAwaited(r)'
    BY <1>5, <1>6, <1>8, <1>7, <2>2 DEF JobAwaited, Frees, Freed, NoJob
  <2>5. AnswerIsNew(r)'
    BY <1>4, <1>6, <2>2 DEF AnswerIsNew, Frees, Freed, NoJob
  <2>. QED
    BY <2>3, <2>4, <2>5
<1>12. ReplacedInv' /\ StoreInv'
  BY <1>1, <1>4 DEF SignInInv, ReplacedInv, StoreInv, TypeOK
<1>13. PromiseInv'
  BY <1>1, <1>2, <1>4, <1>5, <1>7 DEF SignInInv, PromiseInv, TypeOK
<1>14. OneRefreshPerPage'
  BY <1>1, <1>2, <1>4, <1>5, <1>7 DEF SignInInv, OneRefreshPerPage, TypeOK
<1>15. NeverReplays'
  BY <1>1, <1>2, <1>4, <1>5, <1>6, <1>7 DEF SignInInv, NeverReplays, Frees, TypeOK
<1>. QED
  BY <1>9, <1>10, <1>11, <1>12, <1>13, <1>14, <1>15 DEF SignInInv
(* The login form.  What sending one of its requests changes, and what     *)
(* becomes of the others when a sender does no longer await its answer.    *)
LEMMA SendInv ==
  ASSUME SignInInv, NEW p \in Senders \ Callers, NEW kind \in {"login", "logout"},
         pc[p] = "idle", Goto({p}, kind), NEW t \in OptionalToken, Sends(p, kind, t),
         kind = "login" => t = None, kind = "logout" => t = stored /\ stored # None,
         UNCHANGED <<row, parent, isAuthenticated, stored, refreshPromise, missed, replaced>>
  PROVE  SignInInv'
<1>. USE TokensAssumption, PagesAssumption
<1>1. /\ TypeOK /\ ServerTypeOK /\ pc \in [Senders -> Place] /\ job \in [Senders -> Job]
  BY DEF SignInInv, TypeOK, ServerTypeOK, Place
<1>2. /\ pc' \in [Senders -> Place] /\ pc'[p] = kind
      /\ \A s \in Senders : s # p => pc'[s] = pc[s]
  <2>1. kind \in Place
    BY DEF Place
  <2>. QED
    BY <1>1, <2>1, GotoPlaces
<1>3. TypeOK'
  BY <1>1, <1>2 DEF TypeOK, ServerTypeOK, Sends, Place
<1>4. TableInv'
  BY DEF SignInInv, TableInv, RotationChain
<1>5. JobInv'
  <2>1. SUFFICES ASSUME NEW r \in Senders PROVE (JobShape(r) /\ JobAwaited(r) /\ AnswerIsNew(r))'
    BY DEF JobInv
  <2>2. CASE r = p
    <3>1. job'[r] = Request(kind, t) /\ pc'[r] = kind /\ r \notin Callers
      BY <1>2, <2>2 DEF Sends
    <3>2. kind = "logout" => t \in Tokens /\ row[t].issued
      BY <1>1 DEF TypeOK, OptionalToken
    <3>3. JobShape(r)'
      BY <3>1, <3>2 DEF JobShape, Request
    <3>4. JobAwaited(r)'
      BY <3>1 DEF JobAwaited, Request
    <3>5. AnswerIsNew(r)'
      BY <3>1 DEF AnswerIsNew, Request
    <3>. QED
      BY <3>3, <3>4, <3>5
  <2>3. CASE r # p
    <3>1. /\ JobShape(r) /\ JobAwaited(r) /\ AnswerIsNew(r)
          /\ job'[r] = job[r] /\ pc'[r] = pc[r]
      BY <1>2, <2>3 DEF SignInInv, JobInv, Sends
    <3>2. JobShape(r)' /\ JobAwaited(r)'
      BY <3>1 DEF JobShape, JobAwaited
    <3>3. AnswerIsNew(r)'
      BY <3>1 DEF AnswerIsNew, Sends, Request
    <3>. QED
      BY <3>2, <3>3
  <2>. QED
    BY <2>2, <2>3
<1>6. ReplacedInv'
  BY DEF SignInInv, ReplacedInv
<1>7. StoreInv'
  <2>1. \A r \in Senders : UsedUp(r) => UsedUp(r)'
    <3>1. JobAwaited(p)
      BY DEF SignInInv, JobInv
    <3>2. ~UsedUp(p)
      BY <3>1 DEF UsedUp, JobAwaited
    <3>. QED
      BY <3>2 DEF UsedUp, Sends
  <2>. QED
    BY <2>1 DEF SignInInv, StoreInv, Sends, Request
<1>8. PromiseInv'
  BY <1>1, <1>2 DEF SignInInv, PromiseInv, TypeOK
<1>9. OneRefreshPerPage'
  BY <1>1, <1>2 DEF SignInInv, OneRefreshPerPage, TypeOK
<1>10. NeverReplays'
  BY <1>1, <1>2 DEF SignInInv, NeverReplays, Sends
<1>. QED
  BY <1>3, <1>4, <1>5, <1>6, <1>7, <1>8, <1>9, <1>10 DEF SignInInv

(* What the end of such a request changes.                                 *)
FormEnds(p) ==
  /\ UNCHANGED <<row, parent, refreshPromise, replaced>>
  /\ isAuthenticated' \in [Pages -> BOOLEAN]
  /\ pc[p] \in {"login", "logout"} /\ Goto({p}, "idle") /\ Frees({p})

LEMMA FormEndsInv ==
  ASSUME SignInInv, NEW p \in Senders \ Callers, FormEnds(p), stored' \in OptionalToken,
         missed' \in BOOLEAN, stored' # None => row[stored'].issued,
         \A r \in Senders : job'[r].stage = "issued" => job'[r].answer # stored',
         ReplacedInv', StoreInv'
  PROVE  SignInInv'
<1>. USE TokensAssumption, PagesAssumption
<1>1. /\ TypeOK /\ ServerTypeOK /\ pc \in [Senders -> Place] /\ job \in [Senders -> Job]
  BY DEF SignInInv, TypeOK, ServerTypeOK, Place
<1>2. /\ pc' \in [Senders -> Place] /\ pc'[p] = "idle"
      /\ \A s \in Senders : s # p => pc'[s] = pc[s]
  <2>1. "idle" \in Place /\ Goto({p}, "idle")
    BY DEF Place, FormEnds
  <2>. QED
    BY <1>1, <2>1, GotoPlaces
<1>3. TypeOK'
  BY <1>1, <1>2 DEF TypeOK, ServerTypeOK, FormEnds, Frees, Place
<1>4. TableInv'
  BY DEF SignInInv, TableInv, RotationChain, FormEnds
<1>5. JobInv'
  <2>1. SUFFICES ASSUME NEW r \in Senders PROVE (JobShape(r) /\ JobAwaited(r) /\ AnswerIsNew(r))'
    BY DEF JobInv
  <2>2. JobShape(r) /\ JobAwaited(r) /\ AnswerIsNew(r)
    BY DEF SignInInv, JobInv
  <2>3. JobShape(r)'
    BY <2>2 DEF JobShape, FormEnds, Frees, Freed, NoJob
  <2>4. JobAwaited(r)'
    BY <1>2, <2>2 DEF JobAwaited, FormEnds, Frees, Freed, NoJob
  <2>5. AnswerIsNew(r)'
    BY <2>2 DEF AnswerIsNew, FormEnds, Frees, Freed, NoJob
  <2>. QED
    BY <2>3, <2>4, <2>5
<1>6. PromiseInv'
  BY <1>1, <1>2 DEF SignInInv, PromiseInv, TypeOK, FormEnds
<1>7. OneRefreshPerPage'
  BY <1>1, <1>2 DEF SignInInv, OneRefreshPerPage, TypeOK, FormEnds
<1>8. NeverReplays'
  BY <1>1, <1>2 DEF SignInInv, NeverReplays, FormEnds, Frees
<1>. QED
  BY <1>3, <1>4, <1>5, <1>6, <1>7, <1>8 DEF SignInInv
LEMMA BeginFormInv ==
  ASSUME SignInInv, NEW p \in Senders \ Callers, BeginLogin(p) \/ BeginLogout(p)
  PROVE  SignInInv'
<1>. USE TokensAssumption, PagesAssumption
<1>1. TypeOK /\ job \in [Senders -> Job]
  BY DEF SignInInv, TypeOK, ServerTypeOK
<1>2. CASE BeginLogin(p)
  <2>1. /\ pc[p] = "idle" /\ Goto({p}, "login") /\ Send(p, "login", None)
        /\ UNCHANGED <<row, parent, isAuthenticated, stored, refreshPromise, missed, replaced>>
    BY <1>2 DEF BeginLogin, tableVars
  <2>2. Sends(p, "login", None)
    BY <1>1, <2>1, RequestSends DEF OptionalToken
  <2>. QED
    BY <2>1, <2>2, SendInv DEF OptionalToken
<1>3. CASE BeginLogout(p) /\ stored # None
  <2>1. /\ pc[p] = "idle" /\ Goto({p}, "logout") /\ Send(p, "logout", stored)
        /\ UNCHANGED <<row, parent, isAuthenticated, stored, refreshPromise, missed, replaced>>
    BY <1>3 DEF BeginLogout, tableVars
  <2>2. PICK t \in OptionalToken : t = stored
    BY <1>1 DEF TypeOK
  <2>3. Sends(p, "logout", t)
    BY <1>1, <2>1, <2>2, RequestSends
  <2>. QED
    BY <1>3, <2>1, <2>2, <2>3, SendInv
<1>4. CASE BeginLogout(p) /\ stored = None
  <2>1. /\ UNCHANGED <<row, parent, job, stored, pc, refreshPromise, missed, replaced>>
        /\ isAuthenticated' \in [Pages -> BOOLEAN]
    BY <1>1, <1>4 DEF BeginLogout, tableVars, TypeOK
  <2>2. TypeOK'
    BY <1>1, <2>1 DEF TypeOK, ServerTypeOK
  <2>3. TableInv' /\ JobInv'
    BY <2>1
    DEF SignInInv, TableInv, RotationChain, JobInv, JobShape, JobAwaited, AnswerIsNew
  <2>4. ReplacedInv' /\ StoreInv' /\ PromiseInv' /\ OneRefreshPerPage' /\ NeverReplays'
    BY <2>1
    DEF SignInInv, ReplacedInv, StoreInv, UsedUp, PromiseInv, OneRefreshPerPage, NeverReplays
  <2>. QED
    BY <2>2, <2>3, <2>4 DEF SignInInv
<1>. QED
  BY <1>2, <1>3, <1>4

LEMMA LoggedInInv ==
  ASSUME SignInInv, NEW p \in Senders \ Callers, LoggedIn(p)
  PROVE  SignInInv'
<1>. USE TokensAssumption, PagesAssumption
<1>1. TypeOK /\ job \in [Senders -> Job] /\ JobShape(p) /\ AnswerIsNew(p)
  BY DEF SignInInv, JobInv, TypeOK, ServerTypeOK
<1>2. PICK n \in Tokens :
        /\ n = job[p].answer /\ row[n].issued /\ ~row[n].revoked
        /\ \A r \in Senders : /\ job[r].token # n
                              /\ r # p => job[r].answer # n
  BY <1>1 DEF LoggedIn, AnswerIsNew
<1>3. /\ UNCHANGED <<row, replaced>> /\ stored' = n /\ missed' = FALSE
  BY <1>2 DEF LoggedIn, setTokens, tableVars
<1>4. Frees({p}) /\ job'[p] = NoJob
  BY <1>1, AnswerFrees DEF LoggedIn
<1>5. FormEnds(p)
  BY <1>1, <1>4 DEF LoggedIn, FormEnds, tableVars, TypeOK
<1>6. \A r \in Senders : job'[r].stage = "issued" => job'[r].answer # n
  BY <1>2, <1>4 DEF Frees, NoJob
<1>7. ReplacedInv'
  BY <1>2, <1>3 DEF SignInInv, ReplacedInv
<1>8. StoreInv'
  BY <1>2, <1>3, <1>4 DEF StoreInv, Frees, NoJob
<1>. QED
  BY <1>2, <1>3, <1>5, <1>6, <1>7, <1>8, FormEndsInv DEF OptionalToken

LEMMA LoginFailsInv ==
  ASSUME SignInInv, NEW p \in Senders \ Callers, LoginFails(p)
  PROVE  SignInInv'
<1>. USE TokensAssumption, PagesAssumption
<1>1. /\ TypeOK /\ job \in [Senders -> Job]
      /\ pc[p] = "login" /\ JobShape(p) /\ JobAwaited(p)
  BY DEF SignInInv, JobInv, TypeOK, ServerTypeOK, LoginFails
<1>2. UNCHANGED <<row, replaced, stored, missed>>
  BY DEF LoginFails, tableVars
<1>3. Frees({p})
  BY <1>1, AbandonFrees DEF LoginFails
<1>4. FormEnds(p)
  BY <1>1, <1>3 DEF LoginFails, FormEnds, tableVars, TypeOK
<1>5. \A r \in Senders : job'[r].stage = "issued" => job'[r].answer # stored
  BY <1>3 DEF SignInInv, JobInv, AnswerIsNew, Frees, Freed, NoJob
<1>6. ReplacedInv'
  BY <1>2 DEF SignInInv, ReplacedInv
<1>7. StoreInv'
  <2>1. \A r \in Senders : stored # None /\ ~job'[r].awaited /\ job'[r].token = stored => missed
    <3>1. stored # None /\ job'[p].token = stored => ~job[p].awaited /\ job[p].token = stored
      BY <1>1, <1>3 DEF JobShape, JobAwaited, Frees, Freed, NoJob
    <3>. QED
      BY <1>3, <3>1 DEF SignInInv, StoreInv, Frees
  <2>2. \A r \in Senders : UsedUp(r) => UsedUp(r)'
    <3>1. ~UsedUp(p)
      BY <1>1 DEF UsedUp, JobShape, JobAwaited
    <3>. QED
      BY <1>2, <1>3, <3>1 DEF UsedUp, Frees
  <2>. QED
    BY <1>2, <2>1, <2>2 DEF SignInInv, StoreInv
<1>. QED
  BY <1>1, <1>2, <1>4, <1>5, <1>6, <1>7, FormEndsInv DEF TypeOK

LEMMA LoggedOutInv ==
  ASSUME SignInInv, NEW p \in Senders \ Callers, LoggedOut(p)
  PROVE  SignInInv'
<1>. USE TokensAssumption, PagesAssumption
<1>1. TypeOK /\ job \in [Senders -> Job]
  BY DEF SignInInv, TypeOK, ServerTypeOK
<1>2. UNCHANGED <<row, replaced>> /\ stored' = None /\ missed' = FALSE
  BY DEF LoggedOut, clearTokens, tableVars
<1>3. Frees({p})
  <2>1. TakeAnswer(p) \/ Abandon({p})
    BY DEF LoggedOut
  <2>. QED
    BY <1>1, <2>1, AnswerFrees, AbandonFrees
<1>4. FormEnds(p)
  BY <1>1, <1>3 DEF LoggedOut, FormEnds, tableVars, TypeOK
<1>5. \A r \in Senders : job'[r].stage = "issued" => job'[r].answer # None
  BY <1>3 DEF SignInInv, JobInv, AnswerIsNew, Frees, Freed, NoJob
<1>6. ReplacedInv' /\ StoreInv'
  BY <1>1, <1>2 DEF SignInInv, ReplacedInv, StoreInv, TypeOK
<1>. QED
  BY <1>2, <1>4, <1>5, <1>6, FormEndsInv DEF OptionalToken

-------------------------------------------------------------------------------
LEMMA SignInStep ==
  ASSUME SignInInv, [Next]_vars
  PROVE  SignInInv'
<1>1. ASSUME NEW s \in Senders, Serve(s), UNCHANGED pageVars
      PROVE  SignInInv'
  BY <1>1, LoadInv, LoginInv, RotateInv, LogoutInv DEF Serve
<1>2. ASSUME NEW p \in Pages, Reload(p)
      PROVE  SignInInv'
  BY <1>2, ReloadInv
<1>3. ASSUME NEW p \in Senders \ Callers, Form(p)
      PROVE  SignInInv'
  BY <1>3, BeginFormInv, LoggedInInv, LoginFailsInv, LoggedOutInv DEF Form
<1>4. ASSUME NEW c \in Callers, Caller(c)
      PROVE  SignInInv'
  BY <1>4, QuietInv, BeginRefreshInv, RefreshedInv, RefreshFailsInv DEF Caller
<1>5. CASE UNCHANGED vars
  <2>1. UNCHANGED <<row, parent, job, isAuthenticated, stored, pc, refreshPromise, missed, replaced>>
    BY <1>5 DEF vars, serverVars, tableVars, pageVars
  <2>2. TypeOK' /\ TableInv' /\ JobInv'
    BY <2>1 DEF SignInInv, TypeOK, ServerTypeOK, TableInv, RotationChain,
                JobInv, JobShape, JobAwaited, AnswerIsNew
  <2>3. ReplacedInv' /\ StoreInv' /\ PromiseInv' /\ OneRefreshPerPage' /\ NeverReplays'
    BY <2>1
    DEF SignInInv, ReplacedInv, StoreInv, UsedUp, PromiseInv, OneRefreshPerPage, NeverReplays
  <2>. QED
    BY <2>2, <2>3 DEF SignInInv
<1>. QED
  BY <1>1, <1>2, <1>3, <1>4, <1>5 DEF Next

(* The invariant that all of the following rest on.                        *)
THEOREM SignInInvariant == Spec => []SignInInv
BY SignInInit, SignInStep, PTL DEF Spec

(* Every variable has its type; the store holds issued tokens only.        *)
THEOREM SignInTypeCorrect == Spec => []TypeOK
<1>1. SignInInv => TypeOK
  BY DEF SignInInv
<1>. QED
  BY <1>1, SignInInvariant, PTL

(* However refreshes, logins and logouts overlap, and wherever they are    *)
(* cut off, the links of refresh_tokens form chains of exchanged tokens.   *)
THEOREM ChainIsKept == Spec => []RotationChain
<1>1. SignInInv => RotationChain
  BY DEF SignInInv, TableInv
<1>. QED
  BY <1>1, SignInInvariant, PTL

(* Any number of calls of a page that are answered 401 share one refresh,  *)
(* and a call that waits always waits for one that is under way.           *)
THEOREM OneRefresh == Spec => []OneRefreshPerPage
<1>1. SignInInv => OneRefreshPerPage
  BY DEF SignInInv
<1>. QED
  BY <1>1, SignInInvariant, PTL

(* The token in localStorage is usable, or somebody is about to replace    *)
(* it, or a reload has lost the answer that would have.                    *)
THEOREM StoreIsUsable == Spec => []StoredIsUsable
<1>1. SignInInv => StoredIsUsable
  <2>. SUFFICES ASSUME SignInInv, stored # None, row[stored].revoked, ~missed
                PROVE  \E s \in Senders : pc[s] \in {"refreshing", "logout"} /\ job[s].token = stored
    BY DEF StoredIsUsable
  <2>1. PICK s \in Senders : UsedUp(s)
    BY DEF SignInInv, StoreInv
  <2>2. JobShape(s) /\ JobAwaited(s)
    BY DEF SignInInv, JobInv
  <2>. QED
    BY <2>1, <2>2 DEF UsedUp, JobShape, JobAwaited
<1>. QED
  BY <1>1, SignInInvariant, PTL

(* No page brings a token for which it has already got another one.        *)
THEOREM NoReplay == Spec => []NeverReplays
<1>1. SignInInv => NeverReplays
  BY DEF SignInInv
<1>. QED
  BY <1>1, SignInInvariant, PTL
===============================================================================
