-------------------------------- MODULE SignIn --------------------------------
(***************************************************************************)
(* The pages of the player's browser, and the tokens they hold: each page  *)
(* keeps an access token in memory, all of them share the refresh token in *)
(* localStorage.  A page that is answered 401 refreshes once for all of    *)
(* its calls that wait; a refresh that does not succeed signs the browser  *)
(* out.  Anything may be lost on the way, and pages are closed or reloaded *)
(* at any time.                                                            *)
(*                                                                         *)
(* What access token a call is sent with decides whether it is answered    *)
(* 401; since it may have expired or be missing after a reload, any call   *)
(* may be, and the access tokens themselves are left out.                  *)
(*                                                                         *)
(* A caller is a call of apiRequest under way in a page; the page itself   *)
(* is the sender of its login and logout requests.                         *)
(***************************************************************************)
EXTENDS RefreshTokens

CONSTANTS Pages, Callers, pageOf

ASSUME PagesAssumption ==
  /\ Pages \cap Callers = {} /\ Callers \subseteq Senders /\ Senders \subseteq Pages \cup Callers
  /\ pageOf \in [Senders -> Pages]
  /\ \A p \in Senders \ Callers : pageOf[p] = p

VARIABLES
  isAuthenticated, \* per page, AuthContext
  stored,          \* the refresh token in localStorage
  pc,              \* what each sender is at
  refreshPromise,  \* per page, the caller whose refresh all of them await
  missed,          \* history: an answer about the stored token was missed
  replaced         \* history: the tokens each page has got another one for

pageVars == <<isAuthenticated, stored, pc, refreshPromise, missed, replaced>>
vars == <<serverVars, pageVars>>

TypeOK ==
  /\ ServerTypeOK
  /\ isAuthenticated \in [Pages -> BOOLEAN]
  /\ stored \in OptionalToken /\ (stored # None => row[stored].issued)
  /\ pc \in [Senders -> {"idle", "calling", "refreshing", "waiting",
                         "login", "logout"}]
  /\ refreshPromise \in [Pages -> Callers \cup {None}]
  /\ missed \in BOOLEAN /\ replaced \in [Pages -> SUBSET Tokens]

Init ==
  /\ ServerInit
  /\ isAuthenticated = [p \in Pages |-> FALSE]
  /\ stored = None
  /\ pc = [s \in Senders |-> "idle"]
  /\ refreshPromise = [p \in Pages |-> None]
  /\ missed = FALSE /\ replaced = [p \in Pages |-> {}]

-------------------------------------------------------------------------------
(* The callers of a page that await its refresh.                           *)
Refreshing(p) == {c \in Callers : pageOf[c] = p /\ pc[c] \in {"refreshing", "waiting"}}

Goto(S, to) == pc' = [s \in Senders |-> IF s \in S THEN to ELSE pc[s]]
Send(s, kind, t) == job' = [job EXCEPT ![s] = Request(kind, t)]
TakeAnswer(s) == job' = [job EXCEPT ![s] = NoJob]

(* The senders S do not await their answers any more.                      *)
Abandon(S) ==
  job' = [s \in Senders |->
            CASE s \notin S -> job[s]
              [] s \in S /\ job[s].stage \in {"sent", "loaded"} ->
                   [job[s] EXCEPT !.awaited = FALSE]
              [] s \in S /\ job[s].stage \notin {"sent", "loaded"} -> NoJob]

setTokens(t) == stored' = t /\ missed' = FALSE
clearTokens  == stored' = None /\ missed' = FALSE

-------------------------------------------------------------------------------
(* A page is left and loaded again: its memory and its calls are gone, and *)
(* a refresh token in the store counts as signed in.  A page that is only  *)
(* closed is one that does nothing more.                                   *)
Reload(p) ==
  LET senders == {s \in Senders : pageOf[s] = p}
  IN  /\ isAuthenticated' = [isAuthenticated EXCEPT ![p] = stored # None]
      /\ refreshPromise' = [refreshPromise EXCEPT ![p] = None]
      /\ Goto(senders, "idle")
      /\ Abandon(senders)
      /\ missed' = (missed \/ \E s \in senders : stored # None /\ job[s].token = stored)
      /\ UNCHANGED <<tableVars, stored, replaced>>

-------------------------------------------------------------------------------
(* apiRequest.  (Bound: a sender that has abandoned a request sends none   *)
(* until the server is done with it.)                                      *)
StartCall(c) ==
  /\ pc[c] = "idle" /\ job[c] = NoJob
  /\ isAuthenticated[pageOf[c]]
  /\ Goto({c}, "calling")
  /\ UNCHANGED <<serverVars, isAuthenticated, stored, refreshPromise, missed, replaced>>

(* The call is answered, but not by a 401, or fails on its way.            *)
EndCall(c) ==
  /\ pc[c] = "calling"
  /\ Goto({c}, "idle")
  /\ UNCHANGED <<serverVars, isAuthenticated, stored, refreshPromise, missed, replaced>>

(* clearTokens and notifyForcedLogout, in each of the calls C.             *)
ForceLogoutFault(p, C) ==
  /\ UNCHANGED <<stored, missed>>
  /\ isAuthenticated' = [isAuthenticated EXCEPT ![p] = FALSE]
  /\ Goto(C, "idle")
ForceLogout(p, C) ==
  /\ clearTokens
  /\ isAuthenticated' = [isAuthenticated EXCEPT ![p] = FALSE]
  /\ Goto(C, "idle")

(* The call is answered 401 and calls tryRefresh: no token in the store,   *)
NoRefresh(c) ==
  /\ pc[c] = "calling" /\ stored = None
  /\ ForceLogout(pageOf[c], {c})
  /\ UNCHANGED <<serverVars, refreshPromise, replaced>>

(* or the first call of its page,                                          *)
BeginRefresh(c) ==
  /\ pc[c] = "calling" /\ stored # None /\ refreshPromise[pageOf[c]] = None
  /\ refreshPromise' = [refreshPromise EXCEPT ![pageOf[c]] = c]
  /\ Goto({c}, "refreshing")
  /\ Send(c, "refresh", stored)
  /\ UNCHANGED <<tableVars, isAuthenticated, stored, missed, replaced>>

(* or a further one.                                                       *)
AwaitRefreshFault(c) ==
  /\ pc[c] = "calling" /\ stored # None /\ refreshPromise[pageOf[c]] # None
  /\ Goto({c}, "refreshing")
  /\ Send(c, "refresh", stored)
  /\ UNCHANGED <<tableVars, isAuthenticated, stored, refreshPromise, missed, replaced>>
AwaitRefresh(c) ==
  /\ pc[c] = "calling" /\ stored # None /\ refreshPromise[pageOf[c]] # None
  /\ Goto({c}, "waiting")
  /\ UNCHANGED <<serverVars, isAuthenticated, stored, refreshPromise, missed, replaced>>

(* The new pair has arrived; all that wait call again with it, once, and   *)
(* end with whatever they are answered.                                    *)
RefreshedFault(c) ==
  /\ pc[c] = "refreshing" /\ job[c].stage = "issued"
  /\ UNCHANGED <<stored, missed>>
  /\ Goto(Refreshing(pageOf[c]), "idle")
  /\ refreshPromise' = [refreshPromise EXCEPT ![pageOf[c]] = None]
  /\ replaced' = [replaced EXCEPT ![pageOf[c]] = @ \cup {job[c].token}]
  /\ TakeAnswer(c)
  /\ UNCHANGED <<tableVars, isAuthenticated>>
Refreshed(c) ==
  /\ pc[c] = "refreshing" /\ job[c].stage = "issued"
  /\ setTokens(job[c].answer)
  /\ Goto(Refreshing(pageOf[c]), "idle")
  /\ refreshPromise' = [refreshPromise EXCEPT ![pageOf[c]] = None]
  /\ replaced' = [replaced EXCEPT ![pageOf[c]] = @ \cup {job[c].token}]
  /\ TakeAnswer(c)
  /\ UNCHANGED <<tableVars, isAuthenticated>>

(* The refresh is refused or fails, or nothing is heard of it.             *)
RefreshFails(c) ==
  /\ pc[c] = "refreshing"
  /\ \/ job[c].stage \in {"none", "refused"} /\ TakeAnswer(c)
     \/ Abandon({c})
  /\ ForceLogout(pageOf[c], Refreshing(pageOf[c]))
  /\ refreshPromise' = [refreshPromise EXCEPT ![pageOf[c]] = None]
  /\ UNCHANGED <<tableVars, replaced>>

-------------------------------------------------------------------------------
(* The login page, and login and logout of AuthContext.                    *)
BeginLogin(p) ==
  /\ Unissued # {}   \* bound: no login once all Tokens are issued
  /\ pc[p] = "idle" /\ job[p] = NoJob
  /\ Goto({p}, "login")
  /\ Send(p, "login", None)
  /\ UNCHANGED <<tableVars, isAuthenticated, stored, refreshPromise, missed, replaced>>

LoggedIn(p) ==
  /\ pc[p] = "login" /\ job[p].stage = "issued"
  /\ Goto({p}, "idle")
  /\ setTokens(job[p].answer)
  /\ isAuthenticated' = [isAuthenticated EXCEPT ![p] = TRUE]
  /\ TakeAnswer(p)
  /\ UNCHANGED <<tableVars, refreshPromise, replaced>>

LoginFails(p) ==
  /\ pc[p] = "login"
  /\ Goto({p}, "idle")
  /\ Abandon({p})
  /\ UNCHANGED <<tableVars, isAuthenticated, stored, refreshPromise, missed, replaced>>

(* A signed in page logs out with the token that is in the store, if any.  *)
BeginLogout(p) ==
  /\ isAuthenticated[p] /\ pc[p] = "idle" /\ job[p] = NoJob
  /\ \/ /\ stored # None
        /\ Goto({p}, "logout")
        /\ Send(p, "logout", stored)
        /\ UNCHANGED <<stored, isAuthenticated>>
     \/ /\ stored = None
        /\ isAuthenticated' = [isAuthenticated EXCEPT ![p] = FALSE]
        /\ UNCHANGED <<stored, pc, job>>
  /\ UNCHANGED <<tableVars, refreshPromise, missed, replaced>>

(* It signs out whatever becomes of the request.                           *)
LoggedOut(p) ==
  /\ pc[p] = "logout"
  /\ \/ job[p].stage \in {"none", "done"} /\ TakeAnswer(p)
     \/ Abandon({p})
  /\ Goto({p}, "idle")
  /\ clearTokens
  /\ isAuthenticated' = [isAuthenticated EXCEPT ![p] = FALSE]
  /\ UNCHANGED <<tableVars, refreshPromise, replaced>>

-------------------------------------------------------------------------------
Form(p) ==
  \/ BeginLogin(p) \/ LoggedIn(p) \/ LoginFails(p) \/ BeginLogout(p) \/ LoggedOut(p)
Caller(c) ==
  \/ StartCall(c) \/ EndCall(c) \/ NoRefresh(c) \/ BeginRefresh(c) \/ AwaitRefresh(c)
  \/ Refreshed(c) \/ RefreshFails(c)

Next ==
  \/ \E s \in Senders : Serve(s) /\ UNCHANGED pageVars
  \/ \E p \in Pages : Reload(p)
  \/ \E p \in Senders \ Callers : Form(p)
  \/ \E c \in Callers : Caller(c)

Spec == Init /\ [][Next]_vars
-------------------------------------------------------------------------------
(* Properties.                                                             *)

(* A page has at most one refresh under way, whatever number of its calls  *)
(* are answered 401, and its other calls wait for that one, never for one  *)
(* that has ended ("only one refresh round-trip happens and the other two  *)
(* wait on it", tryRefresh).                                               *)
OneRefreshPerPage ==
  \A c \in Callers :
    /\ pc[c] = "refreshing" => refreshPromise[pageOf[c]] = c
    /\ pc[c] = "waiting" => \E d \in Callers : /\ refreshPromise[pageOf[c]] = d
                                               /\ pageOf[d] = pageOf[c] /\ pc[d] = "refreshing"

(* The store that pages share never keeps a token that has been used up,   *)
(* however their refreshes, logins and logouts overlap: if the stored      *)
(* token is revoked, whoever used it still awaits the answer and will      *)
(* replace it, or was reloaded before the answer came.                     *)
StoredIsUsable ==
  stored # None /\ row[stored].revoked =>
    \/ missed
    \/ \E s \in Senders : pc[s] \in {"refreshing", "logout"} /\ job[s].token = stored

(* A page never brings a token again for which it has received another     *)
(* one, whatever its other calls, its reloads and the other pages do; so   *)
(* it is never refused because of a refresh of its own that it knows of.   *)
NeverReplays ==
  \A c \in Callers :
    pc[c] = "refreshing" => job[c].token \notin replaced[pageOf[c]]
===============================================================================
