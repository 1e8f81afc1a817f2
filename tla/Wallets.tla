-------------------------------- MODULE Wallets --------------------------------
(***************************************************************************)
(* Wallets, their ledger, and what is bought with them: licences, crew and *)
(* rentals, under concurrent requests.                                     *)
(*                                                                         *)
(* Every purchase ends in apply_ledger_entry: the wallet is read without a *)
(* lock, the new balance is computed from what was read, and the UPDATE    *)
(* waits for the row lock and writes that balance, whatever the row holds  *)
(* by then.  A session is one request and its transaction, at READ         *)
(* COMMITTED; what it has written is seen by others when it commits.       *)
(***************************************************************************)
EXTENDS Integers, Sequences

CONSTANTS
  Users,
  Airports,          \* crew is hired at an airport
  Licences,          \* airports and aircraft families that must be unlocked
  StarterCrew,       \* airports where an account starts with one crew member
  Rentals,
  OwnerOf,           \* the user who places a rental
  Sessions,
  None,
  SIGNUP_BONUS_CREDITS, CREW_BASE_COST_CREDITS, RentalFee, SettlementCredits,
  UnlockCost,        \* unlock_cost_credits of each licence
  MaxEntries         \* bound: no request starts for a user with a longer ledger

ASSUME WalletsAssumption ==
  /\ StarterCrew \subseteq Airports \ Licences
  /\ OwnerOf \in [Rentals -> Users]
  /\ None \notin Sessions
  /\ Airports \cap Rentals = {} /\ Licences \cap Rentals = {}
  /\ SIGNUP_BONUS_CREDITS \in Nat /\ CREW_BASE_COST_CREDITS \in Nat \ {0}
  /\ RentalFee \in Nat \ {0} /\ SettlementCredits \in Nat \ {0}
  /\ UnlockCost \in [Licences -> Nat \ {0}]
  /\ MaxEntries \in Nat

VARIABLES
  accounts,          \* users that have signed up
  balance,           \* committed balance_credits of each wallet
  ledger,            \* committed wallet_ledger rows of each user, oldest first
  unlocked,          \* committed licences of each user
  active,            \* airports with is_active, opened by a first unlock
  crew,              \* committed crew_count per user and airport, 0: no row
  rental,            \* committed status of each rental
  walletLock,        \* session holding the row lock of each wallet
  inserting,         \* session whose uncommitted licence row holds its key
  pc, job,           \* where each session is, and the ledger entry it works on
  loaded,            \* the balance it read
  seen,              \* the crew count it read
  overlapped         \* users with a wallet read between another read and its commit

shared  == <<accounts, balance, ledger, unlocked, active, crew, rental>>
locks   == <<walletLock, inserting>>
session == <<pc, job, loaded, seen>>
vars    == <<shared, locks, session, overlapped>>

LedgerReason == {"signup_bonus", "rental_fee", "settlement", "license_purchase", "crew_hire"}
Entry == [user : Users, delta : Int, reason : LedgerReason,
          about : Users \cup Airports \cup Licences \cup Rentals]
PC == {"idle", "signup", "insert_licence", "read_wallet", "update_wallet", "finish"}

TypeOK ==
  /\ accounts \in SUBSET Users
  /\ balance \in [Users -> Nat]
  /\ ledger \in [Users -> Seq(Entry)]
  /\ unlocked \in [Users -> SUBSET Licences]
  /\ active \in SUBSET (Airports \cap Licences)
  /\ crew \in [Users \X Airports -> Nat]
  /\ rental \in [Rentals -> {"absent", "open", "claimed"}]
  /\ walletLock \in [Users -> Sessions \cup {None}]
  /\ inserting \in [Users \X Licences -> Sessions \cup {None}]
  /\ pc \in [Sessions -> PC]
  /\ job \in [Sessions -> Entry \cup {None}]
  /\ loaded \in [Sessions -> Nat]
  /\ seen \in [Sessions -> Nat]
  /\ overlapped \in SUBSET Users

Init ==
  /\ accounts = {}
  /\ balance = [u \in Users |-> 0]
  /\ ledger = [u \in Users |-> <<>>]
  /\ unlocked = [u \in Users |-> {}]
  /\ active = {}
  /\ crew = [c \in Users \X Airports |-> 0]
  /\ rental = [r \in Rentals |-> "absent"]
  /\ walletLock = [u \in Users |-> None]
  /\ inserting = [k \in Users \X Licences |-> None]
  /\ pc = [s \in Sessions |-> "idle"]
  /\ job = [s \in Sessions |-> None]
  /\ loaded = [s \in Sessions |-> 0]
  /\ seen = [s \in Sessions |-> 0]
  /\ overlapped = {}

-------------------------------------------------------------------------------
(* Sessions and apply_ledger_entry.                                        *)

Goto(s, from, to) == pc[s] = from /\ pc' = [pc EXCEPT ![s] = to]

Begin(s, to, u, delta, reason, about, count) ==
  /\ Goto(s, "idle", to)
  /\ Len(ledger[u]) < MaxEntries
  /\ job' = [job EXCEPT ![s] =
               [user |-> u, delta |-> delta, reason |-> reason, about |-> about]]
  /\ seen' = [seen EXCEPT ![s] = count]
  /\ UNCHANGED <<shared, locks, loaded, overlapped>>

EndSessionFault(s) ==
  /\ pc' = [pc EXCEPT ![s] = "idle"]
  /\ job' = [job EXCEPT ![s] = None]
  /\ loaded' = [loaded EXCEPT ![s] = 0]
  /\ seen' = [seen EXCEPT ![s] = 0]
  /\ walletLock' = [u \in Users |-> IF walletLock[u] = s THEN None ELSE walletLock[u]]
  /\ UNCHANGED <<inserting, overlapped>>
EndSession(s) ==
  /\ pc' = [pc EXCEPT ![s] = "idle"]
  /\ job' = [job EXCEPT ![s] = None]
  /\ loaded' = [loaded EXCEPT ![s] = 0]
  /\ seen' = [seen EXCEPT ![s] = 0]
  /\ walletLock' = [u \in Users |-> IF walletLock[u] = s THEN None ELSE walletLock[u]]
  /\ inserting' = [k \in Users \X Licences |-> IF inserting[k] = s THEN None ELSE inserting[k]]
  /\ UNCHANGED overlapped

AffordableFault(s) == TRUE
Affordable(s) == balance[job[s].user] + job[s].delta >= 0

(* Session s has read the wallet of user u and not committed yet.          *)
Holding(s, u) == pc[s] \in {"update_wallet", "finish"} /\ job[s].user = u

ReadWallet(s) ==
  /\ Goto(s, "read_wallet", "update_wallet")
  /\ Affordable(s)
  /\ loaded' = [loaded EXCEPT ![s] = balance[job[s].user]]
  /\ overlapped' = overlapped \cup {u \in {job[s].user} : \E t \in Sessions : Holding(t, u)}
  /\ UNCHANGED <<shared, locks, job, seen>>

UpdateWallet(s) ==
  LET u == job[s].user IN
  /\ Goto(s, "update_wallet", "finish")
  /\ walletLock[u] = None
  /\ walletLock' = [walletLock EXCEPT ![u] = s]
  /\ UNCHANGED <<shared, inserting, job, loaded, seen, overlapped>>

(* The commit of a request that has updated its wallet.                    *)
Post(s) ==
  LET u == job[s].user IN
  /\ balance' = [balance EXCEPT ![u] = loaded[s] + job[s].delta]
  /\ ledger' = [ledger EXCEPT ![u] = Append(@, job[s])]
  /\ EndSession(s)

Finishing(s, reason) == pc[s] = "finish" /\ job[s].reason = reason

-------------------------------------------------------------------------------
(* Signing up: the unique e-mail makes a rival's INSERT wait for the       *)
(* commit, and fail.                                                       *)

SignupBegin(s) ==
  \E u \in Users \ accounts :
    Begin(s, "signup", u, SIGNUP_BONUS_CREDITS, "signup_bonus", u, 0)

EmailIsNewFault(u) == TRUE
EmailIsNew(u) == u \notin accounts

SignupCommit(s) ==
  LET u == job[s].user IN
  /\ pc[s] = "signup"
  /\ EmailIsNew(u)
  /\ accounts' = accounts \cup {u}
  /\ balance' = [balance EXCEPT ![u] = job[s].delta]
  /\ ledger' = [ledger EXCEPT ![u] = Append(@, job[s])]
  /\ crew' = [c \in Users \X Airports |->
                IF c[1] = u /\ c[2] \in StarterCrew THEN 1 ELSE crew[c]]
  /\ EndSession(s)
  /\ UNCHANGED <<unlocked, active, rental>>

-------------------------------------------------------------------------------
(* Unlocking an airport or an aircraft family.                             *)

UnlockBegin(s) ==
  \E u \in accounts, l \in Licences :
    Begin(s, "insert_licence", u, -UnlockCost[l], "license_purchase", l, 0)

(* The primary key: an INSERT waits while another session has inserted the *)
(* same licence, and fails when the licence is there.                      *)
KeyIsFreeFault(u, l) == l \notin unlocked[u]
KeyIsFree(u, l) == l \notin unlocked[u] /\ inserting[<<u, l>>] = None

UnlockInsert(s) ==
  LET u == job[s].user  l == job[s].about IN
  /\ Goto(s, "insert_licence", "read_wallet")
  /\ KeyIsFree(u, l)
  /\ inserting' = [inserting EXCEPT ![<<u, l>>] = s]
  /\ UNCHANGED <<shared, walletLock, job, loaded, seen, overlapped>>

UnlockCommit(s) ==
  LET u == job[s].user  l == job[s].about IN
  /\ Finishing(s, "license_purchase")
  /\ unlocked' = [unlocked EXCEPT ![u] = @ \cup {l}]
  /\ active' = active \cup ({l} \cap Airports)
  /\ Post(s)
  /\ UNCHANGED <<accounts, crew, rental>>

-------------------------------------------------------------------------------
(* Hiring crew.                                                            *)

HireCost(count) == CREW_BASE_COST_CREDITS * (count + 1)

HireBegin(s) ==
  \E u \in accounts, a \in Airports :
    /\ a \in Licences => a \in unlocked[u]
    /\ Begin(s, "read_wallet", u, -HireCost(crew[<<u, a>>]), "crew_hire", a, crew[<<u, a>>])

(* A first hire inserts the row, so it fails if there is one by now.  The  *)
(* row is written under the lock of the wallet.                            *)
RowAsSeen(s) == seen[s] = 0 => crew[<<job[s].user, job[s].about>>] = 0

HireCommitFault(s) ==
  LET who == <<job[s].user, job[s].about>> IN
  /\ Finishing(s, "crew_hire")
  /\ RowAsSeen(s)
  /\ crew' = [crew EXCEPT ![who] = @ + 1]
  /\ Post(s)
  /\ UNCHANGED <<accounts, unlocked, active, rental>>
HireCommitKeepFault(s) ==
  LET who == <<job[s].user, job[s].about>> IN
  /\ Finishing(s, "crew_hire")
  /\ RowAsSeen(s)
  /\ crew' = [crew EXCEPT ![who] = IF seen[s] = 0 THEN 1 ELSE seen[s]]
  /\ Post(s)
  /\ UNCHANGED <<accounts, unlocked, active, rental>>
HireCommit(s) ==
  LET who == <<job[s].user, job[s].about>> IN
  /\ Finishing(s, "crew_hire")
  /\ RowAsSeen(s)
  /\ crew' = [crew EXCEPT ![who] = seen[s] + 1]
  /\ Post(s)
  /\ UNCHANGED <<accounts, unlocked, active, rental>>

-------------------------------------------------------------------------------
(* The fee of a rental and its reward.  When the flight of a rental has    *)
(* resolved is left open here.                                             *)

(* The id sequence hands out an id once.                                   *)
IdTaken(r) == rental[r] # "absent" \/ \E s \in Sessions : pc[s] # "idle" /\ job[s].about = r

RentBegin(s) ==
  \E r \in Rentals :
    /\ OwnerOf[r] \in accounts /\ ~IdTaken(r)
    /\ Begin(s, "read_wallet", OwnerOf[r], -RentalFee, "rental_fee", r, 0)

RentCommit(s) ==
  /\ Finishing(s, "rental_fee")
  /\ rental' = [rental EXCEPT ![job[s].about] = "open"]
  /\ Post(s)
  /\ UNCHANGED <<accounts, unlocked, active, crew>>

ClaimBegin(s) ==
  \E r \in Rentals :
    /\ rental[r] = "open"
    /\ Begin(s, "read_wallet", OwnerOf[r], SettlementCredits, "settlement", r, 0)

ClaimCommit(s) ==
  /\ Finishing(s, "settlement")
  /\ rental' = [rental EXCEPT ![job[s].about] = "claimed"]
  /\ Post(s)
  /\ UNCHANGED <<accounts, unlocked, active, crew>>

-------------------------------------------------------------------------------
(* The request is refused: ConflictError, InsufficientFundsError or an     *)
(* IntegrityError of the database.                                         *)
RefuseFault(s) ==
  LET flushed == Finishing(s, "crew_hire") /\ ~RowAsSeen(s) IN
  /\ \/ pc[s] = "signup" /\ ~EmailIsNew(job[s].user)
     \/ pc[s] = "insert_licence" /\ job[s].about \in unlocked[job[s].user]
     \/ pc[s] = "read_wallet" /\ ~Affordable(s)
     \/ flushed
  /\ balance' = IF flushed THEN [balance EXCEPT ![job[s].user] = loaded[s] + job[s].delta]
                ELSE balance
  /\ EndSession(s)
  /\ UNCHANGED <<accounts, ledger, unlocked, active, crew, rental>>
Refuse(s) ==
  /\ \/ pc[s] = "signup" /\ ~EmailIsNew(job[s].user)
     \/ pc[s] = "insert_licence" /\ job[s].about \in unlocked[job[s].user]
     \/ pc[s] = "read_wallet" /\ ~Affordable(s)
     \/ Finishing(s, "crew_hire") /\ ~RowAsSeen(s)
  /\ EndSession(s)
  /\ UNCHANGED shared

(* A lost connection, or the process stops.                                *)
Fail(s) == pc[s] # "idle" /\ EndSession(s) /\ UNCHANGED shared

Arrive(s) ==
  SignupBegin(s) \/ UnlockBegin(s) \/ HireBegin(s) \/ RentBegin(s) \/ ClaimBegin(s)
Proceed(s) ==
  \/ SignupCommit(s) \/ UnlockInsert(s) \/ UnlockCommit(s) \/ HireCommit(s)
  \/ RentCommit(s) \/ ClaimCommit(s) \/ ReadWallet(s) \/ UpdateWallet(s) \/ Refuse(s)

Next == \E s \in Sessions : Arrive(s) \/ Proceed(s) \/ Fail(s)

Spec == Init /\ [][Next]_vars

(* The event loop resumes a handler whose await is done.  PostgreSQL queues *)
(* the waiters of a row or of a key in doubt, so one that is freed again   *)
(* and again is granted to each of them in the end.                        *)
Fairness ==
  \A s \in Sessions :
    WF_vars(Proceed(s)) /\ SF_vars(UpdateWallet(s)) /\ SF_vars(UnlockInsert(s))
-------------------------------------------------------------------------------
(* Properties.                                                             *)

Posted(u, i, reason, about) ==
  i \in 1 .. Len(ledger[u]) /\ ledger[u][i].reason = reason /\ ledger[u][i].about = about

(* A licence is paid for exactly once by the user who has it, and only by  *)
(* that user, however the requests for it interleave; its airport is       *)
(* active from then on.  (unlock_airport: "no double-charge is possible".) *)
LicencePaidOnce ==
  \A u \in Users, l \in Licences :
    /\ l \in unlocked[u] <=> \E i \in 1 .. Len(ledger[u]) : Posted(u, i, "license_purchase", l)
    /\ \A i, j \in 1 .. Len(ledger[u]) :
         Posted(u, i, "license_purchase", l) /\ Posted(u, j, "license_purchase", l) => i = j
    /\ l \in unlocked[u] /\ l \in Airports => l \in active

(* The signup bonus opens a ledger and never appears in it again, so two   *)
(* signups with one address grant it once, and nothing is bought before.   *)
BonusOpensLedger ==
  \A u \in Users : \A i \in 1 .. Len(ledger[u]) :
    ledger[u][i].reason = "signup_bonus" <=> i = 1

PaidUpTo(u, a, count) ==
  \A n \in 1 .. count : ~(n = 1 /\ a \in StarterCrew) =>
    \E i \in 1 .. Len(ledger[u]) :
      Posted(u, i, "crew_hire", a) /\ ledger[u][i].delta = -HireCost(n - 1)

(* Every crew member beyond the starter was paid for at its own price,     *)
(* although hires overwrite each other's counts (hire_crew).               *)
CrewPaidFor == \A u \in Users, a \in Airports : PaidUpTo(u, a, crew[<<u, a>>])

(* Every request ends: no handler waits for ever for a wallet or a key.    *)
RequestsEnd == \A s \in Sessions : pc[s] # "idle" ~> pc[s] = "idle"

RunningTotal(entries) ==
  LET sum[n \in 0 .. Len(entries)] == IF n = 0 THEN 0 ELSE sum[n - 1] + entries[n].delta
  IN  sum
LedgerSum(u) == RunningTotal(ledger[u])[Len(ledger[u])]

(* A user whose requests never overlap between read and commit has what    *)
(* his ledger adds up to, whichever of them are refused, fail or are still *)
(* under way.  (wallets.balance_credits is "a cached running total kept in *)
(* sync here", apply_ledger_entry.)                                        *)
SequentialBalance == \A u \in Users \ overlapped : balance[u] = LedgerSum(u)

(* What the docstring of apply_ledger_entry says and concurrent requests   *)
(* of one user break: the balance is the running total of the ledger.      *)
BalanceIsLedgerSum == \A u \in Users : balance[u] = LedgerSum(u)

-------------------------------------------------------------------------------
(* The inductive invariant: what a session knows of the rows it has read   *)
(* still holds when it commits, and an inserted key is nobody else's.      *)

Charging == {"read_wallet", "update_wallet", "finish"}

JobInv(s) ==
  LET e == job[s] IN
  /\ e \in Entry
  /\ e.reason = "signup_bonus" <=> pc[s] = "signup"
  /\ pc[s] = "signup" => e.delta = SIGNUP_BONUS_CREDITS
  /\ pc[s] # "signup" => e.user \in accounts
  /\ pc[s] = "insert_licence" => e.reason = "license_purchase"
  /\ e.reason = "license_purchase" =>
       /\ e.about \in Licences
       /\ pc[s] \in Charging => inserting[<<e.user, e.about>>] = s
  /\ e.reason \in {"rental_fee", "settlement"} =>
       e.about \in Rentals /\ e.user = OwnerOf[e.about]
  /\ e.reason = "crew_hire" =>
       /\ e.about \in Airports
       /\ e.delta = -HireCost(seen[s])
       /\ PaidUpTo(e.user, e.about, seen[s])
  /\ pc[s] \in {"update_wallet", "finish"} => loaded[s] + e.delta >= 0

SessionsInv == \A s \in Sessions : pc[s] # "idle" => JobInv(s)
KeysInv == \A u \in Users, l \in Licences : inserting[<<u, l>>] # None => l \notin unlocked[u]
AccountsInv == \A u \in Users : u \in accounts <=> ledger[u] # <<>>
RentersInv == \A r \in Rentals : rental[r] # "absent" => OwnerOf[r] \in accounts

(* A user whose requests have not overlapped has one request at most that  *)
(* has read his wallet, and the wallet is still as that request read it.   *)
SequentialInv ==
  \A u \in Users \ overlapped :
    /\ balance[u] = LedgerSum(u)
    /\ \A s, t \in Sessions : Holding(s, u) =>
         loaded[s] = balance[u] /\ (Holding(t, u) => s = t)

WalletsInv ==
  /\ TypeOK /\ SessionsInv /\ KeysInv /\ AccountsInv /\ RentersInv
  /\ LicencePaidOnce /\ BonusOpensLedger /\ CrewPaidFor
===============================================================================
