----------------------------- MODULE WalletsProofs -----------------------------
(* Proofs that the safety properties of Wallets hold for any numbers of    *)
(* users, licences, airports, rentals and concurrent requests.             *)
EXTENDS HiresInTurn, TLAPS, Induction, FiniteSetTheorems

USE WalletsAssumption

(* A commit of user v posts entry e.                                       *)
Posts(v, e) == ledger' = [ledger EXCEPT ![v] = Append(@, e)]
LedgerStep == UNCHANGED ledger \/ \E v \in Users, e \in Entry : Posts(v, e)

(* It keeps every earlier entry where it was and puts e at the end.        *)
LEMMA PostsLemma ==
  ASSUME TypeOK, NEW v \in Users, NEW e \in Entry, Posts(v, e)
  PROVE  /\ ledger' \in [Users -> Seq(Entry)]
         /\ \A u \in Users \ {v} : ledger'[u] = ledger[u]
         /\ Len(ledger[v]) \in Nat
         /\ Len(ledger'[v]) = Len(ledger[v]) + 1
         /\ ledger'[v][Len(ledger[v]) + 1] = e
         /\ \A i \in 1 .. Len(ledger[v]) : ledger'[v][i] = ledger[v][i]
<1>1. ledger \in [Users -> Seq(Entry)]
  BY DEF TypeOK
<1>2. QED BY <1>1 DEF Posts

(* What crew has been paid for stays paid for.                             *)
LEMMA PaidLemma ==
  ASSUME TypeOK, LedgerStep, NEW u \in Users, NEW a, NEW n \in Nat, PaidUpTo(u, a, n)
  PROVE  PaidUpTo(u, a, n)'
<1>1. \A i \in 1 .. Len(ledger[u]) :
        i \in 1 .. Len(ledger'[u]) /\ ledger'[u][i] = ledger[u][i]
  <2>1. CASE UNCHANGED ledger
    BY <2>1
  <2>2. ASSUME NEW v \in Users, NEW e \in Entry, Posts(v, e)
        PROVE  <1>1!:
    BY <2>2, PostsLemma
  <2>3. QED BY <2>1, <2>2 DEF LedgerStep
<1>2. QED BY <1>1 DEF PaidUpTo, Posted

(* A step of session s leaves session t where it is, with its keys.        *)
Apart(t) ==
  /\ pc'[t] = pc[t] /\ job'[t] = job[t] /\ loaded'[t] = loaded[t] /\ seen'[t] = seen[t]
  /\ \A k \in Users \X Licences : inserting[k] = t => inserting'[k] = t

(* What such a session knows stays true.                                   *)
LEMMA ApartLemma ==
  ASSUME TypeOK, NEW t \in Sessions, pc[t] # "idle", JobInv(t),
         Apart(t), LedgerStep, accounts \subseteq accounts'
  PROVE  JobInv(t)'
<1> DEFINE e == job[t]
<1>1. /\ e \in Entry /\ job'[t] = e /\ pc'[t] = pc[t]
      /\ loaded'[t] = loaded[t] /\ seen'[t] = seen[t]
  BY DEF JobInv, Apart
<1>2. ASSUME e.reason = "crew_hire"
      PROVE  PaidUpTo(e.user, e.about, seen[t])'
  <2>1. seen[t] \in Nat /\ e.user \in Users /\ PaidUpTo(e.user, e.about, seen[t])
    BY <1>1, <1>2 DEF JobInv, TypeOK, Entry
  <2>2. PICK u \in Users, n \in Nat : u = e.user /\ n = seen[t]
    BY <2>1
  <2>3. PICK a : a = e.about
    OBVIOUS
  <2>4. PaidUpTo(u, a, n)
    BY <2>1, <2>2, <2>3
  <2>5. PaidUpTo(u, a, n)'
    BY <2>4, PaidLemma
  <2>6. u = e'.user /\ a = e'.about /\ n = seen'[t]
    BY <1>1, <2>2, <2>3
  <2>7. QED BY <2>5, <2>6 DEF PaidUpTo, Posted
<1>3. e.reason = "license_purchase" /\ pc[t] \in Charging => inserting'[<<e.user, e.about>>] = t
  BY <1>1 DEF JobInv, Entry, Apart
<1>4. QED
  BY <1>1, <1>2, <1>3 DEF JobInv

(* So all sessions are in order after a step of s if s is.                 *)
LEMMA SessionsLemma ==
  ASSUME WalletsInv, NEW s \in Sessions, LedgerStep, accounts \subseteq accounts',
         \A t \in Sessions \ {s} : Apart(t),
         pc'[s] = "idle" \/ JobInv(s)'
  PROVE  SessionsInv'
<1>1. SUFFICES ASSUME NEW t \in Sessions, pc'[t] # "idle"
               PROVE  JobInv(t)'
  BY DEF SessionsInv
<1>2. CASE t = s
  BY <1>1, <1>2
<1>3. CASE t # s
  <2>1. Apart(t) /\ pc[t] # "idle" /\ JobInv(t)
    BY <1>1, <1>3 DEF Apart, WalletsInv, SessionsInv
  <2>2. QED BY <2>1, ApartLemma DEF WalletsInv
<1>4. QED BY <1>2, <1>3

(* The end of a session frees what it held and nothing else.               *)
LEMMA EndLemma ==
  ASSUME TypeOK, NEW s \in Sessions, EndSession(s)
  PROVE  /\ pc' \in [Sessions -> PC] /\ job' \in [Sessions -> Entry \cup {None}]
         /\ loaded' \in [Sessions -> Nat] /\ seen' \in [Sessions -> Nat]
         /\ walletLock' \in [Users -> Sessions \cup {None}]
         /\ inserting' \in [Users \X Licences -> Sessions \cup {None}]
         /\ overlapped' = overlapped
         /\ pc'[s] = "idle"
         /\ \A t \in Sessions \ {s} : Apart(t)
         /\ \A k \in Users \X Licences :
              /\ inserting'[k] # s
              /\ inserting'[k] # None => inserting'[k] = inserting[k]
  BY DEF TypeOK, EndSession, Apart, PC

(* The promises about committed rows, which only a commit can disturb.     *)
LEMMA SharedLemma ==
  ASSUME WalletsInv, UNCHANGED shared
  PROVE  /\ AccountsInv' /\ RentersInv'
         /\ LicencePaidOnce' /\ BonusOpensLedger' /\ CrewPaidFor'
  BY DEF WalletsInv, shared, AccountsInv, RentersInv, LicencePaidOnce, BonusOpensLedger, CrewPaidFor,
     PaidUpTo, Posted

(* A posted entry opens an account or belongs to one, and the bonus stays  *)
(* the first entry of each ledger.                                         *)
LEMMA PostedLemma ==
  ASSUME WalletsInv, NEW v \in Users, NEW e \in Entry, Posts(v, e),
         accounts' = accounts \cup {v},
         e.reason = "signup_bonus" <=> v \notin accounts
  PROVE  LedgerStep /\ AccountsInv' /\ BonusOpensLedger'
<1> DEFINE n == Len(ledger[v])
<1>1. /\ ledger' \in [Users -> Seq(Entry)]
      /\ \A u \in Users \ {v} : ledger'[u] = ledger[u]
      /\ n \in Nat /\ Len(ledger'[v]) = n + 1 /\ ledger'[v][n + 1] = e
      /\ \A i \in 1 .. n : ledger'[v][i] = ledger[v][i]
  BY PostsLemma DEF WalletsInv
<1>2. ledger[v] \in Seq(Entry) /\ (v \notin accounts <=> n = 0)
  BY DEF WalletsInv, TypeOK, AccountsInv
<1>3. AccountsInv'
  BY <1>1 DEF WalletsInv, AccountsInv
<1>4. ASSUME NEW u \in Users, NEW i \in 1 .. Len(ledger'[u])
      PROVE  ledger'[u][i].reason = "signup_bonus" <=> i = 1
  <2>1. CASE u # v
    BY <1>1, <2>1, <1>4 DEF WalletsInv, BonusOpensLedger
  <2>2. CASE u = v /\ i \in 1 .. n
    BY <1>1, <2>2 DEF WalletsInv, BonusOpensLedger
  <2>3. CASE u = v /\ i = n + 1
    BY <1>1, <1>2, <2>3
  <2>4. QED BY <1>1, <1>4, <2>1, <2>2, <2>3
<1>5. LedgerStep
  BY DEF LedgerStep
<1>6. QED BY <1>3, <1>4, <1>5 DEF BonusOpensLedger

(* A commit that posts something else than a licence touches no licence.   *)
LEMMA NoLicenceLemma ==
  ASSUME WalletsInv, NEW v \in Users, NEW e \in Entry, Posts(v, e),
         e.reason # "license_purchase", UNCHANGED <<unlocked, active>>
  PROVE  LicencePaidOnce'
<1>1. \A u \in Users, l \in Licences, i \in Nat :
        Posted(u, i, "license_purchase", l)' <=> Posted(u, i, "license_purchase", l)
  <2>1. SUFFICES ASSUME NEW u \in Users, NEW l \in Licences, NEW i \in Nat
                 PROVE  Posted(u, i, "license_purchase", l)' <=>
                          Posted(u, i, "license_purchase", l)
    OBVIOUS
  <2>2. CASE u # v
    BY <2>2, PostsLemma DEF WalletsInv, Posted
  <2>3. CASE u = v
    BY <2>3, PostsLemma DEF WalletsInv, Posted
  <2>4. QED BY <2>2, <2>3
<1>2. \A u \in Users : Len(ledger[u]) \in Nat /\ Len(ledger'[u]) \in Nat
  BY PostsLemma DEF WalletsInv, TypeOK
<1>3. \A u \in Users, l \in Licences, i \in Nat :
        Posted(u, i, "license_purchase", l) => i \in 1 .. Len(ledger[u])
  BY DEF Posted
<1>4. \A u \in Users, l \in Licences, i \in Nat :
        Posted(u, i, "license_purchase", l)' => i \in 1 .. Len(ledger'[u])
  BY DEF Posted
<1>5. SUFFICES ASSUME NEW u \in Users, NEW l \in Licences
      PROVE /\ l \in unlocked[u] <=>
                 \E i \in 1 .. Len(ledger'[u]) : Posted(u, i, "license_purchase", l)'
            /\ \A i, j \in 1 .. Len(ledger'[u]) :
                 Posted(u, i, "license_purchase", l)' /\ Posted(u, j, "license_purchase", l)'
                 => i = j
            /\ l \in unlocked[u] /\ l \in Airports => l \in active
  BY DEF LicencePaidOnce
<1>6. /\ l \in unlocked[u] <=> \E i \in 1 .. Len(ledger[u]) : Posted(u, i, "license_purchase", l)
      /\ \A i, j \in 1 .. Len(ledger[u]) :
           Posted(u, i, "license_purchase", l) /\ Posted(u, j, "license_purchase", l) => i = j
      /\ l \in unlocked[u] /\ l \in Airports => l \in active
  BY DEF WalletsInv, LicencePaidOnce
<1>7. \A i \in 1 .. Len(ledger[u]) : i \in Nat
  BY <1>2
<1>8. \A i \in 1 .. Len(ledger'[u]) : i \in Nat
  BY <1>2
<1>9. QED BY ONLY <1>1, <1>3, <1>4, <1>5, <1>6, <1>7, <1>8

(* The commit of a licence that nobody has paid for.                       *)
LEMMA LicenceLemma ==
  ASSUME WalletsInv, NEW v \in Users, NEW e \in Entry, Posts(v, e),
         e.reason = "license_purchase", e.about \in Licences, e.about \notin unlocked[v],
         unlocked' = [unlocked EXCEPT ![v] = @ \cup {e.about}],
         active' = active \cup ({e.about} \cap Airports)
  PROVE  LicencePaidOnce'
<1>0. PICK n \in Nat : n = Len(ledger[v])
  BY PostsLemma DEF WalletsInv
<1>1. /\ \A u \in Users \ {v} : ledger'[u] = ledger[u]
      /\ Len(ledger'[v]) = n + 1 /\ ledger'[v][n + 1] = e
      /\ \A i \in 1 .. n : ledger'[v][i] = ledger[v][i]
  BY <1>0, PostsLemma DEF WalletsInv
<1>2. unlocked \in [Users -> SUBSET Licences]
  BY DEF WalletsInv, TypeOK
<1>3. SUFFICES ASSUME NEW u \in Users, NEW l \in Licences
      PROVE /\ l \in unlocked'[u] <=>
                 \E i \in 1 .. Len(ledger'[u]) : Posted(u, i, "license_purchase", l)'
            /\ \A i, j \in 1 .. Len(ledger'[u]) :
                 Posted(u, i, "license_purchase", l)' /\ Posted(u, j, "license_purchase", l)'
                 => i = j
            /\ l \in unlocked'[u] /\ l \in Airports => l \in active'
  BY DEF LicencePaidOnce
<1>4. /\ l \in unlocked[u] <=> \E i \in 1 .. Len(ledger[u]) : Posted(u, i, "license_purchase", l)
      /\ \A i, j \in 1 .. Len(ledger[u]) :
           Posted(u, i, "license_purchase", l) /\ Posted(u, j, "license_purchase", l) => i = j
      /\ l \in unlocked[u] /\ l \in Airports => l \in active
  BY DEF WalletsInv, LicencePaidOnce
<1>5. CASE u # v
  <2>1. ledger'[u] = ledger[u] /\ unlocked'[u] = unlocked[u]
    BY <1>1, <1>2, <1>5
  <2>2. QED BY <1>4, <2>1 DEF Posted
<1>6. CASE u = v
  <2>1. \A i \in 1 .. n : i \in 1 .. Len(ledger'[v]) /\
          (Posted(v, i, "license_purchase", l)' <=> Posted(v, i, "license_purchase", l))
    BY <1>0, <1>1 DEF Posted
  <2>2. Posted(v, n + 1, "license_purchase", l)' <=> l = e.about
    BY <1>1 DEF Posted
  <2>3. \A i \in 1 .. Len(ledger'[v]) : i \in 1 .. n \/ i = n + 1
    BY <1>1
  <2>4. n + 1 \in 1 .. Len(ledger'[v])
    BY <1>1
  <2>5. unlocked'[v] = unlocked[v] \cup {e.about}
    BY <1>2
  <2>6. CASE l = e.about
    <3>1. \A i \in 1 .. n : ~Posted(v, i, "license_purchase", l)
      BY <1>0, <1>4, <1>6, <2>6
    <3>2. QED BY <1>0, <1>4, <1>6, <2>1, <2>2, <2>3, <2>4, <2>5, <2>6, <3>1
  <2>7. CASE l # e.about
    BY <1>0, <1>4, <1>6, <2>1, <2>2, <2>3, <2>5, <2>7
  <2>8. QED BY <2>6, <2>7
<1>7. QED BY <1>5, <1>6

(* Crew stays paid for if every count that changes is paid for.            *)
LEMMA CrewLemma ==
  ASSUME WalletsInv, LedgerStep,
         \A u \in Users, a \in Airports :
           crew'[<<u, a>>] = crew[<<u, a>>] \/ PaidUpTo(u, a, crew[<<u, a>>])'
  PROVE  CrewPaidFor'
<1>1. SUFFICES ASSUME NEW u \in Users, NEW a \in Airports,
                      crew'[<<u, a>>] = crew[<<u, a>>]
               PROVE  PaidUpTo(u, a, crew[<<u, a>>])'
  BY DEF CrewPaidFor
<1>2. PICK n \in Nat : n = crew[<<u, a>>]
  BY DEF WalletsInv, TypeOK
<1>3. PaidUpTo(u, a, n)
  BY <1>2 DEF WalletsInv, CrewPaidFor
<1>4. PaidUpTo(u, a, n)'
  BY <1>3, PaidLemma DEF WalletsInv
<1>5. QED BY <1>1, <1>2, <1>4 DEF PaidUpTo, Posted

-------------------------------------------------------------------------------
(* Each action keeps the invariant.  First the steps that commit nothing.  *)

(* A step that commits nothing only has to leave its own session in order. *)
LEMMA QuietLemma ==
  ASSUME WalletsInv, NEW s \in Sessions, UNCHANGED shared, TypeOK', KeysInv',
         \A t \in Sessions \ {s} : Apart(t), pc'[s] = "idle" \/ JobInv(s)'
  PROVE  WalletsInv'
<1>1. LedgerStep /\ accounts \subseteq accounts'
  BY DEF LedgerStep, shared
<1>2. SessionsInv'
  BY <1>1, SessionsLemma
<1>3. QED BY <1>2, SharedLemma DEF WalletsInv

(* A request begins knowing what Begin is told.                            *)
LEMMA BeginLemma ==
  ASSUME WalletsInv, NEW s \in Sessions, NEW to \in {"signup", "insert_licence", "read_wallet"},
         NEW u \in Users, NEW delta \in Int, NEW reason \in LedgerReason,
         NEW about \in Users \cup Airports \cup Licences \cup Rentals, NEW count \in Nat,
         Begin(s, to, u, delta, reason, about, count),
         reason = "signup_bonus" <=> to = "signup",
         to = "signup" => delta = SIGNUP_BONUS_CREDITS,
         to # "signup" => u \in accounts,
         reason = "license_purchase" <=> to = "insert_licence",
         reason = "license_purchase" => about \in Licences,
         reason \in {"rental_fee", "settlement"} => about \in Rentals /\ u = OwnerOf[about],
         reason = "crew_hire" =>
           about \in Airports /\ delta = -HireCost(count) /\ PaidUpTo(u, about, count)
  PROVE  WalletsInv'
<1> DEFINE e == [user |-> u, delta |-> delta, reason |-> reason, about |-> about]
<1>1. /\ pc' = [pc EXCEPT ![s] = to] /\ job' = [job EXCEPT ![s] = e]
      /\ seen' = [seen EXCEPT ![s] = count]
      /\ UNCHANGED <<shared, locks, loaded, overlapped>>
  BY DEF Begin, Goto
<1>2. TypeOK /\ e \in Entry
  BY DEF WalletsInv, Entry
<1>3. TypeOK'
  BY <1>1, <1>2 DEF TypeOK, PC, shared, locks
<1>4. KeysInv'
  BY <1>1 DEF WalletsInv, KeysInv, shared, locks
<1>5. \A t \in Sessions \ {s} : Apart(t)
  BY <1>1, <1>2 DEF TypeOK, Apart, locks
<1>6. pc'[s] = to /\ job'[s] = e /\ seen'[s] = count
  BY <1>1, <1>2 DEF TypeOK
<1>7. reason = "crew_hire" => PaidUpTo(u, about, count)'
  BY <1>1 DEF shared, PaidUpTo, Posted
<1>8. reason = "crew_hire" => PaidUpTo(job[s].user, job[s].about, seen[s])'
  <2>1. job'[s].user = u /\ job'[s].about = about /\ seen'[s] = count
    BY <1>6
  <2>2. QED BY <1>7, <2>1 DEF PaidUpTo, Posted
<1>9. JobInv(s)'
  BY <1>1, <1>2, <1>6, <1>8 DEF JobInv, Charging, shared, HireCost
<1>10. QED BY <1>1, <1>3, <1>4, <1>5, <1>9, QuietLemma

(* Each handler starts with the facts about what it has read: the cost of  *)
(* a hire, the owner of a rental, the account.                             *)
LEMMA ArriveInv ==
  ASSUME WalletsInv, NEW s \in Sessions, Arrive(s)
  PROVE  WalletsInv'
<1>1. CASE SignupBegin(s)
  <2>1. PICK u \in Users : Begin(s, "signup", u, SIGNUP_BONUS_CREDITS, "signup_bonus", u, 0)
    BY <1>1 DEF SignupBegin
  <2>2. QED BY <2>1, BeginLemma DEF LedgerReason
<1>2. CASE UnlockBegin(s)
  <2>1. PICK u \in accounts, l \in Licences :
          Begin(s, "insert_licence", u, -UnlockCost[l], "license_purchase", l, 0)
    BY <1>2 DEF UnlockBegin
  <2>2. u \in Users /\ -UnlockCost[l] \in Int
    BY DEF WalletsInv, TypeOK
  <2>3. QED BY <2>1, <2>2, BeginLemma DEF LedgerReason
<1>3. CASE HireBegin(s)
  <2>1. PICK u \in accounts, a \in Airports :
          Begin(s, "read_wallet", u, -HireCost(crew[<<u, a>>]), "crew_hire", a, crew[<<u, a>>])
    BY <1>3 DEF HireBegin
  <2>2. u \in Users /\ crew[<<u, a>>] \in Nat
    BY DEF WalletsInv, TypeOK
  <2>3. -HireCost(crew[<<u, a>>]) \in Int
    BY <2>2 DEF HireCost
  <2>4. PaidUpTo(u, a, crew[<<u, a>>])
    BY <2>2 DEF WalletsInv, CrewPaidFor
  <2>5. PICK n, d : n = crew[<<u, a>>] /\ d = -HireCost(n)
    OBVIOUS
  <2>6. QED BY <2>1, <2>2, <2>3, <2>4, <2>5, BeginLemma DEF LedgerReason
<1>4. CASE RentBegin(s)
  <2>1. PICK r \in Rentals : /\ OwnerOf[r] \in accounts
                             /\ Begin(s, "read_wallet", OwnerOf[r], -RentalFee, "rental_fee", r, 0)
    BY <1>4 DEF RentBegin
  <2>2. OwnerOf[r] \in Users /\ -RentalFee \in Int
    OBVIOUS
  <2>3. QED BY <2>1, <2>2, BeginLemma DEF LedgerReason
<1>5. CASE ClaimBegin(s)
  <2>1. PICK r \in Rentals :
          /\ rental[r] = "open"
          /\ Begin(s, "read_wallet", OwnerOf[r], SettlementCredits, "settlement", r, 0)
    BY <1>5 DEF ClaimBegin
  <2>2. OwnerOf[r] \in accounts
    BY <2>1 DEF WalletsInv, RentersInv
  <2>3. OwnerOf[r] \in Users /\ SettlementCredits \in Int
    OBVIOUS
  <2>4. QED BY <2>1, <2>2, <2>3, BeginLemma DEF LedgerReason
<1>6. QED BY <1>1, <1>2, <1>3, <1>4, <1>5 DEF Arrive

(* apply_ledger_entry goes on only if the balance it has read can pay.     *)
LEMMA ReadWalletInv ==
  ASSUME WalletsInv, NEW s \in Sessions, ReadWallet(s)
  PROVE  WalletsInv'
<1>1. TypeOK /\ pc[s] = "read_wallet" /\ JobInv(s)
  BY DEF ReadWallet, Goto, WalletsInv, SessionsInv
<1>2. /\ pc' = [pc EXCEPT ![s] = "update_wallet"]
      /\ loaded' = [loaded EXCEPT ![s] = balance[job[s].user]]
      /\ balance[job[s].user] + job[s].delta >= 0
      /\ UNCHANGED <<shared, locks, job, seen>>
  BY DEF ReadWallet, Goto, Affordable
<1>3. balance[job[s].user] \in Nat /\ overlapped' \in SUBSET Users
  BY <1>1 DEF JobInv, Entry, TypeOK, ReadWallet
<1>4. TypeOK'
  BY <1>1, <1>2, <1>3 DEF TypeOK, PC, shared, locks
<1>5. KeysInv'
  BY <1>2 DEF WalletsInv, KeysInv, shared, locks
<1>6. \A t \in Sessions \ {s} : Apart(t)
  BY <1>1, <1>2 DEF TypeOK, Apart, locks
<1>7. pc'[s] = "update_wallet" /\ loaded'[s] = balance[job[s].user]
  BY <1>1, <1>2 DEF TypeOK
<1>8. JobInv(s)'
  BY <1>1, <1>2, <1>7 DEF JobInv, Charging, shared, locks, PaidUpTo, Posted
<1>9. QED BY <1>2, <1>4, <1>5, <1>6, <1>8, QuietLemma

(* Taking the row lock of the wallet changes nothing that was read.        *)
LEMMA UpdateWalletInv ==
  ASSUME WalletsInv, NEW s \in Sessions, UpdateWallet(s)
  PROVE  WalletsInv'
<1>1. TypeOK /\ pc[s] = "update_wallet" /\ JobInv(s)
  BY DEF UpdateWallet, Goto, WalletsInv, SessionsInv
<1>2. /\ pc' = [pc EXCEPT ![s] = "finish"]
      /\ walletLock' = [walletLock EXCEPT ![job[s].user] = s]
      /\ UNCHANGED <<shared, inserting, job, loaded, seen, overlapped>>
  BY DEF UpdateWallet, Goto
<1>3. TypeOK'
  BY <1>1, <1>2 DEF TypeOK, PC, shared
<1>4. KeysInv'
  BY <1>2 DEF WalletsInv, KeysInv, shared
<1>5. \A t \in Sessions \ {s} : Apart(t)
  BY <1>1, <1>2 DEF TypeOK, Apart
<1>6. pc'[s] = "finish"
  BY <1>1, <1>2 DEF TypeOK
<1>7. JobInv(s)'
  BY <1>1, <1>2, <1>6 DEF JobInv, Charging, shared, PaidUpTo, Posted
<1>8. QED BY <1>2, <1>3, <1>4, <1>5, <1>7, QuietLemma

(* Inserting a licence makes its key the session's own.                    *)
LEMMA UnlockInsertInv ==
  ASSUME WalletsInv, NEW s \in Sessions, UnlockInsert(s)
  PROVE  WalletsInv'
<1> DEFINE k == <<job[s].user, job[s].about>>
<1>1. TypeOK /\ pc[s] = "insert_licence" /\ JobInv(s)
  BY DEF UnlockInsert, Goto, WalletsInv, SessionsInv
<1>2. /\ pc' = [pc EXCEPT ![s] = "read_wallet"]
      /\ inserting' = [inserting EXCEPT ![k] = s]
      /\ job[s].about \notin unlocked[job[s].user] /\ inserting[k] = None
      /\ UNCHANGED <<shared, walletLock, job, loaded, seen, overlapped>>
  BY DEF UnlockInsert, Goto, KeyIsFree
<1>3. k \in Users \X Licences
  BY <1>1 DEF JobInv, Entry
<1>4. TypeOK'
  BY <1>1, <1>2, <1>3 DEF TypeOK, PC, shared
<1>5. KeysInv'
  BY <1>1, <1>2, <1>3 DEF WalletsInv, KeysInv, TypeOK, shared
<1>6. \A t \in Sessions \ {s} : Apart(t)
  BY <1>1, <1>2 DEF TypeOK, Apart
<1>7. pc'[s] = "read_wallet" /\ inserting'[k] = s
  BY <1>1, <1>2, <1>3 DEF TypeOK
<1>8. JobInv(s)'
  BY <1>1, <1>2, <1>7 DEF JobInv, Charging, shared
<1>9. QED BY <1>2, <1>4, <1>5, <1>6, <1>8, QuietLemma

(* A refused or failed request leaves no trace.                            *)
LEMMA GiveUpInv ==
  ASSUME WalletsInv, NEW s \in Sessions, EndSession(s), UNCHANGED shared
  PROVE  WalletsInv'
<1>1. TypeOK'
  BY EndLemma DEF WalletsInv, TypeOK, shared
<1>2. KeysInv'
  BY EndLemma DEF WalletsInv, KeysInv, shared
<1>3. QED BY <1>1, <1>2, EndLemma, QuietLemma DEF WalletsInv

-------------------------------------------------------------------------------
(* The commits.                                                            *)

(* What every commit keeps, given its effect on licences and crew.         *)
LEMMA CommitLemma ==
  ASSUME WalletsInv, NEW s \in Sessions, JobInv(s), EndSession(s),
         Posts(job[s].user, job[s]),
         accounts' = accounts \cup {job[s].user},
         job[s].reason = "signup_bonus" <=> job[s].user \notin accounts,
         balance' \in [Users -> Nat], unlocked' \in [Users -> SUBSET Licences],
         active' \in SUBSET (Airports \cap Licences), crew' \in [Users \X Airports -> Nat],
         rental' \in [Rentals -> {"absent", "open", "claimed"}],
         KeysInv', RentersInv', LicencePaidOnce',
         LedgerStep => CrewPaidFor'
  PROVE  WalletsInv'
<1> DEFINE v == job[s].user  e == job[s]
<1>1. v \in Users /\ e \in Entry /\ TypeOK
  BY DEF JobInv, Entry, WalletsInv
<1>2. PICK w \in Users, x \in Entry : w = v /\ x = e
  BY <1>1
<1>3. Posts(w, x)
  BY <1>2 DEF Posts
<1>4. LedgerStep /\ AccountsInv' /\ BonusOpensLedger' /\ ledger' \in [Users -> Seq(Entry)]
  BY <1>1, <1>2, <1>3, PostedLemma, PostsLemma
<1>5. SessionsInv'
  BY <1>1, <1>4, EndLemma, SessionsLemma
<1>6. accounts' \in SUBSET Users
  BY <1>1 DEF TypeOK
<1>7. /\ pc' \in [Sessions -> PC] /\ job' \in [Sessions -> Entry \cup {None}]
      /\ loaded' \in [Sessions -> Nat] /\ seen' \in [Sessions -> Nat]
      /\ walletLock' \in [Users -> Sessions \cup {None}]
      /\ inserting' \in [Users \X Licences -> Sessions \cup {None}]
      /\ overlapped' \in SUBSET Users
  BY <1>1, EndLemma DEF TypeOK
<1>8. TypeOK'
  BY <1>4, <1>6, <1>7 DEF TypeOK
<1>9. QED BY <1>4, <1>5, <1>8 DEF WalletsInv

(* The new balance is computed from a balance that could pay, even when it *)
(* is stale.                                                               *)
LEMMA PostLemma ==
  ASSUME WalletsInv, NEW s \in Sessions, pc[s] = "finish", Post(s), UNCHANGED accounts
  PROVE  /\ JobInv(s) /\ EndSession(s) /\ job[s] \in Entry
         /\ Posts(job[s].user, job[s]) /\ balance' \in [Users -> Nat]
         /\ accounts' = accounts \cup {job[s].user}
         /\ job[s].reason # "signup_bonus" /\ job[s].user \in accounts
<1>1. JobInv(s) /\ TypeOK
  BY DEF WalletsInv, SessionsInv
<1>2. loaded[s] + job[s].delta \in Nat
  BY <1>1 DEF JobInv, Entry, TypeOK
<1>3. balance' \in [Users -> Nat]
  BY <1>1, <1>2 DEF Post, TypeOK
<1>4. QED BY <1>1, <1>3 DEF JobInv, Post, Posts

(* No crew changes.                                                        *)
LEMMA SameCrewLemma ==
  ASSUME WalletsInv, LedgerStep, UNCHANGED crew
  PROVE  CrewPaidFor'
  BY CrewLemma

(* Committing a rental with its fee, or a claim with its reward.           *)
LEMMA RentalCommitInv ==
  ASSUME WalletsInv, NEW s \in Sessions, RentCommit(s) \/ ClaimCommit(s)
  PROVE  WalletsInv'
<1>1. PICK st \in {"open", "claimed"} :
        /\ pc[s] = "finish" /\ job[s].reason \in {"rental_fee", "settlement"}
        /\ rental' = [rental EXCEPT ![job[s].about] = st]
        /\ Post(s) /\ UNCHANGED <<accounts, unlocked, active, crew>>
  BY DEF RentCommit, ClaimCommit, Finishing
<1>2. /\ JobInv(s) /\ EndSession(s) /\ job[s] \in Entry
      /\ Posts(job[s].user, job[s]) /\ balance' \in [Users -> Nat]
      /\ accounts' = accounts \cup {job[s].user}
      /\ job[s].reason # "signup_bonus" /\ job[s].user \in accounts
  BY <1>1, PostLemma
<1>3. PICK v \in Users, e \in Entry : v = job[s].user /\ e = job[s]
  BY <1>2 DEF Entry
<1>4. LicencePaidOnce'
  <2>1. Posts(v, e) /\ e.reason # "license_purchase"
    BY <1>1, <1>2, <1>3 DEF Posts
  <2>2. QED BY <1>1, <2>1, NoLicenceLemma
<1>5. KeysInv'
  BY <1>1, <1>2, EndLemma DEF WalletsInv, KeysInv
<1>6. RentersInv'
  BY <1>1, <1>2 DEF WalletsInv, RentersInv, JobInv, TypeOK
<1>7. /\ unlocked' \in [Users -> SUBSET Licences] /\ active' \in SUBSET (Airports \cap Licences)
      /\ crew' \in [Users \X Airports -> Nat]
      /\ rental' \in [Rentals -> {"absent", "open", "claimed"}]
  BY <1>1 DEF WalletsInv, TypeOK
<1>8. LedgerStep => CrewPaidFor'
  BY <1>1, SameCrewLemma
<1>9. QED BY <1>2, <1>4, <1>5, <1>6, <1>7, <1>8, CommitLemma

(* Committing a licence: its key was this session's, so it was unpaid.     *)
LEMMA UnlockCommitInv ==
  ASSUME WalletsInv, NEW s \in Sessions, UnlockCommit(s)
  PROVE  WalletsInv'
<1>1. /\ pc[s] = "finish" /\ job[s].reason = "license_purchase"
      /\ unlocked' = [unlocked EXCEPT ![job[s].user] = @ \cup {job[s].about}]
      /\ active' = active \cup ({job[s].about} \cap Airports)
      /\ Post(s) /\ UNCHANGED <<accounts, crew, rental>>
  BY DEF UnlockCommit, Finishing
<1>2. /\ JobInv(s) /\ EndSession(s) /\ job[s] \in Entry
      /\ Posts(job[s].user, job[s]) /\ balance' \in [Users -> Nat]
      /\ accounts' = accounts \cup {job[s].user}
      /\ job[s].reason # "signup_bonus" /\ job[s].user \in accounts
  BY <1>1, PostLemma
<1>3. PICK v \in Users, e \in Entry : v = job[s].user /\ e = job[s]
  BY <1>2 DEF Entry
<1>4. /\ e.about \in Licences /\ inserting[<<v, e.about>>] = s
      /\ e.about \notin unlocked[v]
  BY <1>1, <1>2, <1>3 DEF JobInv, Charging, WalletsInv, KeysInv
<1>5. LicencePaidOnce'
  <2>1. Posts(v, e) /\ e.reason = "license_purchase"
    BY <1>1, <1>2, <1>3 DEF Posts
  <2>2. QED BY <1>1, <1>3, <1>4, <2>1, LicenceLemma
<1>6. KeysInv'
  <2>1. \A k \in Users \X Licences :
          inserting'[k] # s /\ (inserting'[k] # None => inserting'[k] = inserting[k])
    BY <1>2, EndLemma DEF WalletsInv
  <2>2. \A u \in Users : unlocked'[u] = IF u = v THEN unlocked[u] \cup {e.about} ELSE unlocked[u]
    BY <1>1, <1>3 DEF WalletsInv, TypeOK
  <2>3. SUFFICES ASSUME NEW u \in Users, NEW l \in Licences, inserting'[<<u, l>>] # None
                 PROVE  l \notin unlocked'[u]
    BY DEF KeysInv
  <2>4. inserting[<<u, l>>] # s /\ inserting[<<u, l>>] # None
    BY <2>1, <2>3
  <2>5. l \notin unlocked[u]
    BY <2>4 DEF WalletsInv, KeysInv
  <2>6. ~(u = v /\ l = e.about)
    BY <1>4, <2>4
  <2>7. QED BY <2>2, <2>5, <2>6
<1>7. /\ unlocked' \in [Users -> SUBSET Licences] /\ active' \in SUBSET (Airports \cap Licences)
      /\ crew' \in [Users \X Airports -> Nat]
      /\ rental' \in [Rentals -> {"absent", "open", "claimed"}] /\ RentersInv'
  BY <1>1, <1>3, <1>4 DEF WalletsInv, TypeOK, RentersInv
<1>8. LedgerStep => CrewPaidFor'
  BY <1>1, SameCrewLemma
<1>9. QED BY <1>2, <1>5, <1>6, <1>7, <1>8, CommitLemma

(* Committing a hire: the members up to the count read were paid for, and  *)
(* the entry posted now pays for the next.                                 *)
LEMMA HireCommitInv ==
  ASSUME WalletsInv, NEW s \in Sessions, HireCommit(s)
  PROVE  WalletsInv'
<1>1. /\ pc[s] = "finish" /\ job[s].reason = "crew_hire"
      /\ crew' = [crew EXCEPT ![<<job[s].user, job[s].about>>] = seen[s] + 1]
      /\ Post(s) /\ UNCHANGED <<accounts, unlocked, active, rental>>
  BY DEF HireCommit, Finishing
<1>2. /\ JobInv(s) /\ EndSession(s) /\ job[s] \in Entry
      /\ Posts(job[s].user, job[s]) /\ balance' \in [Users -> Nat]
      /\ accounts' = accounts \cup {job[s].user}
      /\ job[s].reason # "signup_bonus" /\ job[s].user \in accounts
  BY <1>1, PostLemma
<1>3. PICK v \in Users, e \in Entry, a \in Airports, n \in Nat :
        v = job[s].user /\ e = job[s] /\ a = job[s].about /\ n = seen[s]
  BY <1>1, <1>2 DEF Entry, JobInv, WalletsInv, TypeOK
<1>4. Posts(v, e) /\ e.reason = "crew_hire" /\ e.about = a /\ e.delta = -HireCost(n)
  BY <1>1, <1>2, <1>3 DEF Posts, JobInv
<1>5. LicencePaidOnce'
  BY <1>1, <1>4, NoLicenceLemma
<1>6. KeysInv'
  BY <1>1, <1>2, EndLemma DEF WalletsInv, KeysInv
<1>7. crew' = [crew EXCEPT ![<<v, a>>] = n + 1]
  BY <1>1, <1>3
<1>8. /\ unlocked' \in [Users -> SUBSET Licences] /\ active' \in SUBSET (Airports \cap Licences)
      /\ crew' \in [Users \X Airports -> Nat]
      /\ rental' \in [Rentals -> {"absent", "open", "claimed"}] /\ RentersInv'
  <2>1. crew \in [Users \X Airports -> Nat] /\ n + 1 \in Nat /\ TypeOK
    BY DEF WalletsInv, TypeOK
  <2>2. crew' \in [Users \X Airports -> Nat]
    BY <1>7, <2>1
  <2>3. QED BY <1>1, <2>1, <2>2 DEF WalletsInv, TypeOK, RentersInv
<1>9. ASSUME LedgerStep
      PROVE  CrewPaidFor'
  <2>1. PaidUpTo(v, a, n)
    BY <1>1, <1>2, <1>3 DEF JobInv
  <2>2. PaidUpTo(v, a, n)'
    BY <1>9, <2>1, PaidLemma DEF WalletsInv
  <2>3. PICK i \in Nat : i = Len(ledger[v]) + 1
    BY <1>4, PostsLemma DEF WalletsInv
  <2>4. Posted(v, i, "crew_hire", a)' /\ ledger'[v][i].delta = -HireCost(n)
    BY <1>4, <2>3, PostsLemma DEF WalletsInv, Posted
  <2>5. PaidUpTo(v, a, n + 1)'
    <3>1. SUFFICES ASSUME NEW m \in 1 .. n + 1, ~(m = 1 /\ a \in StarterCrew)
                   PROVE  \E j \in 1 .. Len(ledger'[v]) :
                            /\ Posted(v, j, "crew_hire", a)'
                            /\ ledger'[v][j].delta = -HireCost(m - 1)
      BY DEF PaidUpTo
    <3>2. CASE m \in 1 .. n
      BY <2>2, <3>1, <3>2 DEF PaidUpTo
    <3>3. CASE m = n + 1
      <4>1. m - 1 = n /\ i \in 1 .. Len(ledger'[v])
        BY <2>4, <3>3 DEF Posted
      <4>2. QED BY <2>4, <4>1
    <3>4. QED BY <3>1, <3>2, <3>3
  <2>6. ASSUME NEW u \in Users, NEW b \in Airports
        PROVE  crew'[<<u, b>>] = crew[<<u, b>>] \/ PaidUpTo(u, b, crew[<<u, b>>])'
    <3>1. CASE u = v /\ b = a
      <4>1. crew'[<<u, b>>] = n + 1
        BY <1>7, <3>1 DEF WalletsInv, TypeOK
      <4>2. QED BY <2>5, <3>1, <4>1 DEF PaidUpTo, Posted
    <3>2. CASE ~(u = v /\ b = a)
      BY <1>7, <3>2 DEF WalletsInv, TypeOK
    <3>3. QED BY <3>1, <3>2
  <2>7. QED BY <1>9, <2>6, CrewLemma
<1>10. QED BY <1>2, <1>5, <1>6, <1>8, <1>9, CommitLemma

(* Committing a signup: the account is new and gets its starter crew.      *)
LEMMA SignupCommitInv ==
  ASSUME WalletsInv, NEW s \in Sessions, SignupCommit(s)
  PROVE  WalletsInv'
<1>1. /\ pc[s] = "signup" /\ job[s].user \notin accounts
      /\ accounts' = accounts \cup {job[s].user}
      /\ balance' = [balance EXCEPT ![job[s].user] = job[s].delta]
      /\ ledger' = [ledger EXCEPT ![job[s].user] = Append(@, job[s])]
      /\ crew' = [c \in Users \X Airports |->
                    IF c[1] = job[s].user /\ c[2] \in StarterCrew THEN 1 ELSE crew[c]]
      /\ EndSession(s) /\ UNCHANGED <<unlocked, active, rental>>
  BY DEF SignupCommit, EmailIsNew
<1>2. TypeOK /\ JobInv(s)
  BY <1>1 DEF WalletsInv, SessionsInv
<1>3. PICK v \in Users, e \in Entry : v = job[s].user /\ e = job[s]
  BY <1>2 DEF JobInv, Entry
<1>4. e.reason = "signup_bonus" /\ e.delta = SIGNUP_BONUS_CREDITS
  BY <1>1, <1>2, <1>3 DEF JobInv
<1>5. Posts(v, e) /\ Posts(job[s].user, job[s])
  BY <1>1, <1>3 DEF Posts
<1>6. LicencePaidOnce'
  BY <1>1, <1>4, <1>5, NoLicenceLemma
<1>7. KeysInv'
  BY <1>1, <1>2, EndLemma DEF WalletsInv, KeysInv
<1>8. RentersInv'
  BY <1>1 DEF WalletsInv, RentersInv
<1>9. /\ balance' \in [Users -> Nat] /\ unlocked' \in [Users -> SUBSET Licences]
      /\ active' \in SUBSET (Airports \cap Licences) /\ crew' \in [Users \X Airports -> Nat]
      /\ rental' \in [Rentals -> {"absent", "open", "claimed"}]
  BY <1>1, <1>2, <1>3, <1>4 DEF TypeOK
<1>10. ASSUME LedgerStep
       PROVE  CrewPaidFor'
  <2>1. ASSUME NEW u \in Users, NEW a \in Airports
        PROVE  crew'[<<u, a>>] = crew[<<u, a>>] \/ PaidUpTo(u, a, crew[<<u, a>>])'
    <3>1. CASE u = v /\ a \in StarterCrew
      <4>1. crew'[<<u, a>>] = 1
        BY <1>1, <1>3, <3>1
      <4>2. QED BY <3>1, <4>1 DEF PaidUpTo
    <3>2. CASE ~(u = v /\ a \in StarterCrew)
      BY <1>1, <1>3, <3>2
    <3>3. QED BY <3>1, <3>2
  <2>2. QED BY <1>10, <2>1, CrewLemma
<1>11. QED BY <1>1, <1>2, <1>3, <1>4, <1>5, <1>6, <1>7, <1>8, <1>9, <1>10, CommitLemma

-------------------------------------------------------------------------------
(* The empty tables satisfy the invariant.                                 *)
LEMMA InitInv == Init => WalletsInv
  BY DEF Init, WalletsInv, TypeOK, PC, SessionsInv, KeysInv, AccountsInv, RentersInv,
     LicencePaidOnce, BonusOpensLedger, CrewPaidFor, PaidUpTo, Posted

(* Every step keeps the invariant, one case per action.                    *)
LEMMA NextInv ==
  ASSUME WalletsInv, [Next]_vars
  PROVE  WalletsInv'
<1>1. ASSUME NEW s \in Sessions, Arrive(s) \/ Proceed(s) \/ Fail(s)
      PROVE  WalletsInv'
  <2>1. CASE Arrive(s)
    BY <2>1, ArriveInv
  <2>2. CASE SignupCommit(s)
    BY <2>2, SignupCommitInv
  <2>3. CASE UnlockInsert(s)
    BY <2>3, UnlockInsertInv
  <2>4. CASE UnlockCommit(s)
    BY <2>4, UnlockCommitInv
  <2>5. CASE HireCommit(s)
    BY <2>5, HireCommitInv
  <2>6. CASE RentCommit(s) \/ ClaimCommit(s)
    BY <2>6, RentalCommitInv
  <2>7. CASE ReadWallet(s)
    BY <2>7, ReadWalletInv
  <2>8. CASE UpdateWallet(s)
    BY <2>8, UpdateWalletInv
  <2>9. CASE Refuse(s) \/ Fail(s)
    BY <2>9, GiveUpInv DEF Refuse, Fail
  <2>10. QED
    BY <1>1, <2>1, <2>2, <2>3, <2>4, <2>5, <2>6, <2>7, <2>8, <2>9 DEF Proceed
<1>2. CASE UNCHANGED vars
  <2>1. UNCHANGED <<shared, locks, pc, job, loaded, seen, overlapped>>
    BY <1>2 DEF vars, session
  <2>2. TypeOK' /\ KeysInv'
    BY <2>1 DEF WalletsInv, TypeOK, KeysInv, shared, locks
  <2>3. SessionsInv'
    BY <2>1 DEF WalletsInv, SessionsInv, JobInv, PaidUpTo, Posted, shared, locks
  <2>4. QED BY <2>1, <2>2, <2>3, SharedLemma DEF WalletsInv
<1>3. QED BY <1>1, <1>2 DEF Next

(* The inductive invariant holds in every reachable state.                 *)
THEOREM WalletsInvariant == Spec => []WalletsInv
<1>1. Init => WalletsInv
  BY InitInv
<1>2. WalletsInv /\ [Next]_vars => WalletsInv'
  BY NextInv
<1>3. QED BY <1>1, <1>2, PTL DEF Spec

(* Every variable keeps its type; the balance of no wallet is ever         *)
(* negative, although balances are computed from stale reads.              *)
THEOREM WalletsTypeCorrect == Spec => []TypeOK
<1>1. WalletsInv => TypeOK
  BY DEF WalletsInv
<1>2. QED BY <1>1, WalletsInvariant, PTL

(* A licence is paid for exactly once by the user who has it: inserting    *)
(* the unlock before the debit leaves no way to charge twice.              *)
THEOREM LicenceIsPaidOnce == Spec => []LicencePaidOnce
<1>1. WalletsInv => LicencePaidOnce
  BY DEF WalletsInv
<1>2. QED BY <1>1, WalletsInvariant, PTL

(* The signup bonus is granted once, before anything is bought.            *)
THEOREM BonusComesFirst == Spec => []BonusOpensLedger
<1>1. WalletsInv => BonusOpensLedger
  BY DEF WalletsInv
<1>2. QED BY <1>1, WalletsInvariant, PTL

(* No crew member is got for less than his price, however hires overlap.   *)
THEOREM CrewIsPaidFor == Spec => []CrewPaidFor
<1>1. WalletsInv => CrewPaidFor
  BY DEF WalletsInv
<1>2. QED BY <1>1, WalletsInvariant, PTL
-------------------------------------------------------------------------------
(* The running total of a ledger.                                          *)

\* The recursive definition of RunningTotal has a solution.
LEMMA RunningTotalIs ==
  ASSUME NEW entries, Len(entries) \in Nat
  PROVE  RunningTotal(entries) =
           [n \in 0 .. Len(entries) |->
              IF n = 0 THEN 0 ELSE RunningTotal(entries)[n - 1] + entries[n].delta]
<1> DEFINE Solves(f, n) == f = [i \in 0 .. n |-> IF i = 0 THEN 0 ELSE f[i - 1] + entries[i].delta]
           S == {n \in Nat : \E f : Solves(f, n)}
<1>1. 0 \in S
  <2>1. Solves([i \in 0 .. 0 |-> 0], 0)
    OBVIOUS
  <2>2. QED BY <2>1
<1>2. \A n \in Nat : n \in S => n + 1 \in S
  <2>1. SUFFICES ASSUME NEW n \in Nat, n \in S PROVE n + 1 \in S
    OBVIOUS
  <2>2. PICK f : Solves(f, n)
    BY <2>1
  <2> DEFINE g == [i \in 0 .. n + 1 |-> IF i = n + 1 THEN f[n] + entries[n + 1].delta ELSE f[i]]
  <2>3. ASSUME NEW i \in 0 .. n + 1
        PROVE  g[i] = IF i = 0 THEN 0 ELSE g[i - 1] + entries[i].delta
    <3>1. CASE i = 0
      BY <3>1, <2>2
    <3>2. CASE i # 0 /\ i # n + 1
      <4>1. i \in 0 .. n /\ i - 1 \in 0 .. n /\ i - 1 # n + 1
        BY <3>2
      <4>2. f[i] = f[i - 1] + entries[i].delta
        BY <4>1, <3>2, <2>2
      <4>3. QED BY <4>1, <4>2, <3>2
    <3>3. CASE i = n + 1
      <4>1. i - 1 = n /\ n \in 0 .. n + 1 /\ n # n + 1 /\ i # 0
        BY <3>3
      <4>2. QED BY <4>1, <3>3
    <3>4. QED BY <3>1, <3>2, <3>3
  <2>4. Solves(g, n + 1)
    BY <2>3
  <2> HIDE DEF Solves, g
  <2>5. QED BY <2>4
<1>3. Nat \subseteq S
  <2> HIDE DEF S
  <2>1. QED BY <1>1, <1>2, SetInduction
<1>4. PICK f : Solves(f, Len(entries))
  BY <1>3
<1>5. RunningTotal(entries) = CHOOSE g : Solves(g, Len(entries))
  BY DEF RunningTotal
<1>6. Solves(CHOOSE g : Solves(g, Len(entries)), Len(entries))
  <2> HIDE DEF Solves
  <2>1. QED BY <1>4
<1>7. QED BY <1>5, <1>6

LEMMA RunningTotalSteps ==
  ASSUME NEW entries, Len(entries) \in Nat
  PROVE  /\ RunningTotal(entries)[0] = 0
         /\ \A n \in 1 .. Len(entries) :
              RunningTotal(entries)[n] = RunningTotal(entries)[n - 1] + entries[n].delta
<1> DEFINE R == RunningTotal(entries)
<1>1. R = [n \in 0 .. Len(entries) |-> IF n = 0 THEN 0 ELSE R[n - 1] + entries[n].delta]
  BY RunningTotalIs
<1> HIDE DEF R
<1>2. 0 \in 0 .. Len(entries) /\ \A n \in 1 .. Len(entries) : n \in 0 .. Len(entries) /\ n # 0
  OBVIOUS
<1>3. R[0] = 0 /\ \A n \in 1 .. Len(entries) : R[n] = R[n - 1] + entries[n].delta
  BY <1>1, <1>2
<1>4. QED BY <1>3 DEF R

(* An entry at the end of a ledger adds its delta to the total.            *)
LEMMA TotalOfAppend ==
  ASSUME NEW entries \in Seq(Entry), NEW e \in Entry
  PROVE  /\ Len(Append(entries, e)) = Len(entries) + 1
         /\ RunningTotal(Append(entries, e))[Len(entries) + 1]
              = RunningTotal(entries)[Len(entries)] + e.delta
<1>1. PICK m \in Nat : m = Len(entries)
  OBVIOUS
<1>2. PICK longer : longer = Append(entries, e)
  OBVIOUS
<1>3. /\ Len(longer) = m + 1 /\ longer[m + 1] = e
      /\ \A i \in 1 .. m : longer[i] = entries[i]
  BY <1>1, <1>2
<1> DEFINE R == RunningTotal(entries)
           Q == RunningTotal(longer)
           S == {n \in Nat : n <= m => Q[n] = R[n]}
<1>4. /\ R[0] = 0 /\ Q[0] = 0
      /\ \A n \in 1 .. m : R[n] = R[n - 1] + entries[n].delta
      /\ \A n \in 1 .. m + 1 : Q[n] = Q[n - 1] + longer[n].delta
  <2>1. Len(entries) = m /\ Len(longer) = m + 1 /\ m + 1 \in Nat
    BY <1>1, <1>3
  <2>2. R[0] = 0 /\ \A n \in 1 .. Len(entries) : R[n] = R[n - 1] + entries[n].delta
    BY <2>1, RunningTotalSteps
  <2>3. Q[0] = 0 /\ \A n \in 1 .. Len(longer) : Q[n] = Q[n - 1] + longer[n].delta
    BY <2>1, RunningTotalSteps
  <2> HIDE DEF R, Q
  <2>4. QED BY <2>1, <2>2, <2>3
<1> HIDE DEF R, Q
<1>5. 0 \in S
  BY <1>4
<1>6. \A n \in Nat : n \in S => n + 1 \in S
  <2>1. SUFFICES ASSUME NEW n \in Nat, n \in S, n + 1 <= m PROVE Q[n + 1] = R[n + 1]
    OBVIOUS
  <2>2. PICK k \in 1 .. m : k = n + 1 /\ k - 1 = n /\ k \in 1 .. m + 1
    BY <2>1
  <2>3. R[k] = R[n] + entries[k].delta /\ Q[k] = Q[n] + longer[k].delta
    BY <1>4, <2>2
  <2>4. Q[n] = R[n] /\ longer[k] = entries[k]
    BY <1>3, <2>1, <2>2
  <2>5. QED BY <2>2, <2>3, <2>4
<1>7. Nat \subseteq S
  <2> HIDE DEF S
  <2>1. QED BY <1>5, <1>6, SetInduction
<1>8. Q[m] = R[m]
  BY <1>1, <1>7
<1>9. Q[m + 1] = Q[m] + e.delta
  <2>1. m + 1 \in 1 .. m + 1 /\ (m + 1) - 1 = m
    OBVIOUS
  <2>2. QED BY <1>3, <1>4, <2>1
<1>10. QED BY <1>1, <1>2, <1>3, <1>8, <1>9 DEF R, Q

(* A commit of user v that posts entry e moves the sum of his ledger by    *)
(* e.delta and no other sum.                                               *)
LEMMA PostedSum ==
  ASSUME TypeOK, NEW v \in Users, NEW e \in Entry, Posts(v, e)
  PROVE  /\ LedgerSum(v)' = LedgerSum(v) + e.delta
         /\ \A u \in Users \ {v} : LedgerSum(u)' = LedgerSum(u)
<1>1. ledger[v] \in Seq(Entry) /\ ledger'[v] = Append(ledger[v], e)
  BY DEF TypeOK, Posts
<1>2. \A u \in Users \ {v} : ledger'[u] = ledger[u]
  BY PostsLemma
<1>3. \A u \in Users : LedgerSum(u)' = RunningTotal(ledger'[u])[Len(ledger'[u])]
  BY DEF LedgerSum, RunningTotal
<1>4. /\ Len(ledger'[v]) = Len(ledger[v]) + 1
      /\ RunningTotal(ledger'[v])[Len(ledger[v]) + 1]
           = RunningTotal(ledger[v])[Len(ledger[v])] + e.delta
  BY <1>1, TotalOfAppend
<1>5. LedgerSum(v)' = LedgerSum(v) + e.delta
  BY <1>3, <1>4 DEF LedgerSum
<1>6. \A u \in Users \ {v} : LedgerSum(u)' = LedgerSum(u)
  BY <1>2, <1>3 DEF LedgerSum
<1>7. QED BY <1>5, <1>6

-------------------------------------------------------------------------------
(* Requests that do not overlap.                                           *)

(* A step that posts nothing and reads no wallet.                          *)
LEMMA QuietSequential ==
  ASSUME SequentialInv, UNCHANGED <<balance, ledger, overlapped>>,
         \A t \in Sessions, u \in Users : Holding(t, u)' => Holding(t, u) /\ loaded'[t] = loaded[t]
  PROVE  SequentialInv'
<1>1. \A u \in Users : LedgerSum(u)' = LedgerSum(u)
  BY DEF LedgerSum, RunningTotal
<1>2. QED BY <1>1 DEF SequentialInv

(* The end of a session.                                                   *)
LEMMA EndHolding ==
  ASSUME TypeOK, NEW s \in Sessions, EndSession(s)
  PROVE  /\ \A t \in Sessions, u \in Users : Holding(t, u)' =>
              t # s /\ Holding(t, u) /\ loaded'[t] = loaded[t]
         /\ overlapped' = overlapped
<1>1. pc'[s] = "idle" /\ overlapped' = overlapped /\ \A t \in Sessions \ {s} : Apart(t)
  BY EndLemma
<1>2. QED BY <1>1 DEF Holding, Apart

(* A wallet is read while no other request holds it, or its user is no     *)
(* longer promised anything.                                               *)
LEMMA ReadSequential ==
  ASSUME WalletsInv, SequentialInv, NEW s \in Sessions, ReadWallet(s)
  PROVE  SequentialInv'
<1>1. TypeOK /\ pc[s] = "read_wallet" /\ JobInv(s)
  BY DEF ReadWallet, Goto, WalletsInv, SessionsInv
<1>2. PICK v \in Users : v = job[s].user
  BY <1>1 DEF JobInv, Entry
<1>3. /\ UNCHANGED <<balance, ledger, job>>
      /\ overlapped \subseteq overlapped'
      /\ v \notin overlapped' => \A t \in Sessions : ~Holding(t, v)
  BY <1>2 DEF ReadWallet, shared
<1>4. /\ pc'[s] = "update_wallet" /\ loaded'[s] = balance[v]
      /\ \A t \in Sessions \ {s} : pc'[t] = pc[t] /\ loaded'[t] = loaded[t]
  BY <1>1, <1>2 DEF ReadWallet, Goto, TypeOK
<1>5. \A t \in Sessions, u \in Users : Holding(t, u)' =>
        (t = s /\ u = v) \/ (Holding(t, u) /\ t # s)
  BY <1>2, <1>3, <1>4 DEF Holding
<1>6. \A u \in Users : LedgerSum(u)' = LedgerSum(u)
  BY <1>3 DEF LedgerSum, RunningTotal
<1>7. SUFFICES ASSUME NEW u \in Users, u \notin overlapped'
               PROVE  /\ balance'[u] = LedgerSum(u)'
                      /\ \A t, r \in Sessions : Holding(t, u)' =>
                           loaded'[t] = balance'[u] /\ (Holding(r, u)' => t = r)
  BY DEF SequentialInv
<1>8. /\ u \notin overlapped /\ balance'[u] = balance[u] /\ balance[u] = LedgerSum(u)
      /\ \A t, r \in Sessions : Holding(t, u) =>
           loaded[t] = balance[u] /\ (Holding(r, u) => t = r)
  BY <1>3, <1>7 DEF SequentialInv
<1>9. QED BY <1>3, <1>4, <1>5, <1>6, <1>7, <1>8

(* The commit of a request that has read and locked its wallet.            *)
LEMMA PostSequential ==
  ASSUME WalletsInv, SequentialInv, NEW s \in Sessions, pc[s] = "finish", Post(s)
  PROVE  SequentialInv'
<1>1. TypeOK /\ JobInv(s)
  BY DEF WalletsInv, SessionsInv
<1>2. PICK v \in Users, e \in Entry : v = job[s].user /\ e = job[s]
  BY <1>1 DEF JobInv, Entry
<1>3. /\ balance' = [balance EXCEPT ![v] = loaded[s] + e.delta]
      /\ Posts(v, e) /\ EndSession(s) /\ Holding(s, v)
  BY <1>2 DEF Post, Posts, Holding
<1>4. /\ LedgerSum(v)' = LedgerSum(v) + e.delta
      /\ \A u \in Users \ {v} : LedgerSum(u)' = LedgerSum(u)
  BY <1>1, <1>3, PostedSum
<1>5. /\ \A t \in Sessions, u \in Users : Holding(t, u)' =>
           t # s /\ Holding(t, u) /\ loaded'[t] = loaded[t]
      /\ overlapped' = overlapped
  BY <1>1, <1>3, EndHolding
<1>6. balance'[v] = loaded[s] + e.delta /\ \A u \in Users \ {v} : balance'[u] = balance[u]
  BY <1>1, <1>3 DEF TypeOK
<1>7. ASSUME NEW u \in Users \ overlapped'
      PROVE  /\ balance'[u] = LedgerSum(u)'
             /\ \A t, r \in Sessions : Holding(t, u)' =>
                  loaded'[t] = balance'[u] /\ (Holding(r, u)' => t = r)
  <2>1. /\ balance[u] = LedgerSum(u)
        /\ \A t, r \in Sessions : Holding(t, u) =>
             loaded[t] = balance[u] /\ (Holding(r, u) => t = r)
    BY <1>5 DEF SequentialInv
  <2>2. CASE u = v
    <3>1. loaded[s] = balance[u] /\ \A t \in Sessions : Holding(t, u) => t = s
      BY <1>3, <2>1, <2>2
    <3>2. \A t \in Sessions : ~Holding(t, u)'
      BY <1>5, <3>1
    <3>3. QED BY <1>4, <1>6, <2>1, <2>2, <3>1, <3>2
  <2>3. CASE u # v
    BY <1>4, <1>5, <1>6, <2>1, <2>3
  <2>4. QED BY <2>2, <2>3
<1>8. QED BY <1>7 DEF SequentialInv

(* The first entry of a ledger, and the balance with it.                   *)
LEMMA SignupSequential ==
  ASSUME WalletsInv, SequentialInv, NEW s \in Sessions, SignupCommit(s)
  PROVE  SequentialInv'
<1>1. TypeOK /\ JobInv(s)
  BY DEF WalletsInv, SessionsInv, SignupCommit
<1>2. PICK v \in Users, e \in Entry : v = job[s].user /\ e = job[s]
  BY <1>1 DEF JobInv, Entry
<1>3. /\ v \notin accounts /\ balance' = [balance EXCEPT ![v] = e.delta]
      /\ Posts(v, e) /\ EndSession(s)
  BY <1>2 DEF SignupCommit, EmailIsNew, Posts
<1>4. /\ LedgerSum(v)' = LedgerSum(v) + e.delta
      /\ \A u \in Users \ {v} : LedgerSum(u)' = LedgerSum(u)
  BY <1>1, <1>3, PostedSum
<1>5. LedgerSum(v) = 0
  <2>1. ledger[v] = <<>>
    BY <1>3 DEF WalletsInv, AccountsInv
  <2>2. Len(ledger[v]) = 0
    BY <2>1
  <2>3. QED BY <2>2, RunningTotalSteps DEF LedgerSum
<1>6. /\ \A t \in Sessions, u \in Users : Holding(t, u)' =>
           t # s /\ Holding(t, u) /\ loaded'[t] = loaded[t]
      /\ overlapped' = overlapped
  BY <1>1, <1>3, EndHolding
<1>7. \A t \in Sessions : ~Holding(t, v)
  <2>1. SUFFICES ASSUME NEW t \in Sessions, Holding(t, v) PROVE FALSE
    OBVIOUS
  <2>2. JobInv(t) /\ pc[t] # "signup" /\ job[t].user = v
    BY <2>1 DEF Holding, WalletsInv, SessionsInv
  <2>3. QED BY <1>3, <2>2 DEF JobInv
<1>8. balance'[v] = e.delta /\ e.delta \in Int /\ \A u \in Users \ {v} : balance'[u] = balance[u]
  BY <1>1, <1>3 DEF TypeOK, Entry
<1>9. ASSUME NEW u \in Users \ overlapped'
      PROVE  /\ balance'[u] = LedgerSum(u)'
             /\ \A t, r \in Sessions : Holding(t, u)' =>
                  loaded'[t] = balance'[u] /\ (Holding(r, u)' => t = r)
  <2>1. /\ balance[u] = LedgerSum(u)
        /\ \A t, r \in Sessions : Holding(t, u) =>
             loaded[t] = balance[u] /\ (Holding(r, u) => t = r)
    BY <1>6 DEF SequentialInv
  <2>2. CASE u = v
    BY <1>4, <1>5, <1>6, <1>7, <1>8, <2>2
  <2>3. CASE u # v
    BY <1>4, <1>6, <1>8, <2>1, <2>3
  <2>4. QED BY <2>2, <2>3
<1>10. QED BY <1>9 DEF SequentialInv

(* A request that begins has read no wallet yet.                           *)
LEMMA ArriveSequential ==
  ASSUME WalletsInv, SequentialInv, NEW s \in Sessions, Arrive(s)
  PROVE  SequentialInv'
<1>1. ASSUME NEW to \in {"signup", "insert_licence", "read_wallet"}, NEW u, NEW delta,
             NEW reason, NEW about, NEW count, Begin(s, to, u, delta, reason, about, count)
      PROVE  SequentialInv'
  <2>1. TypeOK
    BY DEF WalletsInv
  <2>2. /\ UNCHANGED <<balance, ledger, loaded, overlapped>> /\ pc'[s] = to
        /\ \A t \in Sessions \ {s} : pc'[t] = pc[t] /\ job'[t] = job[t]
    BY <1>1, <2>1 DEF Begin, Goto, shared, TypeOK
  <2>3. \A t \in Sessions, w \in Users : Holding(t, w)' => Holding(t, w)
    BY <1>1, <2>2 DEF Holding
  <2>4. QED BY <2>2, <2>3, QuietSequential
<1>2. CASE SignupBegin(s)
  BY <1>1, <1>2 DEF SignupBegin
<1>3. CASE UnlockBegin(s)
  BY <1>1, <1>3 DEF UnlockBegin
<1>4. CASE HireBegin(s)
  BY <1>1, <1>4 DEF HireBegin
<1>5. CASE RentBegin(s)
  BY <1>1, <1>5 DEF RentBegin
<1>6. CASE ClaimBegin(s)
  BY <1>1, <1>6 DEF ClaimBegin
<1>7. QED BY <1>2, <1>3, <1>4, <1>5, <1>6 DEF Arrive

LEMMA NextSequential ==
  ASSUME WalletsInv, SequentialInv, [Next]_vars
  PROVE  SequentialInv'
<1>1. TypeOK
  BY DEF WalletsInv
<1>2. ASSUME NEW s \in Sessions, Arrive(s) \/ Proceed(s) \/ Fail(s)
      PROVE  SequentialInv'
  <2>1. CASE Arrive(s)
    BY <2>1, ArriveSequential
  <2>2. CASE SignupCommit(s)
    BY <2>2, SignupSequential
  <2>3. CASE UnlockCommit(s) \/ HireCommit(s) \/ RentCommit(s) \/ ClaimCommit(s)
    BY <2>3, PostSequential DEF UnlockCommit, HireCommit, RentCommit, ClaimCommit, Finishing
  <2>4. CASE ReadWallet(s)
    BY <2>4, ReadSequential
  <2>5. CASE UnlockInsert(s)
    <3>1. /\ UNCHANGED <<balance, ledger, job, loaded, overlapped>>
          /\ \A t \in Sessions : pc'[t] = IF t = s THEN "read_wallet" ELSE pc[t]
      BY <1>1, <2>5 DEF UnlockInsert, Goto, shared, TypeOK
    <3>2. \A t \in Sessions, u \in Users : Holding(t, u)' => Holding(t, u)
      BY <3>1 DEF Holding
    <3>3. QED BY <3>1, <3>2, QuietSequential
  <2>6. CASE UpdateWallet(s)
    <3>1. /\ UNCHANGED <<balance, ledger, job, loaded, overlapped>> /\ pc[s] = "update_wallet"
          /\ \A t \in Sessions : pc'[t] = IF t = s THEN "finish" ELSE pc[t]
      BY <1>1, <2>6 DEF UpdateWallet, Goto, shared, TypeOK
    <3>2. \A t \in Sessions, u \in Users : Holding(t, u)' => Holding(t, u)
      BY <3>1 DEF Holding
    <3>3. QED BY <3>1, <3>2, QuietSequential
  <2>7. CASE Refuse(s) \/ Fail(s)
    <3>1. EndSession(s) /\ UNCHANGED <<balance, ledger>>
      BY <2>7 DEF Refuse, Fail, shared
    <3>2. QED BY <1>1, <3>1, EndHolding, QuietSequential
  <2>8. QED BY <1>2, <2>1, <2>2, <2>3, <2>4, <2>5, <2>6, <2>7 DEF Proceed
<1>3. CASE UNCHANGED vars
  <2>1. UNCHANGED <<balance, ledger, overlapped, pc, job, loaded>>
    BY <1>3 DEF vars, shared, session
  <2>2. QED BY <2>1, QuietSequential DEF Holding
<1>4. QED BY <1>2, <1>3 DEF Next

(* A user whose requests never overlap between read and commit has what    *)
(* his ledger adds up to (apply_ledger_entry).                             *)
THEOREM SequentialBalanceHolds == Spec => []SequentialBalance
<1>1. Init => SequentialInv
  <2>1. SUFFICES ASSUME Init PROVE SequentialInv
    OBVIOUS
  <2>2. \A u \in Users : LedgerSum(u) = 0 /\ balance[u] = 0
    <3>1. \A u \in Users : ledger[u] = <<>> /\ balance[u] = 0
      BY <2>1 DEF Init
    <3>2. Len(<<>>) = 0
      OBVIOUS
    <3>3. RunningTotal(<<>>)[0] = 0
      BY <3>2, RunningTotalSteps
    <3>4. QED BY <3>1, <3>2, <3>3 DEF LedgerSum
  <2>3. QED BY <2>1, <2>2 DEF Init, SequentialInv, Holding
<1>2. WalletsInv /\ SequentialInv /\ [Next]_vars => SequentialInv'
  BY NextSequential
<1>3. SequentialInv => SequentialBalance
  BY DEF SequentialInv, SequentialBalance
<1>4. QED BY <1>1, <1>2, <1>3, WalletsInvariant, PTL DEF Spec

-------------------------------------------------------------------------------
(* Hires that do not overlap.                                              *)

LEMMA HiresFinite ==
  ASSUME TypeOK, NEW c \in Crews
  PROVE  IsFiniteSet(Hires(c)) /\ Cardinality(Hires(c)) \in Nat
<1>1. Len(ledger[c[1]]) \in Nat
  BY DEF TypeOK, Crews
<1>2. IsFiniteSet(1 .. Len(ledger[c[1]]))
  BY <1>1, FS_Interval
<1>3. Hires(c) \in SUBSET (1 .. Len(ledger[c[1]]))
  BY DEF Hires
<1>4. QED BY <1>2, <1>3, FS_Subset, FS_CardinalityType

(* An entry is a hire of its own crew and of no other.                     *)
LEMMA HiresAfterPost ==
  ASSUME TypeOK, NEW v \in Users, NEW e \in Entry, Posts(v, e), NEW c \in Crews
  PROVE  /\ e.reason = "crew_hire" /\ <<v, e.about>> = c =>
              /\ Hires(c)' = Hires(c) \cup {Len(ledger[v]) + 1}
              /\ Len(ledger[v]) + 1 \notin Hires(c)
         /\ ~(e.reason = "crew_hire" /\ <<v, e.about>> = c) => Hires(c)' = Hires(c)
<1>1. /\ \A u \in Users \ {v} : ledger'[u] = ledger[u]
      /\ Len(ledger[v]) \in Nat
      /\ Len(ledger'[v]) = Len(ledger[v]) + 1
      /\ ledger'[v][Len(ledger[v]) + 1] = e
      /\ \A i \in 1 .. Len(ledger[v]) : ledger'[v][i] = ledger[v][i]
  BY PostsLemma
<1>2. c = <<c[1], c[2]>> /\ c[1] \in Users
  BY DEF Crews
<1>3. CASE c[1] # v
  BY <1>1, <1>2, <1>3 DEF Hires, Posted
<1>4. CASE c[1] = v
  <2>1. \A i : i \in 1 .. Len(ledger'[v]) <=> i \in 1 .. Len(ledger[v]) \/ i = Len(ledger[v]) + 1
    BY <1>1
  <2>2. \A i : i \in Hires(c)' <=>
          \/ i \in Hires(c)
          \/ i = Len(ledger[v]) + 1 /\ e.reason = "crew_hire" /\ e.about = c[2]
    BY <1>1, <1>4, <2>1 DEF Hires, Posted
  <2>3. Len(ledger[v]) + 1 \notin Hires(c)
    BY <1>1, <1>4 DEF Hires
  <2>4. CASE e.reason = "crew_hire" /\ <<v, e.about>> = c
    <3>1. e.about = c[2]
      BY <2>4
    <3>2. Hires(c)' = Hires(c) \cup {Len(ledger[v]) + 1}
      BY <2>2, <2>4, <3>1
    <3>3. QED BY <2>3, <2>4, <3>2
  <2>5. CASE ~(e.reason = "crew_hire" /\ <<v, e.about>> = c)
    <3>1. e.reason # "crew_hire" \/ e.about # c[2]
      BY <1>2, <1>4, <2>5
    <3>2. Hires(c)' = Hires(c)
      BY <2>2, <3>1
    <3>3. QED BY <2>5, <3>2
  <2>6. QED BY <2>4, <2>5
<1>5. QED BY <1>3, <1>4

(* At the end of a step at most one session hires a crew that has no       *)
(* rivals, and it had none before.                                         *)
LEMMA RivalsAfter ==
  ASSUME Record, NEW c \in Crews, c \notin rivalled'
  PROVE  c \notin rivalled /\ \A s, t \in Sessions : Hiring(s, c)' /\ Hiring(t, c)' => s = t
BY DEF Record, Rivalled

Others(s) == \A t \in Sessions \ {s} : pc'[t] = pc[t] /\ job'[t] = job[t] /\ seen'[t] = seen[t]

(* What is left to show of a step of session s.                            *)
LEMMA TurnLemma ==
  ASSUME InTurnInv, Record, NEW s \in Sessions, Others(s),
         \A c \in Crews \ rivalled' :
           /\ crew[c] = Starter(c) + Cardinality(Hires(c)) =>
                crew'[c] = Starter(c)' + Cardinality(Hires(c)')
           /\ \A t \in Sessions \ {s} : Hiring(t, c) => crew'[c] = crew[c] \/ Hiring(s, c)
           /\ Hiring(s, c)' => seen'[s] = crew'[c]
  PROVE  InTurnInv'
<1>1. \A c \in Crews \ rivalled' :
        /\ c \notin rivalled
        /\ \A t, u \in Sessions : Hiring(t, c)' /\ Hiring(u, c)' => t = u
  BY RivalsAfter
<1>2. HiresCount'
  BY <1>1 DEF InTurnInv, HiresCount, Crews
<1>3. ASSUME NEW c \in Crews, c \notin rivalled', NEW t \in Sessions, Hiring(t, c)'
      PROVE  seen'[t] = crew'[c]
  <2>1. CASE t = s
    BY <1>3, <2>1
  <2>2. CASE t # s
    <3>1. Hiring(t, c) /\ seen'[t] = seen[t]
      BY <1>3, <2>2 DEF Others, Hiring
    <3>2. seen[t] = crew[c] /\ ~Hiring(s, c)
      BY <1>1, <1>3, <2>2, <3>1 DEF InTurnInv, RivalsInv
    <3>3. QED BY <1>3, <2>2, <3>1, <3>2
  <2>3. QED BY <2>1, <2>2
<1>4. RivalsInv'
  BY <1>1, <1>3 DEF RivalsInv, Crews
<1>5. QED BY <1>2, <1>4 DEF InTurnInv

(* Steps that commit nothing.                                              *)
LEMMA KeptTurn ==
  ASSUME InTurnInv, Record, NEW s \in Sessions, Others(s), UNCHANGED shared,
         \A c \in Crews : Hiring(s, c)' =>
           seen'[s] = crew[c] \/ (Hiring(s, c) /\ seen'[s] = seen[s])
  PROVE  InTurnInv'
<1>1. \A c \in Crews : /\ crew'[c] = crew[c] /\ Starter(c)' = Starter(c)
                       /\ Hires(c)' = Hires(c)
  BY DEF shared, Starter, Hires, Posted
<1>2. ASSUME NEW c \in Crews, c \notin rivalled', Hiring(s, c)'
      PROVE  seen'[s] = crew'[c]
  <2>1. CASE seen'[s] = crew[c]
    BY <1>1, <2>1
  <2>2. CASE Hiring(s, c) /\ seen'[s] = seen[s]
    BY <1>1, <1>2, <2>2, RivalsAfter DEF InTurnInv, RivalsInv
  <2>3. QED BY <1>2, <2>1, <2>2
<1>3. QED BY <1>1, <1>2, TurnLemma

(* The commit of anything but a hire and a signup.                         *)
LEMMA PostTurn ==
  ASSUME WalletsInv, InTurnInv, Record, NEW s \in Sessions, Post(s),
         pc[s] = "finish", job[s].reason # "crew_hire", UNCHANGED <<accounts, crew>>
  PROVE  InTurnInv'
<1>1. TypeOK /\ JobInv(s) /\ job[s] \in Entry /\ job[s].user \in Users
  BY DEF WalletsInv, SessionsInv, JobInv, Entry
<1>2. Posts(job[s].user, job[s]) /\ EndSession(s)
  BY DEF Post, Posts
<1>3. pc'[s] = "idle" /\ Others(s)
  BY <1>1, <1>2, EndLemma DEF Others, Apart
<1>4. \A c \in Crews : Hires(c)' = Hires(c) /\ Starter(c)' = Starter(c) /\ ~Hiring(s, c)'
  BY <1>1, <1>2, <1>3, HiresAfterPost DEF Starter, Hiring
<1>5. QED BY <1>3, <1>4, TurnLemma

(* A hire that had no rival adds a member to the crew as it found it.      *)
LEMMA HireTurn ==
  ASSUME WalletsInv, InTurnInv, Record, NEW s \in Sessions, HireCommit(s)
  PROVE  InTurnInv'
<1>1. /\ TypeOK /\ pc[s] = "finish" /\ job[s].reason = "crew_hire"
      /\ job[s] \in Entry /\ job[s].user \in Users /\ job[s].about \in Airports
  BY DEF HireCommit, Finishing, WalletsInv, SessionsInv, JobInv, Entry
<1>2. PICK who \in Crews : who = <<job[s].user, job[s].about>>
  BY <1>1 DEF Crews
<1>3. /\ Posts(job[s].user, job[s]) /\ EndSession(s) /\ UNCHANGED accounts
      /\ crew' = [crew EXCEPT ![who] = seen[s] + 1]
  BY <1>2 DEF HireCommit, Post, Posts
<1>4. pc'[s] = "idle" /\ Others(s)
  BY <1>1, <1>3, EndLemma DEF Others, Apart
<1>5. Hiring(s, who) /\ \A c \in Crews : ~Hiring(s, c)' /\ Starter(c)' = Starter(c)
  BY <1>1, <1>2, <1>3, <1>4 DEF Hiring, Starter
<1>6. ASSUME NEW c \in Crews, c # who
      PROVE  crew'[c] = crew[c] /\ Hires(c)' = Hires(c)
  BY <1>1, <1>2, <1>3, <1>6, HiresAfterPost DEF TypeOK, Crews
<1>7. ASSUME who \notin rivalled', crew[who] = Starter(who) + Cardinality(Hires(who))
      PROVE  crew'[who] = Starter(who)' + Cardinality(Hires(who)')
  <2>1. crew'[who] = crew[who] + 1
    <3>1. seen[s] = crew[who]
      BY <1>5, <1>7, RivalsAfter DEF InTurnInv, RivalsInv
    <3>2. QED BY <1>1, <1>3, <3>1 DEF TypeOK, Crews
  <2>2. /\ Hires(who)' = Hires(who) \cup {Len(ledger[job[s].user]) + 1}
        /\ Len(ledger[job[s].user]) + 1 \notin Hires(who)
    BY <1>1, <1>2, <1>3, HiresAfterPost
  <2>3. IsFiniteSet(Hires(who)) /\ Cardinality(Hires(who)) \in Nat
    BY <1>1, HiresFinite
  <2>4. Cardinality(Hires(who)') = Cardinality(Hires(who)) + 1
    BY <2>2, <2>3, FS_AddElement
  <2>5. Starter(who) \in Nat /\ Starter(who)' = Starter(who)
    BY <1>5 DEF Starter
  <2>6. QED BY <1>7, <2>1, <2>3, <2>4, <2>5
<1>8. QED BY <1>4, <1>5, <1>6, <1>7, TurnLemma

(* A new account has its starter crews and no hires.                       *)
LEMMA SignupTurn ==
  ASSUME WalletsInv, InTurnInv, Record, NEW s \in Sessions, SignupCommit(s)
  PROVE  InTurnInv'
<1>1. /\ TypeOK /\ pc[s] = "signup" /\ job[s].reason = "signup_bonus"
      /\ job[s] \in Entry /\ job[s].user \in Users
  BY DEF SignupCommit, WalletsInv, SessionsInv, JobInv, Entry
<1>2. PICK v \in Users : v = job[s].user
  BY <1>1
<1>3. /\ Posts(v, job[s]) /\ EndSession(s) /\ v \notin accounts /\ accounts' = accounts \cup {v}
      /\ crew' = [c \in Users \X Airports |->
                    IF c[1] = v /\ c[2] \in StarterCrew THEN 1 ELSE crew[c]]
  BY <1>2 DEF SignupCommit, Posts, EmailIsNew
<1>4. pc'[s] = "idle" /\ Others(s)
  BY <1>1, <1>3, EndLemma DEF Others, Apart
<1>5. \A c \in Crews : ~Hiring(s, c)' /\ Hires(c)' = Hires(c)
  BY <1>1, <1>3, <1>4, HiresAfterPost DEF Hiring
<1>6. ASSUME NEW c \in Crews, c[1] # v
      PROVE  crew'[c] = crew[c] /\ Starter(c)' = Starter(c)
  BY <1>3, <1>6 DEF Crews, Starter
<1>7. ASSUME NEW c \in Crews, c[1] = v
      PROVE  /\ \A t \in Sessions : ~Hiring(t, c)
             /\ crew[c] = Starter(c) + Cardinality(Hires(c)) =>
                  crew'[c] = Starter(c)' + Cardinality(Hires(c)')
  <2>1. ASSUME NEW t \in Sessions, Hiring(t, c) PROVE FALSE
    <3>1. JobInv(t) /\ job[t].user = v
      BY <1>7, <2>1 DEF Hiring, WalletsInv, SessionsInv
    <3>2. QED BY <1>3, <2>1, <3>1 DEF Hiring, JobInv
  <2>2. Len(ledger[v]) = 0
    BY <1>1, <1>3 DEF WalletsInv, AccountsInv, TypeOK
  <2>3. Hires(c) = {}
    BY <1>7, <2>2 DEF Hires
  <2>4. Cardinality(Hires(c)) = 0 /\ Cardinality(Hires(c)') = 0
    BY <1>5, <2>3, FS_EmptySet
  <2>5. Starter(c) = 0
    BY <1>3, <1>7 DEF Starter
  <2>6. Starter(c)' = IF c[2] \in StarterCrew THEN 1 ELSE 0
    BY <1>3, <1>7 DEF Starter
  <2>7. crew'[c] = IF c[2] \in StarterCrew THEN 1 ELSE crew[c]
    BY <1>3, <1>7 DEF Crews
  <2>8. QED BY <2>1, <2>4, <2>5, <2>6, <2>7
<1>8. QED BY <1>4, <1>5, <1>6, <1>7, TurnLemma

(* Requests arrive; a hire has just read its crew.                         *)
LEMMA ArriveTurn ==
  ASSUME WalletsInv, InTurnInv, Record, NEW s \in Sessions, Arrive(s)
  PROVE  InTurnInv'
<1>1. ASSUME NEW to, NEW u, NEW delta, NEW reason, NEW about, NEW count,
             Begin(s, to, u, delta, reason, about, count),
             reason = "crew_hire" => count = crew[<<u, about>>]
      PROVE  InTurnInv'
  <2>1. /\ UNCHANGED shared /\ Others(s) /\ seen'[s] = count
        /\ job'[s] = [user |-> u, delta |-> delta, reason |-> reason, about |-> about]
    BY <1>1 DEF Begin, Goto, Others, WalletsInv, TypeOK
  <2>2. QED BY <1>1, <2>1, KeptTurn DEF Hiring
<1>2. CASE SignupBegin(s)
  BY <1>1, <1>2 DEF SignupBegin
<1>3. CASE UnlockBegin(s)
  <2>1. PICK u \in accounts, l \in Licences :
          Begin(s, "insert_licence", u, -UnlockCost[l], "license_purchase", l, 0)
    BY <1>3 DEF UnlockBegin
  <2>2. PICK delta : delta = -UnlockCost[l]
    OBVIOUS
  <2>3. Begin(s, "insert_licence", u, delta, "license_purchase", l, 0)
    BY <2>1, <2>2
  <2>4. QED BY <1>1, <2>3
<1>4. CASE HireBegin(s)
  BY <1>1, <1>4 DEF HireBegin
<1>5. CASE RentBegin(s)
  BY <1>1, <1>5 DEF RentBegin
<1>6. CASE ClaimBegin(s)
  BY <1>1, <1>6 DEF ClaimBegin
<1>7. QED BY <1>2, <1>3, <1>4, <1>5, <1>6 DEF Arrive

LEMMA NextTurn ==
  ASSUME WalletsInv, InTurnInv, Next, Record
  PROVE  InTurnInv'
<1>1. TypeOK
  BY DEF WalletsInv
<1>2. ASSUME NEW s \in Sessions, Arrive(s) \/ Proceed(s) \/ Fail(s)
      PROVE  InTurnInv'
  <2>1. CASE Arrive(s)
    BY <2>1, ArriveTurn
  <2>2. CASE SignupCommit(s)
    BY <2>2, SignupTurn
  <2>3. CASE HireCommit(s)
    BY <2>3, HireTurn
  <2>4. CASE UnlockCommit(s) \/ RentCommit(s) \/ ClaimCommit(s)
    BY <2>4, PostTurn DEF UnlockCommit, RentCommit, ClaimCommit, Finishing
  <2>5. CASE ReadWallet(s) \/ UnlockInsert(s) \/ UpdateWallet(s)
    <3>1. /\ UNCHANGED <<shared, job, seen>> /\ pc[s] # "idle"
          /\ \A t \in Sessions \ {s} : pc'[t] = pc[t]
      BY <1>1, <2>5 DEF ReadWallet, UnlockInsert, UpdateWallet, Goto, TypeOK
    <3>2. Others(s)
      BY <3>1 DEF Others
    <3>3. QED BY <3>1, <3>2, KeptTurn DEF Hiring
  <2>6. CASE Refuse(s) \/ Fail(s)
    <3>1. EndSession(s) /\ UNCHANGED shared
      BY <2>6 DEF Refuse, Fail
    <3>2. pc'[s] = "idle" /\ Others(s)
      BY <1>1, <3>1, EndLemma DEF Others, Apart
    <3>3. QED BY <3>1, <3>2, KeptTurn DEF Hiring
  <2>7. QED BY <1>2, <2>1, <2>2, <2>3, <2>4, <2>5, <2>6 DEF Proceed
<1>3. QED BY <1>2 DEF Next

(* A history variable constrains nothing, so all theorems about Spec are   *)
(* about HistorySpec as well.                                              *)
LEMMA HistoryIsNext == HistoryNext => Next /\ Record
BY DEF HistoryNext, Next, Arrive, Proceed

LEMMA HistoryIsSpec == HistorySpec => Spec
<1>1. [HistoryNext]_<<vars, rivalled>> => [Next]_vars
  BY HistoryIsNext
<1>2. QED BY <1>1, PTL DEF HistorySpec, HistoryInit, Spec

(* Every hire that was paid for has its member, but for hires that overlap *)
(* (hire_crew).                                                            *)
THEOREM HiresCountWithoutOverlap == HistorySpec => []HiresCount
<1> DEFINE I == WalletsInv /\ InTurnInv
<1>1. HistoryInit => I
  <2>1. SUFFICES ASSUME Init PROVE InTurnInv
    BY InitInv DEF HistoryInit
  <2>2. ASSUME NEW c \in Crews
        PROVE  crew[c] = Starter(c) + Cardinality(Hires(c))
    <3>1. crew[c] = 0 /\ Starter(c) = 0 /\ ledger[c[1]] = <<>>
      BY <2>1 DEF Init, Crews, Starter
    <3>2. Hires(c) = {}
      BY <3>1 DEF Hires
    <3>3. Cardinality(Hires(c)) = 0
      BY <3>2, FS_EmptySet
    <3>4. QED BY <3>1, <3>3
  <2>3. \A s \in Sessions, c \in Crews : ~Hiring(s, c)
    BY <2>1 DEF Init, Hiring
  <2>4. QED BY <2>2, <2>3 DEF InTurnInv, HiresCount, RivalsInv
<1>2. I /\ [HistoryNext]_<<vars, rivalled>> => I'
  <2>1. ASSUME I, HistoryNext PROVE I'
    BY <2>1, HistoryIsNext, NextInv, NextTurn
  <2>2. ASSUME I, UNCHANGED <<vars, rivalled>> PROVE I'
    <3>1. WalletsInv'
      BY <2>2, NextInv
    <3>2. InTurnInv'
      BY <2>2 DEF InTurnInv, HiresCount, RivalsInv, Starter, Hires, Posted, Hiring, vars, shared,
         session
    <3>3. QED BY <3>1, <3>2
  <2>3. QED BY <2>1, <2>2
<1>3. I => HiresCount
  BY DEF InTurnInv
<1>4. QED BY <1>1, <1>2, <1>3, PTL DEF HistorySpec
===============================================================================
