-------------------------- MODULE MigrationsProofs --------------------------
(***************************************************************************)
(* Proofs about Migrations: for any players, any number of server          *)
(* processes and any sequence of requests, upgrades and downgrades.  What  *)
(* TLC finds out about the scripts on templates is a hypothesis.           *)
(***************************************************************************)
EXTENDS MigrationTemplates, StartUpProofs, Induction

-----------------------------------------------------------------------------
(* Functions.                                                              *)

LEMMA FixedIs == ASSUME NEW f PROVE Fixed(f) = f
  BY DEF Fixed

LEMMA OverIs ==
  ASSUME NEW f, NEW g
  PROVE  Over(f, g) =
           [x \in DOMAIN f \cup DOMAIN g |-> IF x \in DOMAIN f THEN f[x] ELSE g[x]]
  BY FixedIs DEF Over

LEMMA PlusIs ==
  ASSUME NEW f, NEW key, NEW value
  PROVE  Plus(f, key, value) =
           [x \in DOMAIN f \cup {key} |-> IF x \in DOMAIN f THEN f[x] ELSE value]
  BY FixedIs DEF Plus

LEMMA WithoutIs ==
  ASSUME NEW f, NEW keys
  PROVE  Without(f, keys) = [x \in DOMAIN f \ keys |-> f[x]]
  BY FixedIs DEF Without

LEMMA VisibleIs ==
  ASSUME NEW t, NEW r
  PROVE  Visible(t, r) = [x \in DOMAIN r \ Hidden(t) |-> r[x]]
  BY WithoutIs DEF Visible

-----------------------------------------------------------------------------
(* Scripts, statement by statement.                                        *)

\* The recursive definition of Executing has a solution.
LEMMA ExecutingIs ==
  ASSUME NEW d, NEW script, Len(script) \in Nat
  PROVE  Executing(d, script) =
           [n \in 0 .. Len(script) |->
              IF n = 0 THEN [ok |-> TRUE, db |-> d]
              ELSE Step(Executing(d, script)[n - 1], script[n])]
<1> DEFINE First == [ok |-> TRUE, db |-> d]
           Solves(f, n) == f = [i \in 0 .. n |-> IF i = 0 THEN First ELSE Step(f[i - 1], script[i])]
           S == {n \in Nat : \E f : Solves(f, n)}
<1>1. 0 \in S
  <2>1. Solves([i \in 0 .. 0 |-> First], 0)
    OBVIOUS
  <2> QED BY <2>1
<1>2. \A n \in Nat : n \in S => n + 1 \in S
  <2> SUFFICES ASSUME NEW n \in Nat, n \in S PROVE n + 1 \in S
    OBVIOUS
  <2>1. PICK f : Solves(f, n)
    OBVIOUS
  <2> DEFINE g == [i \in 0 .. n + 1 |-> IF i = n + 1 THEN Step(f[n], script[n + 1]) ELSE f[i]]
  <2>2. ASSUME NEW i \in 0 .. n + 1
        PROVE  g[i] = IF i = 0 THEN First ELSE Step(g[i - 1], script[i])
    <3>1. CASE i = 0
      BY <3>1, <2>1
    <3>2. CASE i # 0 /\ i # n + 1
      <4>1. i \in 0 .. n /\ i - 1 \in 0 .. n /\ i - 1 # n + 1
        BY <3>2
      <4>2. f[i] = Step(f[i - 1], script[i])
        BY <4>1, <3>2, <2>1
      <4> QED BY <4>1, <4>2, <3>2
    <3>3. CASE i = n + 1
      <4>1. i - 1 = n /\ n \in 0 .. n + 1 /\ n # n + 1 /\ i # 0
        BY <3>3
      <4> QED BY <4>1, <3>3
    <3> QED BY <3>1, <3>2, <3>3
  <2>3. Solves(g, n + 1)
    BY <2>2
  <2> HIDE DEF Solves, g
  <2> QED BY <2>3
<1>3. Nat \subseteq S
  <2> HIDE DEF S
  <2> QED BY <1>1, <1>2, SetInduction
<1>4. PICK f : Solves(f, Len(script))
  BY <1>3
<1>5. Executing(d, script) = CHOOSE g : Solves(g, Len(script))
  BY DEF Executing
<1>6. Solves(CHOOSE g : Solves(g, Len(script)), Len(script))
  <2> HIDE DEF Solves
  <2> QED BY <1>4
<1> QED BY <1>5, <1>6

\* The recursive definition of Walking has a solution.
LEMMA WalkingIs ==
  ASSUME NEW T, NEW script, Len(script) \in Nat
  PROVE  Walking(T, script) =
           [n \in 0 .. Len(script) |->
              IF n = 0
              THEN [tidy |-> TRUE, legal |-> TRUE, spares |-> TRUE, crewed |-> FALSE, db |-> T]
              ELSE Pace(T, Walking(T, script)[n - 1], script[n])]
<1> DEFINE First == [tidy |-> TRUE, legal |-> TRUE, spares |-> TRUE, crewed |-> FALSE, db |-> T]
           Solves(f, n) == f = [i \in 0 .. n |-> IF i = 0 THEN First ELSE Pace(T, f[i - 1], script[i])]
           S == {n \in Nat : \E f : Solves(f, n)}
<1>1. 0 \in S
  <2>1. Solves([i \in 0 .. 0 |-> First], 0)
    OBVIOUS
  <2> QED BY <2>1
<1>2. \A n \in Nat : n \in S => n + 1 \in S
  <2> SUFFICES ASSUME NEW n \in Nat, n \in S PROVE n + 1 \in S
    OBVIOUS
  <2>1. PICK f : Solves(f, n)
    OBVIOUS
  <2> DEFINE g == [i \in 0 .. n + 1 |-> IF i = n + 1 THEN Pace(T, f[n], script[n + 1]) ELSE f[i]]
  <2>2. ASSUME NEW i \in 0 .. n + 1
        PROVE  g[i] = IF i = 0 THEN First ELSE Pace(T, g[i - 1], script[i])
    <3>1. CASE i = 0
      BY <3>1, <2>1
    <3>2. CASE i # 0 /\ i # n + 1
      <4>1. i \in 0 .. n /\ i - 1 \in 0 .. n /\ i - 1 # n + 1
        BY <3>2
      <4>2. f[i] = Pace(T, f[i - 1], script[i])
        BY <4>1, <3>2, <2>1
      <4> QED BY <4>1, <4>2, <3>2
    <3>3. CASE i = n + 1
      <4>1. i - 1 = n /\ n \in 0 .. n + 1 /\ n # n + 1 /\ i # 0
        BY <3>3
      <4> QED BY <4>1, <3>3
    <3> QED BY <3>1, <3>2, <3>3
  <2>3. Solves(g, n + 1)
    BY <2>2
  <2> HIDE DEF Solves, g
  <2> QED BY <2>3
<1>3. Nat \subseteq S
  <2> HIDE DEF S
  <2> QED BY <1>1, <1>2, SetInduction
<1>4. PICK f : Solves(f, Len(script))
  BY <1>3
<1>5. Walking(T, script) = CHOOSE g : Solves(g, Len(script))
  BY DEF Walking
<1>6. Solves(CHOOSE g : Solves(g, Len(script)), Len(script))
  <2> HIDE DEF Solves
  <2> QED BY <1>4
<1> QED BY <1>5, <1>6

LEMMA ExecutingSteps ==
  ASSUME NEW d, NEW script, Len(script) \in Nat
  PROVE  /\ Executing(d, script)[0] = [ok |-> TRUE, db |-> d]
         /\ \A n \in 1 .. Len(script) :
              Executing(d, script)[n] = Step(Executing(d, script)[n - 1], script[n])
<1> DEFINE E == Executing(d, script)
<1>1. E = [n \in 0 .. Len(script) |->
             IF n = 0 THEN [ok |-> TRUE, db |-> d] ELSE Step(E[n - 1], script[n])]
  BY ExecutingIs
<1> HIDE DEF E
<1>2. 0 \in 0 .. Len(script) /\ \A n \in 1 .. Len(script) : n \in 0 .. Len(script) /\ n # 0
  OBVIOUS
<1>3. E[0] = [ok |-> TRUE, db |-> d] /\ \A n \in 1 .. Len(script) : E[n] = Step(E[n - 1], script[n])
  BY <1>1, <1>2
<1> QED BY <1>3 DEF E

LEMMA WalkingSteps ==
  ASSUME NEW T, NEW script, Len(script) \in Nat
  PROVE  /\ Walking(T, script)[0] =
              [tidy |-> TRUE, legal |-> TRUE, spares |-> TRUE, crewed |-> FALSE, db |-> T]
         /\ \A n \in 1 .. Len(script) :
              Walking(T, script)[n] = Pace(T, Walking(T, script)[n - 1], script[n])
<1> DEFINE W == Walking(T, script)
<1>1. W = [n \in 0 .. Len(script) |->
             IF n = 0 THEN [tidy |-> TRUE, legal |-> TRUE, spares |-> TRUE, crewed |-> FALSE, db |-> T]
             ELSE Pace(T, W[n - 1], script[n])]
  BY WalkingIs
<1> HIDE DEF W
<1>2. 0 \in 0 .. Len(script) /\ \A n \in 1 .. Len(script) : n \in 0 .. Len(script) /\ n # 0
  OBVIOUS
<1>3. /\ W[0] = [tidy |-> TRUE, legal |-> TRUE, spares |-> TRUE, crewed |-> FALSE, db |-> T]
      /\ \A n \in 1 .. Len(script) : W[n] = Pace(T, W[n - 1], script[n])
  BY <1>1, <1>2
<1> QED BY <1>3 DEF W

-----------------------------------------------------------------------------
(* Statements on rows and on templates of rows.                            *)

LEMMA SameVisible ==
  ASSUME NEW t, NEW r, NEW q
  PROVE  Visible(t, r) = Visible(t, q) <=>
           /\ DOMAIN r \ Hidden(t) = DOMAIN q \ Hidden(t)
           /\ \A x \in DOMAIN r \ Hidden(t) : r[x] = q[x]
  BY VisibleIs

\* What of a catalogue row a statement leaves open stays so.
LEMMA AddVisible ==
  ASSUME NEW t, NEW r, NEW q, Visible(t, r) = Visible(t, q), NEW c, NEW value, c \notin Hidden(t)
  PROVE  Visible(t, Plus(r, c, value)) = Visible(t, Plus(q, c, value))
<1> DEFINE a == Plus(r, c, value)
<1> DEFINE b == Plus(q, c, value)
<1>1. /\ a = [x \in DOMAIN r \cup {c} |-> IF x \in DOMAIN r THEN r[x] ELSE value]
      /\ b = [x \in DOMAIN q \cup {c} |-> IF x \in DOMAIN q THEN q[x] ELSE value]
  BY PlusIs
<1>2. Visible(t, a) = Visible(t, b) <=>
        DOMAIN a \ Hidden(t) = DOMAIN b \ Hidden(t) /\ \A x \in DOMAIN a \ Hidden(t) : a[x] = b[x]
  BY SameVisible
<1>3. /\ DOMAIN r \ Hidden(t) = DOMAIN q \ Hidden(t)
      /\ \A x \in DOMAIN r \ Hidden(t) : r[x] = q[x]
  BY SameVisible
<1> HIDE DEF a, b
<1>4. Visible(t, a) = Visible(t, b)
  BY <1>1, <1>2, <1>3
<1> QED BY <1>4 DEF a, b

LEMMA DropVisible ==
  ASSUME NEW t, NEW r, NEW q, Visible(t, r) = Visible(t, q), NEW c
  PROVE  Visible(t, Without(r, {c})) = Visible(t, Without(q, {c}))
<1> DEFINE a == Without(r, {c})
<1> DEFINE b == Without(q, {c})
<1>1. /\ a = [x \in DOMAIN r \ {c} |-> r[x]]
      /\ b = [x \in DOMAIN q \ {c} |-> q[x]]
  BY WithoutIs
<1>2. Visible(t, a) = Visible(t, b) <=>
        DOMAIN a \ Hidden(t) = DOMAIN b \ Hidden(t) /\ \A x \in DOMAIN a \ Hidden(t) : a[x] = b[x]
  BY SameVisible
<1>3. /\ DOMAIN r \ Hidden(t) = DOMAIN q \ Hidden(t)
      /\ \A x \in DOMAIN r \ Hidden(t) : r[x] = q[x]
  BY SameVisible
<1> HIDE DEF a, b
<1>4. Visible(t, a) = Visible(t, b)
  BY <1>1, <1>2, <1>3
<1> QED BY <1>4 DEF a, b

LEMMA OverVisible ==
  ASSUME NEW t, NEW r, NEW q, Visible(t, r) = Visible(t, q), NEW set
  PROVE  Visible(t, Over(set, r)) = Visible(t, Over(set, q))
<1> DEFINE a == Over(set, r)
<1> DEFINE b == Over(set, q)
<1>1. /\ a = [x \in DOMAIN set \cup DOMAIN r |-> IF x \in DOMAIN set THEN set[x] ELSE r[x]]
      /\ b = [x \in DOMAIN set \cup DOMAIN q |-> IF x \in DOMAIN set THEN set[x] ELSE q[x]]
  BY OverIs
<1>2. Visible(t, a) = Visible(t, b) <=>
        DOMAIN a \ Hidden(t) = DOMAIN b \ Hidden(t) /\ \A x \in DOMAIN a \ Hidden(t) : a[x] = b[x]
  BY SameVisible
<1>3. /\ DOMAIN r \ Hidden(t) = DOMAIN q \ Hidden(t)
      /\ \A x \in DOMAIN r \ Hidden(t) : r[x] = q[x]
  BY SameVisible
<1> HIDE DEF a, b
<1>4. Visible(t, a) = Visible(t, b)
  BY <1>1, <1>2, <1>3
<1> QED BY <1>4 DEF a, b

LEMMA OverHidden ==
  ASSUME NEW t, NEW r, NEW set, DOMAIN set \subseteq Hidden(t)
  PROVE  Visible(t, Over(set, r)) = Visible(t, r)
<1> DEFINE a == Over(set, r)
<1>1. a = [x \in DOMAIN set \cup DOMAIN r |-> IF x \in DOMAIN set THEN set[x] ELSE r[x]]
  BY OverIs
<1>2. Visible(t, a) = Visible(t, r) <=>
        DOMAIN a \ Hidden(t) = DOMAIN r \ Hidden(t) /\ \A x \in DOMAIN a \ Hidden(t) : a[x] = r[x]
  BY SameVisible
<1> HIDE DEF a
<1>3. Visible(t, a) = Visible(t, r)
  BY <1>1, <1>2
<1> QED BY <1>3 DEF a

\* And a row of a template still stands for those of all players.
LEMMA AddFilled ==
  ASSUME NEW q, NEW u, NEW c, NEW value, c \in PlayerColumns => value = Null
  PROVE  Plus(Filled(q, u), c, value) = Filled(Plus(q, c, value), u)
<1>1. /\ Plus(q, c, value) = [x \in DOMAIN q \cup {c} |-> IF x \in DOMAIN q THEN q[x] ELSE value]
      /\ Plus(Filled(q, u), c, value) =
           [x \in DOMAIN Filled(q, u) \cup {c} |-> IF x \in DOMAIN Filled(q, u) THEN Filled(q, u)[x] ELSE value]
  BY PlusIs
<1>2. c \in PlayerColumns => value # Player
  BY DEF Null, Player
<1> QED BY <1>1, <1>2 DEF Filled

LEMMA DropFilled ==
  ASSUME NEW q, NEW u, NEW c
  PROVE  Without(Filled(q, u), {c}) = Filled(Without(q, {c}), u)
  BY WithoutIs DEF Filled

LEMMA OverFilled ==
  ASSUME NEW q, NEW u, NEW set, DOMAIN set \cap PlayerColumns = {}
  PROVE  Over(set, Filled(q, u)) = Filled(Over(set, q), u)
  BY OverIs DEF Filled

LEMMA RenameVisible ==
  ASSUME NEW t, NEW r, NEW q, Visible(t, r) = Visible(t, q),
         NEW old, NEW new, old \notin Hidden(t), new \notin Hidden(t)
  PROVE  Visible(t, Renamed(r, old, new)) = Visible(t, Renamed(q, old, new))
<1>1. old \in DOMAIN r <=> old \in DOMAIN q
  BY SameVisible
<1>2. CASE old \in DOMAIN r
  <2>1. r[old] = q[old]
    BY <1>2, SameVisible
  <2>2. Visible(t, Without(r, {old})) = Visible(t, Without(q, {old}))
    BY DropVisible
  <2>3. Visible(t, Plus(Without(r, {old}), new, r[old])) = Visible(t, Plus(Without(q, {old}), new, r[old]))
    BY <2>2, AddVisible
  <2> QED BY <1>1, <1>2, <2>1, <2>3 DEF Renamed
<1>3. CASE old \notin DOMAIN r
  BY <1>1, <1>3 DEF Renamed
<1> QED BY <1>2, <1>3

LEMMA RenameFilled ==
  ASSUME NEW q, NEW u, NEW old, NEW new, old \notin PlayerColumns, new \notin PlayerColumns
  PROVE  Renamed(Filled(q, u), old, new) = Filled(Renamed(q, old, new), u)
<1>1. DOMAIN Filled(q, u) = DOMAIN q
  BY DEF Filled
<1>2. CASE old \in DOMAIN q
  <2>1. Filled(q, u)[old] = q[old]
    BY <1>2 DEF Filled
  <2>2. Without(Filled(q, u), {old}) = Filled(Without(q, {old}), u)
    BY DropFilled
  <2>3. Plus(Filled(Without(q, {old}), u), new, q[old]) = Filled(Plus(Without(q, {old}), new, q[old]), u)
    BY AddFilled
  <2> QED BY <1>1, <1>2, <2>1, <2>2, <2>3 DEF Renamed
<1>3. CASE old \notin DOMAIN q
  BY <1>1, <1>3 DEF Renamed
<1> QED BY <1>2, <1>3

LEMMA FillFilled ==
  ASSUME NEW q, NEW u, NEW c, c \in PlayerColumns, {"id", c} \subseteq DOMAIN q, q.id = Player
  PROVE  [Filled(q, u) EXCEPT ![c] = Filled(q, u)["id"]] = Filled([q EXCEPT ![c] = q["id"]], u)
<1>1. "id" \in PlayerColumns
  BY DEF PlayerColumns
<1>2. Filled(q, u)["id"] = u /\ DOMAIN Filled(q, u) = DOMAIN q
  BY <1>1 DEF Filled
<1> QED BY <1>2 DEF Filled

\* The statements that change every row of their table.
Rewriting == {"add_column", "drop_column", "rename_column", "update", "fill_unique"}

LEMMA RewrittenVisible ==
  ASSUME NEW T, NEW s, Tidy(T, s), s.op \in Rewriting, s.table \in CatalogueTables,
         NEW r, NEW q \in T.rows[s.table], Visible(s.table, r) = Visible(s.table, q)
  PROVE  Visible(s.table, Rewritten(s, r)) = Visible(s.table, Rewritten(s, q))
<1>1. CASE s.op = "add_column"
  <2>1. s.column \notin Hidden(s.table)
    BY <1>1, Zenon DEF Tidy
  <2>2. /\ Rewritten(s, r) = IF s.column \in Tracked THEN Plus(r, s.column, s.default) ELSE r
        /\ Rewritten(s, q) = IF s.column \in Tracked THEN Plus(q, s.column, s.default) ELSE q
    BY <1>1, Zenon DEF Rewritten
  <2>3. Visible(s.table, Plus(r, s.column, s.default)) = Visible(s.table, Plus(q, s.column, s.default))
    BY <2>1, AddVisible
  <2> QED BY <2>2, <2>3
<1>2. CASE s.op = "drop_column"
  <2>1. Rewritten(s, r) = Without(r, {s.column}) /\ Rewritten(s, q) = Without(q, {s.column})
    BY <1>2, Zenon DEF Rewritten
  <2> QED BY <2>1, DropVisible
<1>3. CASE s.op = "rename_column"
  <2>1. {s.column, s.new} \cap (PlayerColumns \cup Hidden(s.table)) = {}
    BY <1>3, Zenon DEF Tidy
  <2>2. s.column \notin Hidden(s.table) /\ s.new \notin Hidden(s.table)
    BY <2>1
  <2>3. /\ Rewritten(s, r) = Renamed(r, s.column, s.new)
        /\ Rewritten(s, q) = Renamed(q, s.column, s.new)
    BY <1>3, Zenon DEF Rewritten
  <2> QED BY <2>2, <2>3, RenameVisible
<1>4. CASE s.op = "update"
  <2> DEFINE New(x) == IF x[s.column] \in DOMAIN s.set THEN Over(s.set[x[s.column]], x) ELSE x
  <2>1. Rewritten(s, r) = New(r) /\ Rewritten(s, q) = New(q)
    BY <1>4, Zenon DEF Rewritten
  <2>2. \/ \A k \in DOMAIN s.set : DOMAIN s.set[k] \subseteq Hidden(s.table)
        \/ Open(T, s.table, s.column)
    BY <1>4, Zenon DEF Tidy
  <2>3. CASE \A k \in DOMAIN s.set : DOMAIN s.set[k] \subseteq Hidden(s.table)
    <3>1. ASSUME NEW x PROVE Visible(s.table, New(x)) = Visible(s.table, x)
      <4>1. CASE x[s.column] \in DOMAIN s.set
        BY <4>1, <2>3, OverHidden
      <4>2. CASE x[s.column] \notin DOMAIN s.set
        BY <4>2
      <4> QED BY <4>1, <4>2
    <3> QED BY <2>1, <3>1
  <2>4. CASE Open(T, s.table, s.column)
    <3>1. s.column \in DOMAIN q \ Hidden(s.table)
      BY <2>4 DEF Open
    <3>2. r[s.column] = q[s.column]
      BY <3>1, SameVisible
    <3>3. Visible(s.table, Over(s.set[q[s.column]], r)) = Visible(s.table, Over(s.set[q[s.column]], q))
      BY OverVisible
    <3> QED BY <2>1, <3>2, <3>3
  <2> QED BY <2>2, <2>3, <2>4
<1>5. CASE s.op = "fill_unique"
  BY <1>5, Zenon DEF Tidy
<1> QED BY <1>1, <1>2, <1>3, <1>4, <1>5 DEF Rewriting

LEMMA RewrittenFilled ==
  ASSUME NEW T, NEW s, Tidy(T, s), s.op \in Rewriting, s.table \notin CatalogueTables,
         NEW q \in T.rows[s.table], NEW u
  PROVE  Rewritten(s, Filled(q, u)) = Filled(Rewritten(s, q), u)
<1> DEFINE r == Filled(q, u)
<1>1. CASE s.op = "add_column"
  <2>1. s.column \in PlayerColumns => s.default = Null
    BY <1>1, Zenon DEF Tidy
  <2>2. /\ Rewritten(s, r) = IF s.column \in Tracked THEN Plus(r, s.column, s.default) ELSE r
        /\ Rewritten(s, q) = IF s.column \in Tracked THEN Plus(q, s.column, s.default) ELSE q
    BY <1>1, Zenon DEF Rewritten
  <2>3. Plus(Filled(q, u), s.column, s.default) = Filled(Plus(q, s.column, s.default), u)
    BY <2>1, AddFilled
  <2> QED BY <2>2, <2>3
<1>2. CASE s.op = "drop_column"
  <2>1. Rewritten(s, r) = Without(r, {s.column}) /\ Rewritten(s, q) = Without(q, {s.column})
    BY <1>2, Zenon DEF Rewritten
  <2>2. Without(Filled(q, u), {s.column}) = Filled(Without(q, {s.column}), u)
    BY DropFilled
  <2> QED BY <2>1, <2>2
<1>3. CASE s.op = "rename_column"
  <2>1. {s.column, s.new} \cap (PlayerColumns \cup Hidden(s.table)) = {}
    BY <1>3, Zenon DEF Tidy
  <2>2. s.column \notin PlayerColumns /\ s.new \notin PlayerColumns
    BY <2>1
  <2>3. /\ Rewritten(s, r) = Renamed(r, s.column, s.new)
        /\ Rewritten(s, q) = Renamed(q, s.column, s.new)
    BY <1>3, Zenon DEF Rewritten
  <2> QED BY <2>2, <2>3, RenameFilled
<1>4. CASE s.op = "update"
  <2> DEFINE New(x) == IF x[s.column] \in DOMAIN s.set THEN Over(s.set[x[s.column]], x) ELSE x
  <2>1. Rewritten(s, r) = New(r) /\ Rewritten(s, q) = New(q)
    BY <1>4, Zenon DEF Rewritten
  <2>2. Open(T, s.table, s.column) /\ \A k \in DOMAIN s.set : DOMAIN s.set[k] \cap PlayerColumns = {}
    BY <1>4, Zenon DEF Tidy
  <2>3. r[s.column] = q[s.column]
    BY <2>2 DEF Open, Filled
  <2>4. CASE q[s.column] \in DOMAIN s.set
    <3>1. Over(s.set[q[s.column]], r) = Filled(Over(s.set[q[s.column]], q), u)
      BY <2>2, <2>4, OverFilled
    <3> QED BY <2>1, <2>3, <2>4, <3>1
  <2>5. CASE q[s.column] \notin DOMAIN s.set
    BY <2>1, <2>3, <2>5
  <2> QED BY <2>4, <2>5
<1>5. CASE s.op = "fill_unique"
  <2>1. /\ KeyOf(s.table) = "id" /\ s.column \in PlayerColumns
        /\ {"id", s.column} \subseteq DOMAIN q /\ q.id = Player
    BY <1>5, Zenon DEF Tidy
  <2>2. /\ Rewritten(s, r) = [r EXCEPT ![s.column] = r[KeyOf(s.table)]]
        /\ Rewritten(s, q) = [q EXCEPT ![s.column] = q[KeyOf(s.table)]]
    BY <1>5, Zenon DEF Rewritten
  <2>3. [r EXCEPT ![s.column] = r["id"]] = Filled([q EXCEPT ![s.column] = q["id"]], u)
    BY <2>1, FillFilled
  <2> QED BY <2>1, <2>2, <2>3
<1> QED BY <1>1, <1>2, <1>3, <1>4, <1>5 DEF Rewriting

LEMMA ReplaceFits ==
  ASSUME NEW R, NEW Q, NEW P, RowsFit(R, Q, P),
         NEW t \in DOMAIN Q, t # "users", NEW A, NEW B, Shows(t, B, A, P)
  PROVE  RowsFit([R EXCEPT ![t] = A], [Q EXCEPT ![t] = B], P)
<1> DEFINE R1 == [R EXCEPT ![t] = A]
           Q1 == [Q EXCEPT ![t] = B]
<1>1. DOMAIN R = DOMAIN Q /\ DOMAIN Q1 = DOMAIN Q
  BY DEF RowsFit
<1>2. R1 = [x \in DOMAIN Q1 |-> R1[x]]
  BY <1>1
<1>3. ASSUME NEW x \in DOMAIN Q1 PROVE Shows(x, Q1[x], R1[x], P)
  <2>1. CASE x = t
    BY <1>1, <2>1
  <2>2. CASE x # t
    <3>1. R1[x] = R[x] /\ Q1[x] = Q[x] /\ x \in DOMAIN Q
      BY <1>1, <2>2
    <3>2. Shows(x, Q[x], R[x], P)
      BY <3>1 DEF RowsFit
    <3> QED BY <3>1, <3>2
  <2> QED BY <2>1, <2>2
<1>4. "users" \in DOMAIN Q1 => R1["users"] = {UserRow(u) : u \in P}
  BY <1>1 DEF RowsFit
<1> HIDE DEF R1, Q1
<1>5. RowsFit(R1, Q1, P)
  BY <1>2, <1>3, <1>4 DEF RowsFit
<1> QED BY <1>5 DEF R1, Q1

LEMMA CreateFits ==
  ASSUME NEW R, NEW Q, NEW P, RowsFit(R, Q, P), NEW t, t \notin DOMAIN Q, t # "users"
  PROVE  RowsFit(Plus(R, t, {}), Plus(Q, t, {}), P)
<1> DEFINE R1 == Plus(R, t, {})
           Q1 == Plus(Q, t, {})
<1>1. /\ R1 = [x \in DOMAIN R \cup {t} |-> IF x \in DOMAIN R THEN R[x] ELSE {}]
      /\ Q1 = [x \in DOMAIN Q \cup {t} |-> IF x \in DOMAIN Q THEN Q[x] ELSE {}]
  BY PlusIs
<1>2. DOMAIN R = DOMAIN Q
  BY DEF RowsFit
<1> HIDE DEF R1, Q1
<1>3. R1 = [x \in DOMAIN Q1 |-> R1[x]]
  BY <1>1, <1>2
<1>4. ASSUME NEW x \in DOMAIN Q1 PROVE Shows(x, Q1[x], R1[x], P)
  <2>1. CASE x = t
    <3>1. Q1[x] = {} /\ R1[x] = {}
      BY <1>1, <1>2, <2>1
    <3> QED BY <3>1 DEF Shows
  <2>2. CASE x # t
    <3>1. R1[x] = R[x] /\ Q1[x] = Q[x] /\ x \in DOMAIN Q
      BY <1>1, <1>2, <2>2
    <3>2. Shows(x, Q[x], R[x], P)
      BY <3>1 DEF RowsFit
    <3> QED BY <3>1, <3>2
  <2> QED BY <2>1, <2>2
<1>5. "users" \in DOMAIN Q1 => R1["users"] = {UserRow(u) : u \in P}
  BY <1>1, <1>2 DEF RowsFit
<1>6. RowsFit(R1, Q1, P)
  BY <1>3, <1>4, <1>5 DEF RowsFit
<1> QED BY <1>6 DEF R1, Q1

LEMMA DropFits ==
  ASSUME NEW R, NEW Q, NEW P, RowsFit(R, Q, P), NEW t
  PROVE  RowsFit(Without(R, {t}), Without(Q, {t}), P)
<1> DEFINE R1 == Without(R, {t})
           Q1 == Without(Q, {t})
<1>1. R1 = [x \in DOMAIN R \ {t} |-> R[x]] /\ Q1 = [x \in DOMAIN Q \ {t} |-> Q[x]]
  BY WithoutIs, Zenon
<1>2. DOMAIN R = DOMAIN Q
  BY DEF RowsFit
<1> HIDE DEF R1, Q1
<1>3. R1 = [x \in DOMAIN Q1 |-> R1[x]]
  BY <1>1, <1>2
<1>4. ASSUME NEW x \in DOMAIN Q1 PROVE Shows(x, Q1[x], R1[x], P)
  <2>1. R1[x] = R[x] /\ Q1[x] = Q[x] /\ x \in DOMAIN Q
    BY <1>1, <1>2
  <2>2. Shows(x, Q[x], R[x], P)
    BY <2>1 DEF RowsFit
  <2> QED BY <2>1, <2>2
<1>5. "users" \in DOMAIN Q1 => R1["users"] = {UserRow(u) : u \in P}
  BY <1>1, <1>2 DEF RowsFit
<1>6. RowsFit(R1, Q1, P)
  BY <1>3, <1>4, <1>5 DEF RowsFit
<1> QED BY <1>6 DEF R1, Q1

LEMMA RenameTableFits ==
  ASSUME NEW R, NEW Q, NEW P, RowsFit(R, Q, P), NEW old \in DOMAIN Q, NEW new, new \notin DOMAIN Q,
         old # "users", new # "users", Hidden(old) = Hidden(new),
         old \in CatalogueTables <=> new \in CatalogueTables
  PROVE  RowsFit(Renamed(R, old, new), Renamed(Q, old, new), P)
<1> DEFINE R1 == Renamed(R, old, new)
           Q1 == Renamed(Q, old, new)
<1>1. DOMAIN R = DOMAIN Q
  BY DEF RowsFit
<1>2. /\ DOMAIN R1 = (DOMAIN Q \ {old}) \cup {new} /\ DOMAIN Q1 = (DOMAIN Q \ {old}) \cup {new}
      /\ R1[new] = R[old] /\ Q1[new] = Q[old]
      /\ \A x \in DOMAIN Q \ {old} : R1[x] = R[x] /\ Q1[x] = Q[x]
      /\ R1 = [x \in DOMAIN R1 |-> R1[x]]
  <2> DEFINE R0 == Without(R, {old})
             Q0 == Without(Q, {old})
  <2>1. R0 = [x \in DOMAIN R \ {old} |-> R[x]] /\ Q0 = [x \in DOMAIN Q \ {old} |-> Q[x]]
    BY WithoutIs
  <2>2. R1 = Plus(R0, new, R[old]) /\ Q1 = Plus(Q0, new, Q[old])
    BY <1>1 DEF Renamed
  <2> HIDE DEF R0, Q0, R1, Q1
  <2>3. /\ R1 = [x \in DOMAIN R0 \cup {new} |-> IF x \in DOMAIN R0 THEN R0[x] ELSE R[old]]
        /\ Q1 = [x \in DOMAIN Q0 \cup {new} |-> IF x \in DOMAIN Q0 THEN Q0[x] ELSE Q[old]]
    BY <2>2, PlusIs
  <2> QED BY <1>1, <2>1, <2>3
<1> HIDE DEF R1, Q1
<1>3. R1 = [x \in DOMAIN Q1 |-> R1[x]]
  BY <1>2
<1>4. ASSUME NEW x \in DOMAIN Q1 PROVE Shows(x, Q1[x], R1[x], P)
  <2>1. CASE x = new
    <3>1. Q1[x] = Q[old] /\ R1[x] = R[old]
      BY <1>1, <1>2, <2>1
    <3>2. Shows(old, Q[old], R[old], P)
      BY DEF RowsFit
    <3>3. \A r : Visible(old, r) = Visible(new, r)
      BY DEF Visible
    <3> QED BY <2>1, <3>1, <3>2, <3>3 DEF Shows
  <2>2. CASE x # new
    <3>1. R1[x] = R[x] /\ Q1[x] = Q[x] /\ x \in DOMAIN Q
      BY <1>1, <1>2, <2>2
    <3>2. Shows(x, Q[x], R[x], P)
      BY <3>1 DEF RowsFit
    <3> QED BY <3>1, <3>2
  <2> QED BY <2>1, <2>2
<1>5. "users" \in DOMAIN Q1 => R1["users"] = {UserRow(u) : u \in P}
  BY <1>1, <1>2 DEF RowsFit
<1>6. RowsFit(R1, Q1, P)
  BY <1>3, <1>4, <1>5 DEF RowsFit
<1> QED BY <1>6 DEF R1, Q1

LEMMA RewritingShows ==
  ASSUME NEW T, NEW s, Tidy(T, s), s.op \in Rewriting, NEW P,
         NEW R, Shows(s.table, T.rows[s.table], R, P)
  PROVE  Shows(s.table, {Rewritten(s, q) : q \in T.rows[s.table]}, {Rewritten(s, r) : r \in R}, P)
<1> DEFINE t == s.table
           Q == T.rows[t]
           A == {Rewritten(s, r) : r \in R}
           B == {Rewritten(s, q) : q \in Q}
<1>1. CASE t \in CatalogueTables
  <2>1. {Visible(t, r) : r \in R} = {Visible(t, q) : q \in Q}
    BY <1>1 DEF Shows
  <2>2. ASSUME NEW r \in R PROVE \E q \in Q : Visible(t, Rewritten(s, r)) = Visible(t, Rewritten(s, q))
    <3>1. PICK q \in Q : Visible(t, r) = Visible(t, q)
      BY <2>1
    <3> QED BY <1>1, <3>1, RewrittenVisible
  <2>3. ASSUME NEW q \in Q PROVE \E r \in R : Visible(t, Rewritten(s, r)) = Visible(t, Rewritten(s, q))
    <3>1. PICK r \in R : Visible(t, r) = Visible(t, q)
      BY <2>1
    <3> QED BY <1>1, <3>1, RewrittenVisible
  <2>4. {Visible(t, r) : r \in A} = {Visible(t, q) : q \in B}
    BY <2>2, <2>3
  <2> QED BY <1>1, <2>4 DEF Shows
<1>2. CASE t \notin CatalogueTables
  <2>1. ASSUME NEW r \in R PROVE \E q \in B, u \in P : Rewritten(s, r) = Filled(q, u)
    <3>1. PICK q \in Q, u \in P : r = Filled(q, u)
      BY <1>2 DEF Shows
    <3>2. Rewritten(s, Filled(q, u)) = Filled(Rewritten(s, q), u)
      BY <1>2, RewrittenFilled
    <3> QED BY <3>1, <3>2
  <2>2. A \subseteq {Filled(q, u) : q \in B, u \in P}
    BY <2>1
  <2> QED BY <1>2, <2>2 DEF Shows
<1> QED BY <1>1, <1>2

LEMMA InsertShows ==
  ASSUME NEW t \in CatalogueTables, NEW P, NEW R, NEW Q, Shows(t, Q, R, P), NEW new
  PROVE  Shows(t, Q \cup new, R \cup new, P)
<1>1. {Visible(t, r) : r \in R} = {Visible(t, q) : q \in Q}
  BY DEF Shows
<1>2. {Visible(t, r) : r \in R \cup new} = {Visible(t, q) : q \in Q \cup new}
  BY <1>1
<1> QED BY <1>2 DEF Shows

LEMMA DeleteShows ==
  ASSUME NEW T, NEW t, NEW c, Open(T, t, c), NEW P, NEW R, Shows(t, T.rows[t], R, P), NEW values,
         NEW A, \A r : r \in A <=> r \in R /\ r[c] \notin values,
         NEW B, \A q : q \in B <=> q \in T.rows[t] /\ q[c] \notin values
  PROVE  Shows(t, B, A, P)
<1> DEFINE Q == T.rows[t]
<1>1. CASE t \in CatalogueTables
  <2>1. {Visible(t, r) : r \in R} = {Visible(t, q) : q \in Q}
    BY <1>1 DEF Shows
  <2>2. ASSUME NEW r \in R, NEW q \in Q, Visible(t, r) = Visible(t, q) PROVE r[c] = q[c]
    <3>1. c \in DOMAIN q \ Hidden(t)
      BY DEF Open
    <3> QED BY <2>2, <3>1, SameVisible
  <2>3. ASSUME NEW r \in A PROVE \E q \in B : Visible(t, r) = Visible(t, q)
    <3>1. PICK q \in Q : Visible(t, r) = Visible(t, q)
      BY <2>1
    <3> QED BY <2>2, <3>1
  <2>4. ASSUME NEW q \in B PROVE \E r \in A : Visible(t, r) = Visible(t, q)
    <3>1. PICK r \in R : Visible(t, r) = Visible(t, q)
      BY <2>1
    <3> QED BY <2>2, <3>1
  <2>5. {Visible(t, r) : r \in A} = {Visible(t, q) : q \in B}
    BY <2>3, <2>4
  <2> QED BY <1>1, <2>5 DEF Shows
<1>2. CASE t \notin CatalogueTables
  <2>1. ASSUME NEW r \in A PROVE \E q \in B, u \in P : r = Filled(q, u)
    <3>1. PICK q \in Q, u \in P : r = Filled(q, u)
      BY <1>2 DEF Shows
    <3>2. c \notin PlayerColumns /\ c \in DOMAIN q
      BY DEF Open
    <3>3. Filled(q, u)[c] = q[c]
      BY <3>2 DEF Filled
    <3> QED BY <3>1, <3>3
  <2>2. A \subseteq {Filled(q, u) : q \in B, u \in P}
    BY <2>1
  <2> QED BY <1>2, <2>2 DEF Shows
<1> QED BY <1>1, <1>2

LEMMA CrossedIs ==
  ASSUME NEW s, NEW k, NEW v
  PROVE  Crossed(s, k, v) =
           [x \in {s.c1, s.c2} \cup DOMAIN s.rest |->
              IF x \in {s.c1, s.c2} THEN IF x = s.c1 THEN k ELSE v ELSE s.rest[x]]
<1> DEFINE f == [x \in {s.c1, s.c2} |-> IF x = s.c1 THEN k ELSE v]
<1>1. Over(f, s.rest) =
        [x \in DOMAIN f \cup DOMAIN s.rest |-> IF x \in DOMAIN f THEN f[x] ELSE s.rest[x]]
  <2> HIDE DEF f
  <2> QED BY OverIs
<1> QED BY <1>1 DEF Crossed

LEMMA CrossedFilled ==
  ASSUME NEW s, s.c1 \in PlayerColumns, (DOMAIN s.rest \cup {s.c2}) \cap PlayerColumns = {},
         NEW u, NEW v
  PROVE  Crossed(s, u, v) = Filled(Crossed(s, Player, v), u)
<1> DEFINE q == Crossed(s, Player, v)
<1>1. q = [x \in {s.c1, s.c2} \cup DOMAIN s.rest |->
              IF x \in {s.c1, s.c2} THEN IF x = s.c1 THEN Player ELSE v ELSE s.rest[x]]
  BY CrossedIs
<1>2. Crossed(s, u, v) =
          [x \in {s.c1, s.c2} \cup DOMAIN s.rest |->
              IF x \in {s.c1, s.c2} THEN IF x = s.c1 THEN u ELSE v ELSE s.rest[x]]
  BY CrossedIs
<1> HIDE DEF q
<1>3. Crossed(s, u, v) = Filled(q, u)
  BY <1>1, <1>2 DEF Filled
<1> QED BY <1>3 DEF q

LEMMA KeysOfUsers ==
  ASSUME NEW R, NEW P, R["users"] = {UserRow(u) : u \in P}
  PROVE  Keys(R, "users") = P
<1>1. KeyOf("users") = "id"
  BY Zenon DEF KeyOf
<1>2. \A u : UserRow(u)["id"] = u
  BY DEF UserRow
<1>3. Keys(R, "users") = {r["id"] : r \in {UserRow(u) : u \in P}}
  BY <1>1 DEF Keys
<1>4. ASSUME NEW u \in P PROVE u \in Keys(R, "users")
  <2>1. UserRow(u) \in {UserRow(x) : x \in P} /\ UserRow(u)["id"] = u
    BY <1>2
  <2> QED BY <1>3, <2>1
<1>5. ASSUME NEW k \in Keys(R, "users") PROVE k \in P
  <2>1. PICK u \in P : k = UserRow(u)["id"]
    BY <1>3
  <2> QED BY <1>2, <2>1
<1> QED BY <1>4, <1>5

\* One statement, on rows and on their template.
LEMMA RowsEffectFits ==
  ASSUME NEW T, NEW R, NEW P, RowsFit(R, T.rows, P), DOMAIN T.rows = DOMAIN T.schema.tables,
         NEW s, Applicable(T.schema, s), Tidy(T, s)
  PROVE  RowsFit(RowsEffect(R, s), RowsEffect(T.rows, s), P)
<1> DEFINE Q == T.rows
           t == s.table
<1>0. DOMAIN R = DOMAIN Q
  BY DEF RowsFit
<1>1. CASE s.op = "create_table"
  <2>0. t # "users"
    BY <1>1 DEF Tidy
  <2>1. t \notin DOMAIN T.schema.tables
    BY <1>1 DEF Applicable
  <2>2. RowsEffect(R, s) = Plus(R, t, {}) /\ RowsEffect(Q, s) = Plus(Q, t, {})
    BY <1>1 DEF RowsEffect, Rewriting, RowStatements
  <2>3. RowsFit(Plus(R, t, {}), Plus(Q, t, {}), P)
    BY <2>0, <2>1, CreateFits
  <2> QED BY <2>2, <2>3
<1>2. CASE s.op = "drop_table"
  <2>1. RowsEffect(R, s) = Without(R, {t}) /\ RowsEffect(Q, s) = Without(Q, {t})
    BY <1>2 DEF RowsEffect
  <2>2. RowsFit(Without(R, {t}), Without(Q, {t}), P)
    BY DropFits
  <2> QED BY <2>1, <2>2
<1>3. CASE s.op = "rename_table"
  <2>1. /\ "users" \notin {t, s.new} /\ Hidden(t) = Hidden(s.new)
        /\ t \in CatalogueTables <=> s.new \in CatalogueTables
    BY <1>3 DEF Tidy
  <2>2. t \in DOMAIN Q /\ s.new \notin DOMAIN Q
    BY <1>3 DEF Applicable
  <2>3. RowsEffect(R, s) = Renamed(R, t, s.new) /\ RowsEffect(Q, s) = Renamed(Q, t, s.new)
    BY <1>3 DEF RowsEffect, Rewriting, RowStatements
  <2>4. RowsFit(Renamed(R, t, s.new), Renamed(Q, t, s.new), P)
    BY <2>1, <2>2, RenameTableFits
  <2> QED BY <2>3, <2>4
<1>4. CASE s.op \in Rewriting
  <2>1. t # "users"
    <3>1. CASE s.op = "add_column" BY <3>1 DEF Tidy
    <3>2. CASE s.op = "drop_column" BY <3>2 DEF Tidy
    <3>3. CASE s.op = "rename_column" BY <3>3 DEF Tidy
    <3>4. CASE s.op = "update" BY <3>4 DEF Tidy
    <3>5. CASE s.op = "fill_unique"
      <4>1. t \notin CatalogueTables \cup {"users"}
        BY <3>5 DEF Tidy
      <4> QED BY <4>1
    <3> QED BY <1>4, <3>1, <3>2, <3>3, <3>4, <3>5 DEF Rewriting
  <2>2. t \in DOMAIN Q
    <3>1. CASE s.op = "add_column" BY <3>1 DEF Applicable
    <3>2. CASE s.op = "drop_column" BY <3>2 DEF Applicable, HasColumn
    <3>3. CASE s.op = "rename_column" BY <3>3 DEF Applicable, HasColumn
    <3>4. CASE s.op = "update" BY <3>4 DEF Applicable
    <3>5. CASE s.op = "fill_unique" BY <3>5 DEF Applicable, HasColumn
    <3> QED BY <1>4, <3>1, <3>2, <3>3, <3>4, <3>5 DEF Rewriting
  <2> DEFINE A == {Rewritten(s, r) : r \in R[t]}
             B == {Rewritten(s, q) : q \in Q[t]}
  <2>3. RowsEffect(R, s) = [R EXCEPT ![t] = A] /\ RowsEffect(Q, s) = [Q EXCEPT ![t] = B]
    BY <1>4 DEF RowsEffect, Rewriting, RowStatements
  <2>4. Shows(t, Q[t], R[t], P)
    BY <2>2 DEF RowsFit
  <2>5. Shows(t, B, A, P)
    BY <1>4, <2>4, RewritingShows
  <2>6. RowsFit([R EXCEPT ![t] = A], [Q EXCEPT ![t] = B], P)
    <3> HIDE DEF A, B, t
    <3> QED BY <2>1, <2>2, <2>5, ReplaceFits
  <2> QED BY <2>3, <2>6
<1>5. CASE s.op = "insert"
  <2>1. t \in CatalogueTables
    BY <1>5 DEF Tidy
  <2>2. t \in DOMAIN Q /\ t # "users"
    <3>1. t \in DOMAIN T.schema.tables
      BY <1>5 DEF Applicable
    <3> QED BY <2>1, <3>1 DEF CatalogueTables
  <2>3. /\ RowsEffect(R, s) = [R EXCEPT ![t] = R[t] \cup s.new]
        /\ RowsEffect(Q, s) = [Q EXCEPT ![t] = Q[t] \cup s.new]
    BY <1>5 DEF RowsEffect, Rewriting, RowStatements
  <2>4. Shows(t, Q[t], R[t], P)
    BY <2>2 DEF RowsFit
  <2>5. Shows(t, Q[t] \cup s.new, R[t] \cup s.new, P)
    BY <2>1, <2>4, InsertShows
  <2>6. RowsFit([R EXCEPT ![t] = R[t] \cup s.new], [Q EXCEPT ![t] = Q[t] \cup s.new], P)
    <3> HIDE DEF t
    <3> QED BY <2>2, <2>5, ReplaceFits
  <2> QED BY <2>3, <2>6
<1>6. CASE s.op = "delete"
  <2>1. t # "users" /\ Open(T, t, s.column)
    BY <1>6 DEF Tidy
  <2>2. t \in DOMAIN Q
    BY <1>6 DEF Applicable
  <2> DEFINE A == {r \in R[t] : r[s.column] \notin s.values}
             B == {r \in Q[t] : r[s.column] \notin s.values}
  <2>3. RowsEffect(R, s) = [R EXCEPT ![t] = A] /\ RowsEffect(Q, s) = [Q EXCEPT ![t] = B]
    BY <1>6 DEF RowsEffect, Rewriting, RowStatements
  <2>4. Shows(t, Q[t], R[t], P)
    BY <2>2 DEF RowsFit
  <2>5. Shows(t, B, A, P)
    <3> HIDE DEF A, B, t
    <3>1. /\ \A r : r \in A <=> r \in R[t] /\ r[s.column] \notin s.values
          /\ \A q : q \in B <=> q \in T.rows[t] /\ q[s.column] \notin s.values
      BY DEF A, B
    <3> QED BY <2>1, <2>4, <3>1, DeleteShows
  <2>6. RowsFit([R EXCEPT ![t] = A], [Q EXCEPT ![t] = B], P)
    <3> HIDE DEF A, B, t
    <3> QED BY <2>1, <2>2, <2>5, ReplaceFits
  <2> QED BY <2>3, <2>6
<1>7. CASE s.op = "insert_cross"
  <2>1. /\ t \notin CatalogueTables \cup {"users"} /\ s.from = "users"
        /\ Q["users"] = {UserRow(Player)}
        /\ s.c1 \in PlayerColumns /\ (DOMAIN s.rest \cup {s.c2}) \cap PlayerColumns = {}
    BY <1>7 DEF Tidy
  <2>2. {t, s.from} \subseteq DOMAIN T.schema.tables
    BY <1>7 DEF Applicable
  <2> DEFINE A == R[t] \cup {Crossed(s, k, v) : k \in Keys(R, s.from), v \in s.values}
             B == Q[t] \cup {Crossed(s, k, v) : k \in Keys(Q, s.from), v \in s.values}
  <2>3. RowsEffect(R, s) = [R EXCEPT ![t] = A] /\ RowsEffect(Q, s) = [Q EXCEPT ![t] = B]
    BY <1>7 DEF RowsEffect, Rewriting, RowStatements
  <2>4. t \in DOMAIN Q /\ "users" \in DOMAIN Q /\ t # "users" /\ t \notin CatalogueTables
    BY <2>1, <2>2
  <2>5. Keys(R, "users") = P
    BY <2>4, KeysOfUsers DEF RowsFit
  <2>6. Keys(Q, "users") = {Player}
    <3>1. Q["users"] = {UserRow(u) : u \in {Player}}
      BY <2>1
    <3> QED BY <3>1, KeysOfUsers
  <2>7. A \subseteq {Filled(q, u) : q \in B, u \in P}
    <3>1. R[t] \subseteq {Filled(q, u) : q \in Q[t], u \in P}
      <4>1. Shows(t, Q[t], R[t], P)
        BY <2>4 DEF RowsFit
      <4> HIDE DEF t, Q
      <4> QED BY <2>4, <4>1 DEF Shows
    <3>2. Q[t] \subseteq B
      OBVIOUS
    <3>3. ASSUME NEW u \in P, NEW v \in s.values
          PROVE  Crossed(s, u, v) = Filled(Crossed(s, Player, v), u) /\ Crossed(s, Player, v) \in B
      <4>1. Crossed(s, u, v) = Filled(Crossed(s, Player, v), u)
        BY <2>1, CrossedFilled
      <4>2. Crossed(s, Player, v) \in {Crossed(s, k, x) : k \in Keys(Q, s.from), x \in s.values}
        BY <2>1, <2>6
      <4> QED BY <4>1, <4>2
    <3>4. A = R[t] \cup {Crossed(s, k, v) : k \in P, v \in s.values}
      BY <2>1, <2>5
    <3> HIDE DEF A, B, t
    <3> QED BY <3>1, <3>2, <3>3, <3>4
  <2>9. Shows(t, B, A, P)
    <3> HIDE DEF A, B, t
    <3> QED BY <2>4, <2>7 DEF Shows
  <2>10. RowsFit([R EXCEPT ![t] = A], [Q EXCEPT ![t] = B], P)
    <3> HIDE DEF A, B, t
    <3> QED BY <2>4, <2>9, ReplaceFits
  <2> QED BY <2>3, <2>10
<1>8. CASE s.op \notin RowStatements
  <2>1. RowsEffect(R, s) = R /\ RowsEffect(Q, s) = Q
    BY <1>8 DEF RowsEffect, Rewriting, RowStatements
  <2> QED BY <2>1
<1> QED
  BY <1>1, <1>2, <1>3, <1>4, <1>5, <1>6, <1>7, <1>8 DEF RowStatements, Rewriting


-----------------------------------------------------------------------------
(* Constraints.                                                            *)

LEMMA KeysFit ==
  ASSUME NEW T, NEW R, NEW P, RowsFit(R, T.rows, P),
         NEW t \in DOMAIN T.rows, t \in CatalogueTables, Open(T, t, KeyOf(t))
  PROVE  Keys(R, t) = Keys(T.rows, t)
<1> DEFINE k == KeyOf(t)
<1>1. {Visible(t, r) : r \in R[t]} = {Visible(t, q) : q \in T.rows[t]}
  BY DEF RowsFit, Shows
<1>2. ASSUME NEW r \in R[t], NEW q \in T.rows[t], Visible(t, r) = Visible(t, q) PROVE r[k] = q[k]
  <2>1. k \in DOMAIN q \ Hidden(t)
    BY DEF Open
  <2> QED BY <1>2, <2>1, SameVisible
<1> HIDE DEF k
<1>3. ASSUME NEW r \in R[t] PROVE \E q \in T.rows[t] : r[k] = q[k]
  <2>1. PICK q \in T.rows[t] : Visible(t, r) = Visible(t, q)
    BY <1>1
  <2> QED BY <1>2, <2>1
<1>4. ASSUME NEW q \in T.rows[t] PROVE \E r \in R[t] : r[k] = q[k]
  <2>1. PICK r \in R[t] : Visible(t, r) = Visible(t, q)
    BY <1>1
  <2> QED BY <1>2, <2>1
<1>5. {r[k] : r \in R[t]} = {q[k] : q \in T.rows[t]}
  BY <1>3, <1>4
<1> QED BY <1>5 DEF Keys, k

\* Two rows that agree where a constraint looks obey the same constraints.
LEMMA SameObeys ==
  ASSUME NEW d, NEW e, d.schema = e.schema, NEW t, NEW r, NEW q,
         \A c \in DOMAIN d.schema.tables[t].refs :
           /\ c \in DOMAIN r <=> c \in DOMAIN q
           /\ LET target == d.schema.tables[t].refs[c] IN
              c \in DOMAIN q =>
                (r[c] \in Keys(d.rows, target) \cup {Null} <=> q[c] \in Keys(e.rows, target) \cup {Null}),
         \A c \in Nullable :
           /\ c \in DOMAIN r <=> c \in DOMAIN q
           /\ c \in DOMAIN q => (r[c] = Null <=> q[c] = Null),
         \A n \in DOMAIN d.schema.checks : d.schema.checks[n].table = t =>
           \A c \in {d.schema.checks[n].column} \cup DOMAIN d.schema.checks[n].when :
             /\ c \in DOMAIN r <=> c \in DOMAIN q
             /\ c \in DOMAIN q => r[c] = q[c]
  PROVE  Obeys(d, t, r) <=> Obeys(e, t, q)
<1> DEFINE table == d.schema.tables[t]
           checks == d.schema.checks
           Refs(f, x) == \A c \in DOMAIN table.refs \cap DOMAIN x :
                           x[c] \in Keys(f.rows, table.refs[c]) \cup {Null}
           Required(x) == \A c \in DOMAIN x \cap Nullable \cap table.required : x[c] # Null
           Checked(n, x) == checks[n].table = t /\ checks[n].column \in DOMAIN x /\ Matches(x, checks[n].when) =>
                              x[checks[n].column] \in checks[n].values
<1>1. /\ Obeys(d, t, r) <=> Refs(d, r) /\ Required(r) /\ \A n \in DOMAIN checks : Checked(n, r)
      /\ Obeys(e, t, q) <=> Refs(e, q) /\ Required(q) /\ \A n \in DOMAIN checks : Checked(n, q)
  BY Zenon DEF Obeys
<1>2. Refs(d, r) <=> Refs(e, q)
  OBVIOUS
<1>3. Required(r) <=> Required(q)
  OBVIOUS
<1>4. ASSUME NEW n \in DOMAIN checks PROVE Checked(n, r) <=> Checked(n, q)
  <2>1. CASE checks[n].table = t
    <3>1. Matches(r, checks[n].when) <=> Matches(q, checks[n].when)
      BY <2>1 DEF Matches
    <3> QED BY <2>1, <3>1
  <2>2. CASE checks[n].table # t
    BY <2>2
  <2> QED BY <2>1, <2>2
<1> HIDE DEF Refs, Required, Checked
<1> QED BY <1>1, <1>2, <1>3, <1>4

\* What a constraint says of a player's row is what it says of the template's.
LEMMA FilledObeys ==
  ASSUME NEW T, NEW d, NEW P, Fits(d, T, P), Impartial(T), Null \notin P,
         NEW t \in DOMAIN T.rows, t \notin CatalogueTables, NEW q \in T.rows[t], NEW u \in P
  PROVE  Obeys(d, t, Filled(q, u)) <=> Obeys(T, t, q)
<1> DEFINE r == Filled(q, u)
<1>1. /\ DOMAIN r = DOMAIN q
      /\ \A c \in DOMAIN q : c \in PlayerColumns /\ q[c] = Player => r[c] = u
      /\ \A c \in DOMAIN q : ~(c \in PlayerColumns /\ q[c] = Player) => r[c] = q[c]
  BY DEF Filled
<1> HIDE DEF r
<1>2. d.schema = T.schema /\ RowsFit(d.rows, T.rows, P)
  BY DEF Fits
<1>3. ASSUME NEW c \in DOMAIN T.schema.tables[t].refs, c \in DOMAIN q
      PROVE  r[c] \in Keys(d.rows, T.schema.tables[t].refs[c]) \cup {Null}
               <=> q[c] \in Keys(T.rows, T.schema.tables[t].refs[c]) \cup {Null}
  <2> DEFINE target == T.schema.tables[t].refs[c]
  <2>1. target \in DOMAIN T.rows
    BY <1>3 DEF Impartial
  <2>2. CASE c \in PlayerColumns
    <3>1. target = "users" /\ q[c] = Player
      BY <1>3, <2>2 DEF Impartial
    <3>2. d.rows["users"] = {UserRow(x) : x \in P}
      BY <1>2, <2>1, <3>1 DEF RowsFit
    <3>3. T.rows["users"] = {UserRow(x) : x \in {Player}}
      BY <2>1, <3>1 DEF Impartial
    <3>4. Keys(d.rows, "users") = P /\ Keys(T.rows, "users") = {Player}
      BY <3>2, <3>3, KeysOfUsers
    <3> QED BY <1>1, <1>3, <2>2, <3>1, <3>4
  <2>3. CASE c \notin PlayerColumns
    <3>1. target \in CatalogueTables /\ Open(T, target, KeyOf(target))
      BY <1>3, <2>3 DEF Impartial
    <3>2. Keys(d.rows, target) = Keys(T.rows, target)
      <4> HIDE DEF target
      <4> QED BY <1>2, <2>1, <3>1, KeysFit
    <3> QED BY <1>1, <1>3, <2>3, <3>2
  <2> QED BY <2>2, <2>3
<1>4. ASSUME NEW c \in DOMAIN q PROVE r[c] = Null <=> q[c] = Null
  <2>1. Player # Null
    BY DEF Player, Null
  <2> QED BY <1>1, <2>1
<1>5. ASSUME NEW n \in DOMAIN T.schema.checks, T.schema.checks[n].table = t,
             NEW c \in {T.schema.checks[n].column} \cup DOMAIN T.schema.checks[n].when, c \in DOMAIN q
      PROVE  r[c] = q[c]
  <2>1. c \notin PlayerColumns
    BY DEF Impartial
  <2> QED BY <1>1, <1>5, <2>1
<1>6. Obeys(d, t, r) <=> Obeys(T, t, q)
  BY <1>1, <1>2, <1>3, <1>4, <1>5, SameObeys
<1> QED BY <1>6 DEF r

\* And so it is for the catalogue.
LEMMA VisibleObeys ==
  ASSUME NEW T, NEW d, NEW P, Fits(d, T, P), Impartial(T),
         NEW t \in DOMAIN T.rows, t \in CatalogueTables, NEW q \in T.rows[t],
         NEW r, Visible(t, r) = Visible(t, q)
  PROVE  Obeys(d, t, r) <=> Obeys(T, t, q)
<1>1. \A c : c \notin Hidden(t) => /\ c \in DOMAIN r <=> c \in DOMAIN q
                                   /\ c \in DOMAIN q => r[c] = q[c]
  BY SameVisible
<1>2. d.schema = T.schema /\ RowsFit(d.rows, T.rows, P)
  BY DEF Fits
<1>3. ASSUME NEW c \in DOMAIN T.schema.tables[t].refs
      PROVE  /\ c \in DOMAIN r <=> c \in DOMAIN q
             /\ c \in DOMAIN q =>
                  (r[c] \in Keys(d.rows, T.schema.tables[t].refs[c]) \cup {Null}
                     <=> q[c] \in Keys(T.rows, T.schema.tables[t].refs[c]) \cup {Null})
  <2> DEFINE target == T.schema.tables[t].refs[c]
  <2>1. c \notin Hidden(t)
    BY DEF Impartial
  <2>2. ASSUME c \in DOMAIN q PROVE Keys(d.rows, target) = Keys(T.rows, target)
    <3>1. target \in DOMAIN T.rows /\ target \in CatalogueTables /\ Open(T, target, KeyOf(target))
      BY <2>2 DEF Impartial
    <3> HIDE DEF target
    <3> QED BY <1>2, <3>1, KeysFit
  <2> QED BY <1>1, <2>1, <2>2
<1>4. ASSUME NEW c \in Nullable
      PROVE  /\ c \in DOMAIN r <=> c \in DOMAIN q
             /\ c \in DOMAIN q => (r[c] = Null <=> q[c] = Null)
  <2>1. c \notin Hidden(t)
    BY DEF Hidden, Nullable
  <2> QED BY <1>1, <2>1
<1>5. ASSUME NEW n \in DOMAIN T.schema.checks, T.schema.checks[n].table = t,
             NEW c \in {T.schema.checks[n].column} \cup DOMAIN T.schema.checks[n].when
      PROVE  /\ c \in DOMAIN r <=> c \in DOMAIN q
             /\ c \in DOMAIN q => r[c] = q[c]
  <2>1. c \notin Hidden(t)
    BY <1>5 DEF Impartial
  <2> QED BY <1>1, <2>1
<1> QED BY <1>2, <1>3, <1>4, <1>5, SameObeys

\* What a statement does to a database it does to its template.
LEMMA EffectFits ==
  ASSUME NEW T, NEW d, NEW P, Fits(d, T, P), DOMAIN T.rows = DOMAIN T.schema.tables,
         NEW s, Applicable(T.schema, s), Tidy(T, s)
  PROVE  Fits(Effect(d, s), Effect(T, s), P)
<1>1. RowsFit(d.rows, T.rows, P) /\ d.schema = T.schema
  BY DEF Fits
<1>2. RowsFit(RowsEffect(d.rows, s), RowsEffect(T.rows, s), P)
  BY <1>1, RowsEffectFits
<1>3. /\ Effect(d, s).schema = Effect(T, s).schema
      /\ Effect(d, s).rows = RowsEffect(d.rows, s) /\ Effect(T, s).rows = RowsEffect(T.rows, s)
      /\ Effect(d, s) = [schema |-> Effect(d, s).schema, rows |-> Effect(d, s).rows]
  BY <1>1 DEF Effect
<1> QED BY <1>2, <1>3 DEF Fits

LEMMA ConsistentFits ==
  ASSUME NEW T, NEW d, NEW P, Fits(d, T, P), Impartial(T), Null \notin P, NEW t, Consistent(T, t)
  PROVE  Consistent(d, t)
<1>1. d.schema = T.schema /\ DOMAIN T.rows = DOMAIN T.schema.tables
      /\ \A u \in DOMAIN T.rows : Shows(u, T.rows[u], d.rows[u], P)
  BY DEF Fits, RowsFit, Impartial
<1>2. ASSUME NEW u \in Concerned(d.schema, t), NEW r \in d.rows[u] PROVE Obeys(d, u, r)
  <2>1. u \in DOMAIN T.rows /\ \A q \in T.rows[u] : Obeys(T, u, q)
    BY <1>1, <1>2 DEF Consistent, Concerned
  <2>2. CASE u \in CatalogueTables
    <3>1. {Visible(u, x) : x \in d.rows[u]} = {Visible(u, q) : q \in T.rows[u]}
      BY <1>1, <2>1, <2>2 DEF Shows
    <3>2. PICK q \in T.rows[u] : Visible(u, r) = Visible(u, q)
      BY <1>2, <3>1
    <3> QED BY <2>1, <2>2, <3>2, VisibleObeys
  <2>3. CASE u \notin CatalogueTables
    <3>1. d.rows[u] \subseteq {Filled(q, x) : q \in T.rows[u], x \in P}
      BY <1>1, <2>1, <2>3 DEF Shows
    <3>2. PICK q \in T.rows[u], x \in P : r = Filled(q, x)
      BY <1>2, <3>1
    <3> QED BY <2>1, <2>3, <3>2, FilledObeys
  <2> QED BY <2>2, <2>3
<1> QED BY <1>1, <1>2 DEF Consistent

\* A statement that is accepted on a template is accepted on what fits it.
LEMMA LegalFits ==
  ASSUME NEW T, NEW d, NEW P, Fits(d, T, P), DOMAIN T.rows = DOMAIN T.schema.tables, Null \notin P,
         NEW s, Tidy(T, s), Impartial(Effect(T, s)), Legal(T, s)
  PROVE  Legal(d, s)
<1>1. d.schema = T.schema /\ RowsFit(d.rows, T.rows, P)
  BY DEF Fits
<1>2. Applicable(T.schema, s) /\ Applicable(d.schema, s)
  BY <1>1 DEF Legal
<1>3. FreshKeys(d, s)
  <2>1. CASE s.op = "insert"
    <3>1. s.table \in CatalogueTables /\ Open(T, s.table, KeyOf(s.table))
      BY <2>1 DEF Tidy
    <3>2. s.table \in DOMAIN T.rows
      BY <1>2, <2>1 DEF Applicable
    <3>3. Keys(d.rows, s.table) = Keys(T.rows, s.table)
      BY <1>1, <3>1, <3>2, KeysFit
    <3> QED BY <3>3 DEF Legal, FreshKeys
  <2>2. CASE s.op # "insert"
    BY <2>2 DEF FreshKeys
  <2> QED BY <2>1, <2>2
<1>4. Fits(Effect(d, s), Effect(T, s), P)
  BY <1>2, EffectFits
<1>5. Touched(s) # Null => Consistent(Effect(d, s), Touched(s))
  BY <1>4, ConsistentFits DEF Legal
<1> QED BY <1>2, <1>3, <1>5 DEF Legal

\* And once it has been accepted, what fits it also fits the narrowed template.
LEMMA NarrowedFits ==
  ASSUME NEW T, NEW d, NEW P, Fits(d, T, P), DOMAIN T.rows = DOMAIN T.schema.tables, Null \notin P,
         NEW s, Tidy(T, s), Impartial(Effect(T, s)), Legal(d, s)
  PROVE  /\ Fits(Effect(d, s), Narrowed(T, s), P)
         /\ DOMAIN Narrowed(T, s).rows = DOMAIN Narrowed(T, s).schema.tables
<1> DEFINE E == Effect(T, s)
           e == Effect(d, s)
           N == Narrowed(T, s)
           Kept(t) == \/ Touched(s) = Null \/ t \in CatalogueTables
                      \/ t \notin Concerned(E.schema, Touched(s))
<1>1. d.schema = T.schema
  BY DEF Fits
<1>2. Fits(e, E, P)
  <2>1. Applicable(T.schema, s)
    BY <1>1 DEF Legal
  <2> QED BY <2>1, EffectFits
<1>3. /\ e = [schema |-> E.schema, rows |-> e.rows]
      /\ e.rows = [t \in DOMAIN E.rows |-> e.rows[t]]
      /\ \A t \in DOMAIN E.rows : Shows(t, E.rows[t], e.rows[t], P)
      /\ "users" \in DOMAIN E.rows => e.rows["users"] = {UserRow(u) : u \in P}
      /\ DOMAIN E.rows = DOMAIN E.schema.tables
  BY <1>2 DEF Fits, RowsFit, Impartial
<1>4. /\ N.schema = E.schema /\ DOMAIN N.rows = DOMAIN E.rows
      /\ \A t \in DOMAIN E.rows :
           N.rows[t] = IF Kept(t) THEN E.rows[t] ELSE {q \in E.rows[t] : Obeys(E, t, q)}
  BY DEF Narrowed, Effect
<1>5. ASSUME NEW t \in DOMAIN E.rows PROVE Shows(t, N.rows[t], e.rows[t], P)
  <2>1. CASE Kept(t)
    BY <1>3, <1>4, <2>1
  <2>2. CASE ~Kept(t)
    <3>1. t \notin CatalogueTables /\ \A r \in e.rows[t] : Obeys(e, t, r)
      BY <1>3, <2>2 DEF Legal, Consistent
    <3>2. e.rows[t] \subseteq {Filled(q, u) : q \in E.rows[t], u \in P}
      BY <1>3, <3>1 DEF Shows
    <3>3. ASSUME NEW r \in e.rows[t] PROVE \E q \in N.rows[t], u \in P : r = Filled(q, u)
      <4>1. PICK q \in E.rows[t], u \in P : r = Filled(q, u)
        BY <3>2
      <4>2. Obeys(E, t, q)
        BY <1>2, <3>1, <4>1, FilledObeys
      <4>3. q \in N.rows[t]
        BY <1>4, <2>2, <4>2
      <4> QED BY <4>1, <4>3
    <3>4. e.rows[t] \subseteq {Filled(q, u) : q \in N.rows[t], u \in P}
      BY <3>3
    <3> QED BY <3>1, <3>4 DEF Shows
  <2> QED BY <2>1, <2>2
<1> HIDE DEF N, E, e
<1>6. Fits(e, N, P)
  BY <1>3, <1>4, <1>5 DEF Fits, RowsFit
<1>7. DOMAIN N.rows = DOMAIN N.schema.tables
  BY <1>3, <1>4
<1> QED BY <1>6, <1>7 DEF N, e

-----------------------------------------------------------------------------
(* Scripts.                                                                *)

LEMMA StepIs ==
  ASSUME NEW x, "ok" \in DOMAIN x, NEW s
  PROVE  /\ "ok" \in DOMAIN Step(x, s)
         /\ Step(x, s).ok <=> x.ok /\ Legal(x.db, s)
         /\ Step(x, s).ok => Step(x, s).db = Effect(x.db, s)
<1>1. CASE x.ok /\ Legal(x.db, s)
  BY <1>1 DEF Step
<1>2. CASE ~(x.ok /\ Legal(x.db, s))
  BY <1>2 DEF Step
<1> QED BY <1>1, <1>2

LEMMA PaceIs ==
  ASSUME NEW T, NEW b, "tidy" \in DOMAIN b, NEW s
  PROVE  /\ "tidy" \in DOMAIN Pace(T, b, s)
         /\ Pace(T, b, s).tidy =>
              /\ b.tidy /\ Applicable(b.db.schema, s) /\ Tidy(b.db, s) /\ Impartial(Effect(b.db, s))
              /\ Pace(T, b, s).db = Narrowed(b.db, s)
              /\ Pace(T, b, s).legal => b.legal /\ Legal(b.db, s)
              /\ Pace(T, b, s).spares => b.spares /\ Spares(T, b.db.schema, s)
              /\ Pace(T, b, s).crewed =>
                   GivesCrew(s) \/ (b.crewed /\ ~Writes(s, "user_airport_crew"))
<1> DEFINE Good == /\ b.tidy /\ Applicable(b.db.schema, s) /\ Tidy(b.db, s)
                   /\ Impartial(Effect(b.db, s))
<1>1. CASE Good
  <2>1. Pace(T, b, s) =
          [tidy |-> TRUE,
           legal |-> b.legal /\ Legal(b.db, s),
           spares |-> b.spares /\ Spares(T, b.db.schema, s),
           crewed |-> GivesCrew(s) \/ (b.crewed /\ ~Writes(s, "user_airport_crew")),
           db |-> Narrowed(b.db, s)]
    BY <1>1, Zenon DEF Pace
  <2>2. PICK legal, spares, crewed :
          /\ legal = (b.legal /\ Legal(b.db, s))
          /\ spares = (b.spares /\ Spares(T, b.db.schema, s))
          /\ crewed = (GivesCrew(s) \/ (b.crewed /\ ~Writes(s, "user_airport_crew")))
    OBVIOUS
  <2>3. Pace(T, b, s) = [tidy |-> TRUE, legal |-> legal, spares |-> spares, crewed |-> crewed,
                         db |-> Narrowed(b.db, s)]
    BY <2>1, <2>2, Zenon
  <2>4. PICK p : p = Pace(T, b, s)
    OBVIOUS
  <2>5. /\ "tidy" \in DOMAIN p /\ p.db = Narrowed(b.db, s)
        /\ p.legal = legal /\ p.spares = spares /\ p.crewed = crewed
    BY <2>3, <2>4
  <2>6. /\ legal => b.legal /\ Legal(b.db, s)
        /\ spares => b.spares /\ Spares(T, b.db.schema, s)
        /\ crewed => GivesCrew(s) \/ (b.crewed /\ ~Writes(s, "user_airport_crew"))
    BY <2>2
  <2> QED BY <1>1, <2>4, <2>5, <2>6, Zenon
<1>2. CASE ~Good
  <2>1. Pace(T, b, s) = [b EXCEPT !.tidy = FALSE]
    BY <1>2, Zenon DEF Pace
  <2> QED BY <2>1
<1> QED BY <1>1, <1>2

\* The walks that are in step: what the template's says of the database's.
InStep(w, x, P) ==
  /\ "tidy" \in DOMAIN w /\ "ok" \in DOMAIN x
  /\ w.tidy => /\ x.ok => Fits(x.db, w.db, P) /\ DOMAIN w.db.rows = DOMAIN w.db.schema.tables
               /\ w.legal => x.ok

LEMMA StepKeepsInStep ==
  ASSUME NEW P, Null \notin P, NEW T, NEW w, NEW x, InStep(w, x, P), NEW s
  PROVE  InStep(Pace(T, w, s), Step(x, s), P)
<1>1. PICK w1, x1 : w1 = Pace(T, w, s) /\ x1 = Step(x, s)
  OBVIOUS
<1>2. /\ "ok" \in DOMAIN x1
      /\ x1.ok <=> x.ok /\ Legal(x.db, s)
      /\ x1.ok => x1.db = Effect(x.db, s)
  BY <1>1, StepIs DEF InStep
<1>3. /\ "tidy" \in DOMAIN w1
      /\ w1.tidy =>
           /\ w.tidy /\ Applicable(w.db.schema, s) /\ Tidy(w.db, s) /\ Impartial(Effect(w.db, s))
           /\ w1.db = Narrowed(w.db, s)
           /\ w1.legal => w.legal /\ Legal(w.db, s)
  BY <1>1, PaceIs DEF InStep
<1>4. ASSUME w1.tidy, x1.ok
      PROVE  Fits(x1.db, w1.db, P) /\ DOMAIN w1.db.rows = DOMAIN w1.db.schema.tables
  <2>1. Fits(x.db, w.db, P) /\ DOMAIN w.db.rows = DOMAIN w.db.schema.tables
    BY <1>2, <1>3, <1>4 DEF InStep
  <2>2. /\ Fits(Effect(x.db, s), Narrowed(w.db, s), P)
        /\ DOMAIN Narrowed(w.db, s).rows = DOMAIN Narrowed(w.db, s).schema.tables
    BY <1>2, <1>3, <1>4, <2>1, NarrowedFits
  <2> QED BY <1>2, <1>3, <1>4, <2>2
<1>5. ASSUME w1.tidy, w1.legal PROVE x1.ok
  <2>1. x.ok /\ Fits(x.db, w.db, P) /\ DOMAIN w.db.rows = DOMAIN w.db.schema.tables
    BY <1>3, <1>5 DEF InStep
  <2>2. Legal(x.db, s)
    BY <1>3, <1>5, <2>1, LegalFits
  <2> QED BY <1>2, <2>1, <2>2
<1>6. InStep(w1, x1, P)
  BY <1>2, <1>3, <1>4, <1>5 DEF InStep
<1> QED BY <1>1, <1>6

\* A script runs on a database as it does on the template that it fits.
LEMMA WalkInStep ==
  ASSUME NEW P, Null \notin P, NEW T, NEW d, Fits(d, T, P), DOMAIN T.rows = DOMAIN T.schema.tables,
         NEW script, Len(script) \in Nat
  PROVE  \A n \in 0 .. Len(script) : InStep(Walking(T, script)[n], Executing(d, script)[n], P)
<1>1. PICK W, X : W = Walking(T, script) /\ X = Executing(d, script)
  OBVIOUS
<1>2. /\ W[0] = [tidy |-> TRUE, legal |-> TRUE, spares |-> TRUE, crewed |-> FALSE, db |-> T]
      /\ \A n \in 1 .. Len(script) : W[n] = Pace(T, W[n - 1], script[n])
  BY <1>1, WalkingSteps
<1>3. /\ X[0] = [ok |-> TRUE, db |-> d]
      /\ \A n \in 1 .. Len(script) : X[n] = Step(X[n - 1], script[n])
  BY <1>1, ExecutingSteps
<1> DEFINE S == {n \in Nat : n \in 0 .. Len(script) => InStep(W[n], X[n], P)}
<1>4. 0 \in S
  <2>1. InStep(W[0], X[0], P)
    BY <1>2, <1>3 DEF InStep
  <2> QED BY <2>1
<1>5. \A n \in Nat : n \in S => n + 1 \in S
  <2> SUFFICES ASSUME NEW n \in Nat, n \in S, n + 1 \in 0 .. Len(script)
               PROVE  InStep(W[n + 1], X[n + 1], P)
    OBVIOUS
  <2>1. PICK m, s : m = n + 1 /\ s = script[m]
    OBVIOUS
  <2>2. m \in 1 .. Len(script) /\ m - 1 = n /\ n \in 0 .. Len(script)
    BY <2>1
  <2>3. W[m] = Pace(T, W[m - 1], script[m])
    BY <1>2, <2>2
  <2>4. X[m] = Step(X[m - 1], script[m])
    BY <1>3, <2>2
  <2>5. InStep(W[n], X[n], P)
    BY <2>2
  <2>6. InStep(Pace(T, W[n], s), Step(X[n], s), P)
    BY <2>5, StepKeepsInStep
  <2> QED BY <2>1, <2>2, <2>3, <2>4, <2>6
<1>6. Nat \subseteq S
  <2> HIDE DEF S
  <2> QED BY <1>4, <1>5, SetInduction
<1> QED BY <1>1, <1>6

LEMMA ScriptFits ==
  ASSUME NEW P, Null \notin P, NEW T, NEW d, Fits(d, T, P), DOMAIN T.rows = DOMAIN T.schema.tables,
         NEW script, Len(script) \in Nat, Outcome(T, script).tidy
  PROVE  /\ Execute(d, script).ok => Fits(Execute(d, script).db, Outcome(T, script).db, P)
         /\ Outcome(T, script).legal => Execute(d, script).ok
<1>1. \A n \in 0 .. Len(script) : InStep(Walking(T, script)[n], Executing(d, script)[n], P)
  BY WalkInStep
<1>2. Len(script) \in 0 .. Len(script)
  OBVIOUS
<1>3. InStep(Outcome(T, script), Execute(d, script), P)
  BY <1>1, <1>2 DEF Outcome, Execute
<1> QED BY <1>3 DEF InStep

LEMMA WithinFits ==
  ASSUME NEW P, NEW T, NEW U, Within(T, U), NEW d, Fits(d, T, P)
  PROVE  Fits(d, U, P)
<1>1. /\ d = [schema |-> T.schema, rows |-> d.rows] /\ T.schema = U.schema
      /\ d.rows = [t \in DOMAIN T.rows |-> d.rows[t]] /\ DOMAIN T.rows = DOMAIN U.rows
      /\ "users" \in DOMAIN T.rows => d.rows["users"] = {UserRow(u) : u \in P}
  BY DEF Fits, RowsFit, Within
<1>2. ASSUME NEW t \in DOMAIN U.rows PROVE Shows(t, U.rows[t], d.rows[t], P)
  <2>1. Shows(t, T.rows[t], d.rows[t], P)
    BY <1>1 DEF Fits, RowsFit
  <2>2. CASE t \in CatalogueTables
    <3>1. {Visible(t, q) : q \in T.rows[t]} = {Visible(t, q) : q \in U.rows[t]}
      BY <1>1, <2>2 DEF Within
    <3> QED BY <2>1, <2>2, <3>1 DEF Shows
  <2>3. CASE t \notin CatalogueTables
    <3>1. T.rows[t] \subseteq U.rows[t]
      BY <1>1, <2>3 DEF Within
    <3>2. d.rows[t] \subseteq {Filled(q, u) : q \in T.rows[t], u \in P}
      BY <2>1, <2>3 DEF Shows
    <3>3. {Filled(q, u) : q \in T.rows[t], u \in P} \subseteq {Filled(q, u) : q \in U.rows[t], u \in P}
      BY <3>1
    <3> QED BY <2>3, <3>2, <3>3 DEF Shows
  <2> QED BY <2>2, <2>3
<1> QED BY <1>1, <1>2 DEF Fits, RowsFit

-----------------------------------------------------------------------------
(* Revisions.                                                              *)

LEMMA TemplateIs ==
  ASSUME NEW v
  PROVE  /\ Template(v).schema = Fresh[v + 1].schema
         /\ DOMAIN Template(v).rows = DOMAIN Fresh[v + 1].rows
         /\ \A t \in DOMAIN Fresh[v + 1].rows :
              Template(v).rows[t] =
                IF t \in CatalogueTables THEN Fresh[v + 1].rows[t] ELSE PlayerRows(v, t)
  BY DEF Template

\* Revision 0 has no tables.
LEMMA EmptyFits ==
  ASSUME NewFits, NEW d, NEW P
  PROVE  Fits(d, Template(0), P) <=> d = EmptyDb
<1>1. /\ Fresh[0 + 1] = EmptyDb /\ EmptyDb.rows = NoFields
      /\ EmptyDb = [schema |-> EmptyDb.schema, rows |-> EmptyDb.rows]
  BY DEF NewFits, EmptyDb
<1>2. Template(0).schema = EmptyDb.schema /\ DOMAIN Template(0).rows = DOMAIN EmptyDb.rows
  BY <1>1, TemplateIs
<1>3. DOMAIN EmptyDb.rows = {} /\ EmptyDb.rows = [t \in {} |-> {}]
  BY <1>1 DEF NoFields
<1>4. ASSUME Fits(d, Template(0), P) PROVE d = EmptyDb
  <2>1. d = [schema |-> EmptyDb.schema, rows |-> d.rows] /\ d.rows = [t \in {} |-> d.rows[t]]
    BY <1>2, <1>3, <1>4 DEF Fits, RowsFit
  <2>2. d.rows = EmptyDb.rows
    BY <1>3, <2>1
  <2> QED BY <1>1, <2>1, <2>2
<1>5. ASSUME d = EmptyDb PROVE Fits(d, Template(0), P)
  BY <1>1, <1>2, <1>3, <1>5 DEF Fits, RowsFit
<1> QED BY <1>4, <1>5

\* A downgrade leads to the template of the revision below.
LEMMA DowngradeLands ==
  ASSUME NEW v \in 1 .. HeadRevision, v \in Fitting, NEW P, Null \notin P,
         NEW d, Fits(d, Template(v), P), Execute(d, Downgrades[v]).ok
  PROVE  Fits(Execute(d, Downgrades[v]).db, Template(v - 1), P)
<1>1. PICK script, T : script = Downgrades[v] /\ T = Template(v)
  OBVIOUS
<1>2. v > 0
  BY DEF HeadRevision
<1>3. DowngradeFits(v) /\ Impartial(T)
  BY <1>1, <1>2 DEF Fitting, RevisionFits
<1>4. /\ Len(script) \in Nat /\ Outcome(T, script).tidy
      /\ Within(Outcome(T, script).db, Template(v - 1))
  BY <1>1, <1>3 DEF DowngradeFits
<1>5. Fits(Execute(d, script).db, Outcome(T, script).db, P)
  BY <1>1, <1>3, <1>4, ScriptFits DEF Impartial
<1> QED BY <1>1, <1>4, <1>5, WithinFits

\* An upgrade leads to the template of the head.
LEMMA UpgradeLands ==
  ASSUME NEW v \in 0 .. HeadRevision - 1, v \in Fitting, NEW P, Null \notin P,
         NEW d, Fits(d, Template(v), P), RunUpgrades(d, v).ok
  PROVE  \E Q \in SUBSET P : Fits(RunUpgrades(d, v).db, Template(HeadRevision), Q)
<1>1. CASE v = 0
  <2>1. NewFits
    BY <1>1 DEF Fitting, RevisionFits
  <2>2. d = EmptyDb
    BY <1>1, <2>1, EmptyFits
  <2>3. Fits(RunUpgrades(d, v).db, Template(HeadRevision), {})
    BY <1>1, <2>1, <2>2 DEF NewFits, RunUpgrades
  <2> QED BY <2>3
<1>2. CASE v # 0
  <2>1. PICK script, T : script = UpgradesFrom(v) /\ T = Template(v)
    OBVIOUS
  <2>2. v \in 1 .. HeadRevision - 1
    BY <1>2 DEF HeadRevision
  <2>3. UpgradeFits(v) /\ Impartial(T)
    BY <2>1, <2>2 DEF Fitting, RevisionFits
  <2>4. /\ Len(script) \in Nat /\ Outcome(T, script).tidy
        /\ Within(Outcome(T, script).db, Template(HeadRevision))
    BY <2>1, <2>3 DEF UpgradeFits
  <2>5. Fits(Execute(d, script).db, Outcome(T, script).db, P)
    BY <2>1, <2>3, <2>4, ScriptFits DEF Impartial, RunUpgrades
  <2>6. Fits(RunUpgrades(d, v).db, Template(HeadRevision), P)
    BY <2>1, <2>4, <2>5, WithinFits DEF RunUpgrades
  <2> QED BY <2>6
<1> QED BY <1>1, <1>2

-----------------------------------------------------------------------------
(* Requests of players.                                                    *)

LEMMA PlayerTables ==
  ASSUME NEW v
  PROVE  /\ Renting(v) \in {"bets", "rentals"}
         /\ Licensing(v) \in {"user_aircraft_type_unlocks", "user_aircraft_family_unlocks"}
         /\ {"wallet_ledger", "tracked_flights", "user_airport_unlocks", "user_airport_crew",
             Renting(v), Licensing(v)} \cap (CatalogueTables \cup {"users"}) = {}
  BY DEF Renting, Licensing, CatalogueTables

LEMMA PlayerRowsAre ==
  ASSUME NEW v
  PROVE  /\ PlayerRows(v, "users") = {UserRow(Player)}
         /\ PlayerRows(v, "wallet_ledger") = {LedgerRow(Player, x) : x \in Reasons(v)}
         /\ PlayerRows(v, "tracked_flights") = {FlightRow(Player, a) : a \in Served(Fresh[v + 1])}
         /\ PlayerRows(v, Renting(v)) = {RentalRow(v, Player, x) : x \in Statuses(v)}
         /\ PlayerRows(v, "user_airport_unlocks") = {UnlockRow(Player, a) : a \in Locked(Fresh[v + 1])}
         /\ PlayerRows(v, Licensing(v)) =
              {LicenceRow(v, Player, l) : l \in Licensed(Fresh[v + 1], v)}
         /\ PlayerRows(v, "user_airport_crew") =
              {CrewRow(Player, a, n) : a \in CrewAirports, n \in {1, 2}}
<1>1. PlayerRows(v, "users") = {UserRow(Player)}
  BY PlayerTables DEF PlayerRows
<1>2. PlayerRows(v, "wallet_ledger") = {LedgerRow(Player, x) : x \in Reasons(v)}
  BY PlayerTables DEF PlayerRows
<1>3. PlayerRows(v, "tracked_flights") = {FlightRow(Player, a) : a \in Served(Fresh[v + 1])}
  BY PlayerTables DEF PlayerRows
<1>4. PlayerRows(v, Renting(v)) = {RentalRow(v, Player, x) : x \in Statuses(v)}
  BY PlayerTables DEF PlayerRows
<1>5. PlayerRows(v, "user_airport_unlocks") = {UnlockRow(Player, a) : a \in Locked(Fresh[v + 1])}
  BY PlayerTables DEF PlayerRows
<1>6. PlayerRows(v, Licensing(v)) = {LicenceRow(v, Player, l) : l \in Licensed(Fresh[v + 1], v)}
  BY PlayerTables DEF PlayerRows
<1>7. PlayerRows(v, "user_airport_crew") = {CrewRow(Player, a, n) : a \in CrewAirports, n \in {1, 2}}
  BY PlayerTables DEF PlayerRows
<1> QED BY <1>1, <1>2, <1>3, <1>4, <1>5, <1>6, <1>7

LEMMA RowsFilled ==
  ASSUME NEW u
  PROVE  /\ Filled(UserRow(Player), u) = UserRow(u)
         /\ \A x : Filled(LedgerRow(Player, x), u) = LedgerRow(u, x)
         /\ \A a : Filled(FlightRow(Player, a), u) = FlightRow(u, a)
         /\ \A v, x : Filled(RentalRow(v, Player, x), u) = RentalRow(v, u, x)
         /\ \A a : Filled(UnlockRow(Player, a), u) = UnlockRow(u, a)
         /\ \A v, l : Filled(LicenceRow(v, Player, l), u) = LicenceRow(v, u, l)
         /\ \A a, n : Filled(CrewRow(Player, a, n), u) = CrewRow(u, a, n)
<1>1. Filled(UserRow(Player), u) = UserRow(u)
  BY DEF Filled, UserRow, PlayerColumns
<1>2. \A x : Filled(LedgerRow(Player, x), u) = LedgerRow(u, x)
  BY DEF Filled, LedgerRow, PlayerColumns
<1>3. \A a : Filled(FlightRow(Player, a), u) = FlightRow(u, a)
  BY DEF Filled, FlightRow, PlayerColumns
<1>4. \A v, x : Filled(RentalRow(v, Player, x), u) = RentalRow(v, u, x)
  <2> SUFFICES ASSUME NEW v, NEW x PROVE Filled(RentalRow(v, Player, x), u) = RentalRow(v, u, x)
    OBVIOUS
  <2>1. CASE v < 18
    BY <2>1 DEF Filled, RentalRow, PlayerColumns
  <2>2. CASE ~(v < 18)
    BY <2>2 DEF Filled, RentalRow, PlayerColumns
  <2> QED BY <2>1, <2>2
<1>5. \A a : Filled(UnlockRow(Player, a), u) = UnlockRow(u, a)
  BY DEF Filled, UnlockRow, PlayerColumns
<1>6. \A v, l : Filled(LicenceRow(v, Player, l), u) = LicenceRow(v, u, l)
  <2> SUFFICES ASSUME NEW v, NEW l PROVE Filled(LicenceRow(v, Player, l), u) = LicenceRow(v, u, l)
    OBVIOUS
  <2>1. CASE v < 15
    BY <2>1 DEF Filled, LicenceRow, PlayerColumns
  <2>2. CASE ~(v < 15)
    BY <2>2 DEF Filled, LicenceRow, PlayerColumns
  <2> QED BY <2>1, <2>2
<1>7. \A a, n : Filled(CrewRow(Player, a, n), u) = CrewRow(u, a, n)
  BY DEF Filled, CrewRow, PlayerColumns
<1> QED BY <1>1, <1>2, <1>3, <1>4, <1>5, <1>6, <1>7

\* Other rows of one table.
LEMMA ExceptFits ==
  ASSUME NEW T, NEW d, NEW P, Fits(d, T, P),
         NEW t \in DOMAIN T.rows, t # "users", NEW A, Shows(t, T.rows[t], A, P)
  PROVE  Fits([d EXCEPT !.rows[t] = A], T, P)
<1>1. PICK e : e = [d EXCEPT !.rows[t] = A]
  OBVIOUS
<1>2. /\ d = [schema |-> T.schema, rows |-> d.rows]
      /\ d.rows = [x \in DOMAIN T.rows |-> d.rows[x]]
      /\ \A x \in DOMAIN T.rows : Shows(x, T.rows[x], d.rows[x], P)
      /\ "users" \in DOMAIN T.rows => d.rows["users"] = {UserRow(u) : u \in P}
  BY DEF Fits, RowsFit
<1>3. e.rows = [d.rows EXCEPT ![t] = A] /\ e = [schema |-> T.schema, rows |-> e.rows]
  BY <1>1, <1>2
<1>4. /\ e.rows = [x \in DOMAIN T.rows |-> e.rows[x]]
      /\ e.rows[t] = A /\ \A x \in DOMAIN T.rows : x # t => e.rows[x] = d.rows[x]
  BY <1>2, <1>3
<1>5. Fits(e, T, P)
  BY <1>2, <1>3, <1>4 DEF Fits, RowsFit
<1> QED BY <1>1, <1>5

LEMMA WithFits ==
  ASSUME NEW T, NEW d, NEW P, Fits(d, T, P),
         NEW t \in DOMAIN T.rows, t \notin CatalogueTables \cup {"users"},
         NEW q \in T.rows[t], NEW u \in P
  PROVE  Fits(With(d, t, {Filled(q, u)}), T, P)
<1>1. Shows(t, T.rows[t], d.rows[t], P)
  BY DEF Fits, RowsFit
<1>2. d.rows[t] \subseteq {Filled(x, y) : x \in T.rows[t], y \in P}
  BY <1>1 DEF Shows
<1>3. PICK A : A = d.rows[t] \cup {Filled(q, u)}
  OBVIOUS
<1>4. A \subseteq {Filled(x, y) : x \in T.rows[t], y \in P}
  BY <1>2, <1>3
<1>5. Shows(t, T.rows[t], A, P)
  BY <1>4 DEF Shows
<1>6. Fits([d EXCEPT !.rows[t] = A], T, P)
  BY <1>5, ExceptFits
<1>7. With(d, t, {Filled(q, u)}) = [d EXCEPT !.rows[t] = A]
  BY <1>3 DEF With
<1> QED BY <1>6, <1>7

LEMMA JoinFits ==
  ASSUME NEW T, NEW d, NEW P, Fits(d, T, P), "users" \in DOMAIN T.rows,
         T.rows["users"] = {UserRow(Player)}, NEW u
  PROVE  Fits(With(d, "users", {UserRow(u)}), T, P \cup {u})
<1>1. PICK e : e = With(d, "users", {UserRow(u)})
  OBVIOUS
<1>2. PICK N : N = P \cup {u}
  OBVIOUS
<1>3. /\ d = [schema |-> T.schema, rows |-> d.rows]
      /\ d.rows = [x \in DOMAIN T.rows |-> d.rows[x]]
      /\ \A x \in DOMAIN T.rows : Shows(x, T.rows[x], d.rows[x], P)
      /\ d.rows["users"] = {UserRow(x) : x \in P}
  BY DEF Fits, RowsFit
<1>4. e.rows = [d.rows EXCEPT !["users"] = d.rows["users"] \cup {UserRow(u)}]
      /\ e = [schema |-> T.schema, rows |-> e.rows]
  BY <1>1, <1>3 DEF With
<1>5. /\ e.rows = [x \in DOMAIN T.rows |-> e.rows[x]]
      /\ e.rows["users"] = d.rows["users"] \cup {UserRow(u)}
      /\ \A x \in DOMAIN T.rows : x # "users" => e.rows[x] = d.rows[x]
  BY <1>3, <1>4
<1>6. e.rows["users"] = {UserRow(x) : x \in N}
  BY <1>2, <1>3, <1>5
<1>7. ASSUME NEW t \in DOMAIN T.rows PROVE Shows(t, T.rows[t], e.rows[t], N)
  <2>1. CASE t = "users"
    <3>1. "users" \notin CatalogueTables
      BY DEF CatalogueTables
    <3>2. \A x : Filled(UserRow(Player), x) = UserRow(x)
      BY RowsFilled
    <3>3. e.rows["users"] \subseteq {Filled(q, x) : q \in T.rows["users"], x \in N}
      BY <1>6, <3>2
    <3> QED BY <2>1, <3>1, <3>3 DEF Shows
  <2>2. CASE t # "users" /\ t \in CatalogueTables
    <3>1. Shows(t, T.rows[t], d.rows[t], P) /\ e.rows[t] = d.rows[t]
      BY <1>3, <1>5, <2>2
    <3> QED BY <2>2, <3>1 DEF Shows
  <2>3. CASE t # "users" /\ t \notin CatalogueTables
    <3>1. Shows(t, T.rows[t], d.rows[t], P) /\ e.rows[t] = d.rows[t]
      BY <1>3, <1>5, <2>3
    <3>2. d.rows[t] \subseteq {Filled(q, x) : q \in T.rows[t], x \in P}
      BY <2>3, <3>1 DEF Shows
    <3>3. {Filled(q, x) : q \in T.rows[t], x \in P} \subseteq {Filled(q, x) : q \in T.rows[t], x \in N}
      BY <1>2
    <3> QED BY <2>3, <3>1, <3>2, <3>3 DEF Shows
  <2> QED BY <2>1, <2>2, <2>3
<1>8. Fits(e, T, N)
  BY <1>4, <1>5, <1>6, <1>7 DEF Fits, RowsFit
<1> QED BY <1>1, <1>2, <1>8

\* The rows of a template for the tables that players write.
LEMMA PlayersHave ==
  ASSUME NEW v \in 1 .. HeadRevision, v \in Fitting, NEW T, T = Template(v)
  PROVE  /\ "users" \in DOMAIN T.rows /\ T.rows["users"] = {UserRow(Player)}
         /\ "wallet_ledger" \in DOMAIN T.rows
         /\ T.rows["wallet_ledger"] = {LedgerRow(Player, x) : x \in Reasons(v)}
         /\ "tracked_flights" \in DOMAIN T.rows
         /\ T.rows["tracked_flights"] = {FlightRow(Player, a) : a \in Served(Fresh[v + 1])}
         /\ Renting(v) \in DOMAIN T.rows
         /\ T.rows[Renting(v)] = {RentalRow(v, Player, x) : x \in Statuses(v)}
         /\ v >= 3 =>
              /\ "user_airport_unlocks" \in DOMAIN T.rows
              /\ T.rows["user_airport_unlocks"] = {UnlockRow(Player, a) : a \in Locked(Fresh[v + 1])}
              /\ Licensing(v) \in DOMAIN T.rows
              /\ T.rows[Licensing(v)] =
                   {LicenceRow(v, Player, l) : l \in Licensed(Fresh[v + 1], v)}
         /\ v >= 19 =>
              /\ "user_airport_crew" \in DOMAIN T.rows
              /\ T.rows["user_airport_crew"] =
                   {CrewRow(Player, a, n) : a \in CrewAirports, n \in {1, 2}}
<1>1. TablesFit(v)
  <2>1. v > 0
    BY DEF HeadRevision
  <2> QED BY <2>1 DEF Fitting, RevisionFits
<1>2. PICK F : F = Fresh[v + 1]
  OBVIOUS
<1>3. /\ DOMAIN T.rows = DOMAIN F.rows
      /\ \A t \in DOMAIN F.rows : t \notin CatalogueTables => T.rows[t] = PlayerRows(v, t)
  BY <1>2, TemplateIs
<1>4. /\ {"users", "wallet_ledger", "tracked_flights", Renting(v)} \subseteq DOMAIN F.rows
      /\ v >= 3 => {"user_airport_unlocks", Licensing(v)} \subseteq DOMAIN F.rows
      /\ v >= 19 => "user_airport_crew" \in DOMAIN F.rows
  <2>1. v \in Nat
    BY DEF HeadRevision
  <2> QED BY <1>1, <1>2, <2>1 DEF TablesFit
<1>5. "users" \notin CatalogueTables
  BY DEF CatalogueTables
<1>6. \A t \in {"wallet_ledger", "tracked_flights", "user_airport_unlocks", "user_airport_crew",
                Renting(v), Licensing(v)} : t \notin CatalogueTables
  BY PlayerTables
<1>7. "users" \in DOMAIN T.rows /\ T.rows["users"] = {UserRow(Player)}
  BY <1>3, <1>4, <1>5, PlayerRowsAre
<1>8. /\ "wallet_ledger" \in DOMAIN T.rows
      /\ T.rows["wallet_ledger"] = {LedgerRow(Player, x) : x \in Reasons(v)}
  BY <1>3, <1>4, <1>6, PlayerRowsAre
<1>9. /\ "tracked_flights" \in DOMAIN T.rows
      /\ T.rows["tracked_flights"] = {FlightRow(Player, a) : a \in Served(Fresh[v + 1])}
  BY <1>3, <1>4, <1>6, PlayerRowsAre
<1>10. /\ Renting(v) \in DOMAIN T.rows
       /\ T.rows[Renting(v)] = {RentalRow(v, Player, x) : x \in Statuses(v)}
  BY <1>3, <1>4, <1>6, PlayerRowsAre
<1>11. ASSUME v >= 3
       PROVE  /\ "user_airport_unlocks" \in DOMAIN T.rows
              /\ T.rows["user_airport_unlocks"] = {UnlockRow(Player, a) : a \in Locked(Fresh[v + 1])}
  BY <1>3, <1>4, <1>6, <1>11, PlayerRowsAre
<1>12. ASSUME v >= 3
       PROVE  /\ Licensing(v) \in DOMAIN T.rows
              /\ T.rows[Licensing(v)] =
                   {LicenceRow(v, Player, l) : l \in Licensed(Fresh[v + 1], v)}
  BY <1>3, <1>4, <1>6, <1>12, PlayerRowsAre
<1>13. ASSUME v >= 19
       PROVE  /\ "user_airport_crew" \in DOMAIN T.rows
              /\ T.rows["user_airport_crew"] =
                   {CrewRow(Player, a, n) : a \in CrewAirports, n \in {1, 2}}
  BY <1>3, <1>4, <1>6, <1>13, PlayerRowsAre
<1> QED BY <1>7, <1>8, <1>9, <1>10, <1>11, <1>12, <1>13

\* What there is to rent, to unlock and to license is the same as in a
\* database that nobody has used.
LEMMA SameOffers ==
  ASSUME NEW v \in 1 .. HeadRevision, v \in Fitting, NEW P, NEW d, Fits(d, Template(v), P)
  PROVE  /\ Served(d) = Served(Fresh[v + 1]) /\ Locked(d) = Locked(Fresh[v + 1])
         /\ Licensed(d, v) = Licensed(Fresh[v + 1], v)
         /\ DOMAIN d.rows = DOMAIN Fresh[v + 1].rows
         /\ \A t \in DOMAIN d.rows \cap CatalogueTables : Keys(d.rows, t) = Keys(Fresh[v + 1].rows, t)
         /\ Keys(d.rows, "users") = P
<1>1. PICK T, F : T = Template(v) /\ F = Fresh[v + 1]
  OBVIOUS
<1>2. v > 0
  BY DEF HeadRevision
<1>3. /\ \A t \in DOMAIN F.rows \cap CatalogueTables : Open(T, t, KeyOf(t))
      /\ "airports" \in DOMAIN F.rows
  BY <1>1, <1>2 DEF Fitting, RevisionFits, TablesFit
<1>4. DOMAIN T.rows = DOMAIN F.rows /\ \A t \in DOMAIN F.rows \cap CatalogueTables : T.rows[t] = F.rows[t]
  BY <1>1, TemplateIs
<1>5. RowsFit(d.rows, T.rows, P) /\ DOMAIN d.rows = DOMAIN F.rows
  BY <1>1, <1>4 DEF Fits, RowsFit
<1>6. \A t \in DOMAIN F.rows \cap CatalogueTables : Keys(d.rows, t) = Keys(T.rows, t)
  BY <1>3, <1>4, <1>5, KeysFit
<1>7. \A t \in DOMAIN F.rows \cap CatalogueTables : Keys(d.rows, t) = Keys(F.rows, t)
  BY <1>4, <1>6 DEF Keys
<1>8. "airports" \in CatalogueTables
  BY DEF CatalogueTables
<1>9. Served(d) = Served(F) /\ Locked(d) = Locked(F)
  BY <1>3, <1>7, <1>8 DEF Served, Locked
<1>10. Licensed(d, v) = Licensed(F, v)
  <2>1. v >= 3 => "aircraft_types" \in DOMAIN F.rows
    BY <1>1, <1>2 DEF Fitting, RevisionFits, TablesFit, HeadRevision
  <2>2. v >= 15 => "aircraft_families" \in DOMAIN F.rows
    BY <1>1, <1>2 DEF Fitting, RevisionFits, TablesFit, HeadRevision
  <2>3. {"aircraft_types", "aircraft_families"} \subseteq CatalogueTables /\ v \in Nat
    BY DEF CatalogueTables, HeadRevision
  <2> QED BY <1>7, <2>1, <2>2, <2>3 DEF Licensed
<1>11. Keys(d.rows, "users") = P
  <2>1. "users" \in DOMAIN T.rows
    BY <1>1, PlayersHave
  <2> QED BY <1>5, <2>1, KeysOfUsers DEF RowsFit
<1> QED BY <1>1, <1>5, <1>7, <1>9, <1>10, <1>11

LEMMA PaysFits ==
  ASSUME NEW v \in 1 .. HeadRevision, v \in Fitting, NEW P, NEW d, Fits(d, Template(v), P),
         NEW u \in P, NEW reason \in Reasons(v)
  PROVE  Fits(Pays(d, u, reason), Template(v), P)
<1>1. PICK T, q : T = Template(v) /\ q = LedgerRow(Player, reason)
  OBVIOUS
<1>2. "wallet_ledger" \in DOMAIN T.rows /\ q \in T.rows["wallet_ledger"]
  BY <1>1, PlayersHave
<1>3. "wallet_ledger" \notin CatalogueTables \cup {"users"}
  BY PlayerTables
<1>4. Fits(With(d, "wallet_ledger", {Filled(q, u)}), T, P)
  BY <1>1, <1>2, <1>3, WithFits
<1>5. Filled(q, u) = LedgerRow(u, reason)
  BY <1>1, RowsFilled
<1> QED BY <1>1, <1>4, <1>5 DEF Pays

LEMMA SignUpFits ==
  ASSUME NEW v \in 1 .. HeadRevision, v \in Fitting, NEW P, NEW d, Fits(d, Template(v), P), NEW u
  PROVE  Fits(SignUp(d, v, u), Template(v), P \cup {u})
<1>1. PICK T, N, e : T = Template(v) /\ N = P \cup {u} /\ e = With(d, "users", {UserRow(u)})
  OBVIOUS
<1>2. "users" \in DOMAIN T.rows /\ T.rows["users"] = {UserRow(Player)}
  BY <1>1, PlayersHave
<1>3. Fits(e, T, N)
  BY <1>1, <1>2, JoinFits
<1>4. PICK joined : joined = Pays(e, u, "signup_bonus")
  OBVIOUS
<1>5. Fits(joined, T, N)
  <2>1. "signup_bonus" \in Reasons(v) /\ u \in N
    BY <1>1 DEF Reasons
  <2> QED BY <1>1, <1>3, <1>4, <2>1, PaysFits
<1>6. CASE v < 19
  BY <1>1, <1>4, <1>5, <1>6 DEF SignUp
<1>7. CASE ~(v < 19)
  <2>1. /\ "user_airport_crew" \in DOMAIN T.rows
        /\ T.rows["user_airport_crew"] = {CrewRow(Player, a, n) : a \in CrewAirports, n \in {1, 2}}
    BY <1>1, <1>7, PlayersHave DEF HeadRevision
  <2>2. "user_airport_crew" \notin CatalogueTables
    BY PlayerTables
  <2>3. PICK A : A = joined.rows["user_airport_crew"] \cup {CrewRow(u, a, 1) : a \in CrewAirports}
    OBVIOUS
  <2>4. A \subseteq {Filled(q, x) : q \in T.rows["user_airport_crew"], x \in N}
    <3>1. joined.rows["user_airport_crew"] \subseteq
            {Filled(q, x) : q \in T.rows["user_airport_crew"], x \in N}
      BY <1>5, <2>1, <2>2 DEF Fits, RowsFit, Shows
    <3>2. ASSUME NEW a \in CrewAirports
          PROVE  CrewRow(u, a, 1) \in {Filled(q, x) : q \in T.rows["user_airport_crew"], x \in N}
      <4>1. CrewRow(Player, a, 1) \in T.rows["user_airport_crew"]
        BY <2>1
      <4>2. Filled(CrewRow(Player, a, 1), u) = CrewRow(u, a, 1)
        BY RowsFilled
      <4> QED BY <1>1, <4>1, <4>2
    <3> QED BY <2>3, <3>1, <3>2
  <2>5. Shows("user_airport_crew", T.rows["user_airport_crew"], A, N)
    BY <2>2, <2>4 DEF Shows
  <2>6. Fits([joined EXCEPT !.rows["user_airport_crew"] = A], T, N)
    BY <1>5, <2>1, <2>5, ExceptFits
  <2>7. SignUp(d, v, u) = [joined EXCEPT !.rows["user_airport_crew"] = A]
    BY <1>1, <1>4, <1>7, <2>3 DEF SignUp, With
  <2> QED BY <1>1, <2>6, <2>7
<1> QED BY <1>6, <1>7

LEMMA RentFits ==
  ASSUME NEW v \in 1 .. HeadRevision, v \in Fitting, NEW P, NEW d, Fits(d, Template(v), P),
         NEW u \in P, NEW a \in Served(d)
  PROVE  Fits(Rent(d, v, u, a), Template(v), P)
<1>1. PICK T, t, q1, q2 : /\ T = Template(v) /\ t = Renting(v)
                          /\ q1 = FlightRow(Player, a) /\ q2 = RentalRow(v, Player, Underway(v))
  OBVIOUS
<1>2. "tracked_flights" \in DOMAIN T.rows /\ q1 \in T.rows["tracked_flights"]
  BY <1>1, PlayersHave, SameOffers
<1>3. t \in DOMAIN T.rows /\ q2 \in T.rows[t]
  BY <1>1, PlayersHave DEF Statuses
<1>4. {"tracked_flights", t} \cap (CatalogueTables \cup {"users"}) = {}
  BY <1>1, PlayerTables
<1>5. PICK d1 : d1 = With(d, "tracked_flights", {Filled(q1, u)})
  OBVIOUS
<1>6. Fits(d1, T, P)
  BY <1>1, <1>2, <1>4, <1>5, WithFits
<1>7. PICK d2 : d2 = With(d1, t, {Filled(q2, u)})
  OBVIOUS
<1>8. Fits(d2, T, P)
  BY <1>3, <1>4, <1>6, <1>7, WithFits
<1>9. Fits(Pays(d2, u, PaidFor(v)), T, P)
  <2>1. PaidFor(v) \in Reasons(v)
    BY DEF Reasons
  <2> QED BY <1>1, <1>8, <2>1, PaysFits
<1>10. Filled(q1, u) = FlightRow(u, a) /\ Filled(q2, u) = RentalRow(v, u, Underway(v))
  BY <1>1, RowsFilled
<1> QED BY <1>1, <1>5, <1>7, <1>9, <1>10 DEF Rent

\* Whose rental is under way is one of the players.
LEMMA RentersArePlayers ==
  ASSUME NEW v \in 1 .. HeadRevision, v \in Fitting, NEW P, NEW d, Fits(d, Template(v), P)
  PROVE  Renters(d, v) \subseteq P
<1>1. PICK T, t : T = Template(v) /\ t = Renting(v)
  OBVIOUS
<1>2. t \in DOMAIN T.rows /\ T.rows[t] = {RentalRow(v, Player, x) : x \in Statuses(v)}
  BY <1>1, PlayersHave
<1>3. t \notin CatalogueTables
  BY <1>1, PlayerTables
<1>4. d.rows[t] \subseteq {Filled(q, u) : q \in T.rows[t], u \in P}
  BY <1>1, <1>2, <1>3 DEF Fits, RowsFit, Shows
<1>5. ASSUME NEW r \in d.rows[t] PROVE r.id \in P
  <2>1. PICK x \in Statuses(v), u \in P : r = Filled(RentalRow(v, Player, x), u)
    BY <1>2, <1>4
  <2>2. r = RentalRow(v, u, x)
    BY <2>1, RowsFilled
  <2>3. r.id = u
    BY <2>2 DEF RentalRow
  <2> QED BY <2>3
<1> QED BY <1>1, <1>5 DEF Renters

LEMMA SettleFits ==
  ASSUME NEW v \in 1 .. HeadRevision, v \in Fitting, NEW P, NEW d, Fits(d, Template(v), P),
         NEW u \in P
  PROVE  Fits(Settle(d, v, u), Template(v), P)
<1>1. PICK T, t, new : T = Template(v) /\ t = Renting(v) /\ new = RentalRow(v, u, Settled(v))
  OBVIOUS
<1>2. t \in DOMAIN T.rows /\ T.rows[t] = {RentalRow(v, Player, x) : x \in Statuses(v)}
  BY <1>1, PlayersHave
<1>3. t \notin CatalogueTables \cup {"users"}
  BY <1>1, PlayerTables
<1>4. d.rows[t] \subseteq {Filled(q, x) : q \in T.rows[t], x \in P}
  BY <1>1, <1>2, <1>3 DEF Fits, RowsFit, Shows
<1>5. new \in {Filled(q, x) : q \in T.rows[t], x \in P}
  <2>1. new = Filled(RentalRow(v, Player, Settled(v)), u)
    BY <1>1, RowsFilled
  <2>2. RentalRow(v, Player, Settled(v)) \in T.rows[t]
    BY <1>2 DEF Statuses
  <2> QED BY <2>1, <2>2
<1>6. PICK A : A = {IF r.id = u THEN new ELSE r : r \in d.rows[t]}
  OBVIOUS
<1>7. A \subseteq {Filled(q, x) : q \in T.rows[t], x \in P}
  BY <1>4, <1>5, <1>6
<1>8. Shows(t, T.rows[t], A, P)
  BY <1>3, <1>7 DEF Shows
<1>9. PICK e : e = [d EXCEPT !.rows[t] = A]
  OBVIOUS
<1>10. Fits(e, T, P)
  BY <1>1, <1>2, <1>3, <1>8, <1>9, ExceptFits
<1>11. Fits(Pays(e, u, PaidOut(v)), T, P)
  <2>1. PaidOut(v) \in Reasons(v)
    BY DEF Reasons
  <2> QED BY <1>1, <1>10, <2>1, PaysFits
<1> QED BY <1>1, <1>6, <1>9, <1>11 DEF Settle

LEMMA UnlockAirportFits ==
  ASSUME NEW v \in 3 .. HeadRevision, v \in Fitting, NEW P, NEW d, Fits(d, Template(v), P),
         NEW u \in P, NEW a \in Locked(d)
  PROVE  Fits(UnlockAirport(d, u, a), Template(v), P)
<1>1. PICK T, q : T = Template(v) /\ q = UnlockRow(Player, a)
  OBVIOUS
<1>2. v \in 1 .. HeadRevision /\ v >= 3
  BY DEF HeadRevision
<1>3. /\ "user_airport_unlocks" \in DOMAIN T.rows /\ q \in T.rows["user_airport_unlocks"]
      /\ "user_airport_unlocks" \notin CatalogueTables \cup {"users"}
  BY <1>1, <1>2, PlayersHave, SameOffers, PlayerTables
<1>4. "airports" \in DOMAIN T.rows /\ "airports" \in CatalogueTables /\ "airports" # "users"
  <2>1. v > 0
    BY <1>2 DEF HeadRevision
  <2>2. "airports" \in DOMAIN Fresh[v + 1].rows
    BY <2>1 DEF Fitting, RevisionFits, TablesFit
  <2> QED BY <1>1, <2>2, TemplateIs DEF CatalogueTables
<1> DEFINE Opened(r) == IF r.icao4 = a THEN [r EXCEPT !.is_active = TRUE] ELSE r
<1>5. ASSUME NEW r PROVE Visible("airports", Opened(r)) = Visible("airports", r)
  <2>1. "is_active" \in Hidden("airports")
    BY DEF Hidden
  <2> QED BY <2>1, SameVisible
<1>6. PICK A : A = {Opened(r) : r \in d.rows["airports"]}
  OBVIOUS
<1>7. Shows("airports", T.rows["airports"], A, P)
  <2>1. {Visible("airports", r) : r \in d.rows["airports"]} = {Visible("airports", x) : x \in T.rows["airports"]}
    BY <1>1, <1>4 DEF Fits, RowsFit, Shows
  <2> HIDE DEF Opened
  <2>2. {Visible("airports", r) : r \in A} = {Visible("airports", r) : r \in d.rows["airports"]}
    BY <1>5, <1>6
  <2> QED BY <1>4, <2>1, <2>2 DEF Shows
<1>8. PICK d1 : d1 = [d EXCEPT !.rows["airports"] = A]
  OBVIOUS
<1>9. Fits(d1, T, P)
  BY <1>1, <1>4, <1>7, <1>8, ExceptFits
<1>10. PICK d2 : d2 = With(d1, "user_airport_unlocks", {Filled(q, u)})
  OBVIOUS
<1>11. Fits(d2, T, P)
  BY <1>3, <1>9, <1>10, WithFits
<1>12. Fits(Pays(d2, u, "license_purchase"), T, P)
  <2>1. "license_purchase" \in Reasons(v)
    BY DEF Reasons
  <2> QED BY <1>1, <1>2, <1>11, <2>1, PaysFits
<1>13. Filled(q, u) = UnlockRow(u, a)
  BY <1>1, RowsFilled
<1>14. d1 = [d EXCEPT !.rows["airports"] =
               {IF r.icao4 = a THEN [r EXCEPT !.is_active = TRUE] ELSE r : r \in @}]
  BY <1>6, <1>8
<1> QED BY <1>1, <1>10, <1>12, <1>13, <1>14 DEF UnlockAirport

LEMMA UnlockAircraftFits ==
  ASSUME NEW v \in 1 .. HeadRevision, v \in Fitting, NEW P, NEW d, Fits(d, Template(v), P),
         NEW u \in P, NEW l \in Licensed(d, v)
  PROVE  Fits(UnlockAircraft(d, v, u, l), Template(v), P)
<1>1. PICK T, t, q : T = Template(v) /\ t = Licensing(v) /\ q = LicenceRow(v, Player, l)
  OBVIOUS
<1>2. v >= 3 /\ l \in Licensed(Fresh[v + 1], v)
  <2>1. v >= 3
    BY DEF Licensed, HeadRevision
  <2>2. Licensed(d, v) = Licensed(Fresh[v + 1], v)
    BY SameOffers
  <2> QED BY <2>1, <2>2
<1>3. t \in DOMAIN T.rows /\ q \in T.rows[t] /\ t \notin CatalogueTables \cup {"users"}
  BY <1>1, <1>2, PlayersHave, PlayerTables
<1>4. PICK e : e = With(d, t, {Filled(q, u)})
  OBVIOUS
<1>5. Fits(e, T, P)
  BY <1>1, <1>3, <1>4, WithFits
<1>6. Fits(Pays(e, u, "license_purchase"), T, P)
  <2>1. "license_purchase" \in Reasons(v)
    BY DEF Reasons
  <2> QED BY <1>1, <1>5, <2>1, PaysFits
<1>7. Filled(q, u) = LicenceRow(v, u, l)
  BY <1>1, RowsFilled
<1> QED BY <1>1, <1>4, <1>6, <1>7 DEF UnlockAircraft

LEMMA HireCrewFits ==
  ASSUME NEW v \in 19 .. HeadRevision, v \in Fitting, NEW P, NEW d, Fits(d, Template(v), P),
         NEW u \in P
  PROVE  Fits(HireCrew(d, u), Template(v), P)
<1>1. PICK T, t, new : T = Template(v) /\ t = "user_airport_crew" /\ new = CrewRow(u, "OMDB", 2)
  OBVIOUS
<1>2. v \in 1 .. HeadRevision /\ v >= 19
  BY DEF HeadRevision
<1>3. t \in DOMAIN T.rows /\ T.rows[t] = {CrewRow(Player, a, n) : a \in CrewAirports, n \in {1, 2}}
  BY <1>1, <1>2, PlayersHave
<1>4. t \notin CatalogueTables \cup {"users"}
  BY <1>1, PlayerTables
<1>5. d.rows[t] \subseteq {Filled(q, x) : q \in T.rows[t], x \in P}
  BY <1>1, <1>3, <1>4 DEF Fits, RowsFit, Shows
<1>6. new \in {Filled(q, x) : q \in T.rows[t], x \in P}
  <2>1. new = Filled(CrewRow(Player, "OMDB", 2), u)
    BY <1>1, RowsFilled
  <2>2. CrewRow(Player, "OMDB", 2) \in T.rows[t]
    BY <1>3 DEF CrewAirports
  <2> QED BY <2>1, <2>2
<1>7. PICK A : A = {IF r.user_id = u /\ r.airport_id = "OMDB" THEN new ELSE r : r \in d.rows[t]}
  OBVIOUS
<1>8. A \subseteq {Filled(q, x) : q \in T.rows[t], x \in P}
  BY <1>5, <1>6, <1>7
<1>9. Shows(t, T.rows[t], A, P)
  BY <1>4, <1>8 DEF Shows
<1>10. PICK e : e = [d EXCEPT !.rows[t] = A]
  OBVIOUS
<1>11. Fits(e, T, P)
  BY <1>1, <1>3, <1>4, <1>9, <1>10, ExceptFits
<1>12. Fits(Pays(e, u, "crew_hire"), T, P)
  <2>1. "crew_hire" \in Reasons(v)
    BY <1>2 DEF Reasons
  <2> QED BY <1>1, <1>2, <1>11, <2>1, PaysFits
<1> QED BY <1>1, <1>7, <1>10, <1>12 DEF HireCrew

\* Every request leads to rows of the template.
LEMMA RequestsFit ==
  ASSUME NEW v \in Fitting, NEW P \in SUBSET Users, NEW d, Fits(d, Template(v), P),
         NEW e \in Requests(d, v)
  PROVE  \E Q \in SUBSET Users : Fits(e, Template(v), Q)
<1>1. v # 0
  BY DEF Requests
<1>2. v \in 1 .. HeadRevision
  BY <1>1 DEF Fitting, HeadRevision
<1>3. Keys(d.rows, "users") = P
  BY <1>2, SameOffers
<1>4. \/ \E u \in Users \ P : e = SignUp(d, v, u)
      \/ \E u \in P \ Keys(d.rows, Renting(v)), a \in Served(d) : e = Rent(d, v, u, a)
      \/ \E u \in Renters(d, v) : e = Settle(d, v, u)
      \/ \E u \in P, a \in IF v < 3 THEN {} ELSE Locked(d) : e = UnlockAirport(d, u, a)
      \/ \E u \in P, l \in Licensed(d, v) : e = UnlockAircraft(d, v, u, l)
      \/ \E u \in IF v < 19 THEN {} ELSE P : e = HireCrew(d, u)
  BY <1>1, <1>3 DEF Requests
<1>5. CASE \E u \in Users \ P : e = SignUp(d, v, u)
  <2>1. PICK u \in Users \ P : e = SignUp(d, v, u)
    BY <1>5
  <2>2. Fits(e, Template(v), P \cup {u})
    BY <1>2, <2>1, SignUpFits
  <2> QED BY <2>2
<1>6. CASE \E u \in P \ Keys(d.rows, Renting(v)), a \in Served(d) : e = Rent(d, v, u, a)
  BY <1>2, <1>6, RentFits
<1>7. CASE \E u \in Renters(d, v) : e = Settle(d, v, u)
  BY <1>2, <1>7, RentersArePlayers, SettleFits
<1>8. CASE \E u \in P, a \in IF v < 3 THEN {} ELSE Locked(d) : e = UnlockAirport(d, u, a)
  <2>1. v \in 3 .. HeadRevision
    BY <1>2, <1>8 DEF HeadRevision
  <2> QED BY <1>8, <2>1, UnlockAirportFits DEF HeadRevision
<1>9. CASE \E u \in P, l \in Licensed(d, v) : e = UnlockAircraft(d, v, u, l)
  BY <1>2, <1>9, UnlockAircraftFits
<1>10. CASE \E u \in IF v < 19 THEN {} ELSE P : e = HireCrew(d, u)
  <2>1. v \in 19 .. HeadRevision
    BY <1>2, <1>10 DEF HeadRevision
  <2> QED BY <1>10, <2>1, HireCrewFits DEF HeadRevision
<1> QED BY <1>4, <1>5, <1>6, <1>7, <1>8, <1>9, <1>10

-----------------------------------------------------------------------------
(* The database of a start-up.                                             *)

\* The parameters of StartUp as Migrations.cfg gives them.
TheseScripts ==
  /\ LastRevision = HeadRevision
  /\ \A v : InitialContent(v) = FirstContent(v)
  /\ \A d, v : /\ UpgradeScripts(d, v) = RunUpgrades(d, v)
               /\ DowngradeScript(d, v) = RunDowngrade(d, v)
               /\ PlayerWrites(d, v) = Requests(d, v)

\* What ScriptsFit says of one revision, of all of them.
AllFit == Fitting = 0 .. HeadRevision

LEMMA NullIsNobody == ASSUME NEW P \in SUBSET Users PROVE Null \notin P
  BY UsersAssumption

LEMMA ContentInit ==
  ASSUME TheseScripts, AllFit, Init
  PROVE  ContentFits
<1>1. version \in 0 .. HeadRevision /\ version \in Fitting /\ content = FirstContent(version)
  BY DEF TheseScripts, AllFit, Init, Revisions
<1>2. CASE version = 0
  <2>1. 0 \in Fitting /\ NewFits
    BY <1>1, <1>2 DEF Fitting, RevisionFits
  <2>2. content = EmptyDb
    BY <1>1, <1>2 DEF FirstContent
  <2>3. Fits(content, Template(version), {})
    BY <1>2, <2>1, <2>2, EmptyFits
  <2> QED BY <2>3 DEF ContentFits
<1>3. CASE version # 0
  <2>1. PICK u \in Users : u = CHOOSE x \in Users : TRUE
    BY UsersAssumption
  <2>2. content = SignUp(Fresh[version + 1], version, u) /\ version \in 1 .. HeadRevision
    BY <1>1, <1>3, <2>1 DEF FirstContent, HeadRevision
  <2>3. Fits(Fresh[version + 1], Template(version), {})
    BY <1>1 DEF Fitting, RevisionFits
  <2>4. Fits(content, Template(version), {} \cup {u})
    BY <1>1, <2>2, <2>3, SignUpFits
  <2>5. {} \cup {u} \in SUBSET Users
    OBVIOUS
  <2> QED BY <2>4, <2>5 DEF ContentFits
<1> QED BY <1>2, <1>3

\* An upgrade that succeeds starts from the revision it has read, or has
\* nothing to do.
LEMMA UpgradeIs ==
  ASSUME TheseScripts, Inv, NEW p \in Processes, Migrate(p)
  PROVE  \/ version' = version /\ content' = content
         \/ /\ version \in 0 .. HeadRevision - 1 /\ version' = HeadRevision
            /\ RunUpgrades(content, version).ok /\ content' = RunUpgrades(content, version).db
<1>1. PICK done : done = Upgrade(seen[p])
  OBVIOUS
<1>2. /\ version' = (IF done.ok THEN done.version ELSE version)
      /\ content' = (IF done.ok THEN done.db ELSE content)
  BY <1>1 DEF Migrate
<1>3. CASE ~done.ok
  BY <1>2, <1>3
<1>4. CASE done.ok /\ seen[p] = LastRevision
  <2>1. done = [ok |-> TRUE, version |-> version, db |-> content]
    BY <1>1, <1>4 DEF Upgrade
  <2> QED BY <1>2, <2>1
<1>5. CASE done.ok /\ seen[p] # LastRevision
  <2>1. PICK run : run = RunUpgrades(content, seen[p])
    OBVIOUS
  <2>2. done = [ok |-> seen[p] = version /\ run.ok, version |-> LastRevision, db |-> run.db]
    BY <1>1, <1>5, <2>1 DEF Upgrade, TheseScripts
  <2>3. seen[p] = version /\ run.ok /\ done.version = LastRevision /\ done.db = run.db
    BY <1>5, <2>2
  <2>4. version \in 0 .. HeadRevision - 1
    BY <1>5, <2>3 DEF Inv, TypeOK, Revisions, TheseScripts, HeadRevision
  <2> QED BY <1>2, <1>5, <2>1, <2>3, <2>4 DEF TheseScripts
<1> QED BY <1>3, <1>4, <1>5

LEMMA ContentNext ==
  ASSUME TheseScripts, AllFit, Inv, ContentFits, [Next]_vars
  PROVE  ContentFits'
<1>1. version \in 0 .. HeadRevision /\ version \in Fitting
  BY DEF Inv, TypeOK, Revisions, TheseScripts, AllFit
<1>2. PICK P \in SUBSET Users : Fits(content, Template(version), P)
  BY DEF ContentFits
<1>3. Null \notin P
  BY NullIsNobody
<1>4. CASE content' = content /\ version' = version
  BY <1>2, <1>4 DEF ContentFits
<1>5. ASSUME NEW p \in Processes, Migrate(p) PROVE ContentFits'
  <2>1. CASE content' = content /\ version' = version
    BY <1>4, <2>1
  <2>2. CASE /\ version \in 0 .. HeadRevision - 1 /\ version' = HeadRevision
             /\ RunUpgrades(content, version).ok /\ content' = RunUpgrades(content, version).db
    <3>1. PICK Q \in SUBSET P : Fits(RunUpgrades(content, version).db, Template(HeadRevision), Q)
      BY <1>1, <1>2, <1>3, <2>2, UpgradeLands
    <3> QED BY <2>2, <3>1 DEF ContentFits
  <2> QED BY <1>5, <2>1, <2>2, UpgradeIs
<1>6. CASE Downgrade
  <2>1. /\ version \in 1 .. HeadRevision /\ version' = version - 1
        /\ Execute(content, Downgrades[version]).ok
        /\ content' = Execute(content, Downgrades[version]).db
    BY <1>1, <1>6 DEF Downgrade, TheseScripts, RunDowngrade, HeadRevision
  <2>2. Fits(content', Template(version - 1), P)
    BY <1>1, <1>2, <1>3, <2>1, DowngradeLands
  <2> QED BY <2>1, <2>2 DEF ContentFits
<1>7. CASE Play
  <2>1. content' \in Requests(content, version) /\ version' = version
    BY <1>7 DEF Play, TheseScripts
  <2>2. \E Q \in SUBSET Users : Fits(content', Template(version), Q)
    BY <1>1, <1>2, <2>1, RequestsFit
  <2> QED BY <2>1, <2>2 DEF ContentFits
<1>8. ASSUME NEW p \in Processes, StepsOf(p), ~Migrate(p) PROVE content' = content /\ version' = version
  BY <1>8 DEF StepsOf, Start, ReadVersion, ConnectionLost, Timeout, Exit, Stop
<1>9. CASE UNCHANGED vars
  BY <1>4, <1>9 DEF vars
<1> QED BY <1>4, <1>5, <1>6, <1>7, <1>8, <1>9 DEF Next, StepsOf

\* What a database holds depends on its revision alone, but for which players
\* have which of the rows that the template of that revision offers them: for
\* any players and processes, through any upgrades, downgrades, failures and
\* requests (the scripts of alembic/versions).
THEOREM ContentIsItsTemplate ==
  ASSUME TheseScripts, AllFit
  PROVE  Spec => []ContentFits
<1>1. Init => ContentFits
  BY ContentInit
<1>2. Inv /\ ContentFits /\ [Next]_vars => ContentFits'
  BY ContentNext
<1> QED BY <1>1, <1>2, StartUpInvariant, PTL DEF Spec

\* The schema of a revision is that of a database which only ever went up:
\* every downgrade undoes what its upgrade did.
THEOREM SchemaOfRevision ==
  ASSUME TheseScripts, AllFit
  PROVE  Spec => []SchemaByRevision
<1>1. ContentFits => SchemaByRevision
  <2> SUFFICES ASSUME ContentFits PROVE SchemaByRevision
    OBVIOUS
  <2>1. PICK P : Fits(content, Template(version), P)
    BY DEF ContentFits
  <2>2. content.schema = Template(version).schema
    BY <2>1 DEF Fits
  <2> QED BY <2>2, TemplateIs DEF SchemaByRevision
<1> QED BY <1>1, ContentIsItsTemplate, PTL

\* So is the catalogue: prices, multipliers and roster of a revision do not
\* remember which revisions the database has been at.
THEOREM CatalogueOfRevision ==
  ASSUME TheseScripts, AllFit
  PROVE  Spec => []CatalogueByRevision
<1>1. ContentFits => CatalogueByRevision
  <2> SUFFICES ASSUME ContentFits PROVE CatalogueByRevision
    OBVIOUS
  <2>1. PICK T, F : T = Template(version) /\ F = Fresh[version + 1]
    OBVIOUS
  <2>2. PICK P : Fits(content, T, P)
    BY <2>1 DEF ContentFits
  <2>3. /\ DOMAIN content.rows = DOMAIN T.rows
        /\ \A t \in DOMAIN T.rows : Shows(t, T.rows[t], content.rows[t], P)
    BY <2>2 DEF Fits, RowsFit
  <2>4. DOMAIN T.rows = DOMAIN F.rows /\ \A t \in DOMAIN F.rows \cap CatalogueTables : T.rows[t] = F.rows[t]
    BY <2>1, TemplateIs
  <2>5. \A t \in DOMAIN F.rows \cap CatalogueTables :
          {Visible(t, r) : r \in content.rows[t]} = {Visible(t, r) : r \in F.rows[t]}
    BY <2>3, <2>4 DEF Shows
  <2>6. Catalogue(content) = Catalogue(F)
    BY <2>3, <2>4, <2>5 DEF Catalogue
  <2> QED BY <2>1, <2>6 DEF CatalogueByRevision
<1> QED BY <1>1, ContentIsItsTemplate, PTL

\* At the head the tables are those of the model classes and the CHECKs admit
\* the members of the enums, whichever way the database got there.
THEOREM ModelsMatchHead ==
  ASSUME TheseScripts, AllFit
  PROVE  Spec => []HeadMatchesModels
<1>1. SchemaByRevision => HeadMatchesModels
  <2> SUFFICES ASSUME SchemaByRevision, version = HeadRevision PROVE MatchesModels(content.schema)
    BY DEF HeadMatchesModels
  <2>1. HeadRevision \in Fitting
    BY DEF AllFit, HeadRevision
  <2>2. MatchesModels(Fresh[HeadRevision + 1].schema)
    BY <2>1 DEF Fitting, RevisionFits
  <2> QED BY <2>2 DEF SchemaByRevision
<1> QED BY <1>1, SchemaOfRevision, PTL

-----------------------------------------------------------------------------
(* Refusals.                                                               *)

\* Without a row that is known to be refused, a database fits the template
\* without such rows.
LEMMA AcceptableFits ==
  ASSUME NEW v \in 1 .. HeadRevision, v \in Fitting, NEW P, NEW d, Fits(d, Template(v), P),
         v \in 1 .. 4 => \A r \in d.rows["wallet_ledger"] : r.reason \notin {"bet_stake", "bet_payout"},
         v \in 1 .. 13 => \A r \in d.rows["tracked_flights"] :
                            r.origin_airport_id \notin DOMAIN DroppedAirports
  PROVE  Fits(d, Acceptable(v), P)
<1>1. PICK T, A : T = Template(v) /\ A = Acceptable(v)
  OBVIOUS
<1>2. /\ A.schema = T.schema /\ DOMAIN A.rows = DOMAIN T.rows
      /\ \A t \in DOMAIN T.rows : A.rows[t] = {q \in T.rows[t] : ~Refusable(v, t, q)}
  BY <1>1 DEF Acceptable, Template
<1>3. /\ d = [schema |-> T.schema, rows |-> d.rows]
      /\ d.rows = [t \in DOMAIN T.rows |-> d.rows[t]]
      /\ \A t \in DOMAIN T.rows : Shows(t, T.rows[t], d.rows[t], P)
      /\ "users" \in DOMAIN T.rows => d.rows["users"] = {UserRow(u) : u \in P}
  BY <1>1 DEF Fits, RowsFit
<1>4. {"wallet_ledger", "tracked_flights"} \cap CatalogueTables = {}
  BY PlayerTables
<1>5. ASSUME NEW t \in DOMAIN T.rows, NEW q \in T.rows[t], NEW u \in P, Filled(q, u) \in d.rows[t]
      PROVE  ~Refusable(v, t, q)
  <2>1. CASE t = "wallet_ledger"
    <3>1. PICK x : q = LedgerRow(Player, x)
      BY <1>1, <2>1, PlayersHave
    <3>2. Filled(q, u) = LedgerRow(u, x)
      BY <3>1, RowsFilled
    <3>3. Filled(q, u).reason = q.reason
      BY <3>1, <3>2 DEF LedgerRow
    <3> QED BY <1>5, <2>1, <3>3 DEF Refusable
  <2>2. CASE t = "tracked_flights"
    <3>1. PICK x : q = FlightRow(Player, x)
      BY <1>1, <2>2, PlayersHave
    <3>2. Filled(q, u) = FlightRow(u, x)
      BY <3>1, RowsFilled
    <3>3. Filled(q, u).origin_airport_id = q.origin_airport_id
      BY <3>1, <3>2 DEF FlightRow
    <3> QED BY <1>5, <2>2, <3>3 DEF Refusable
  <2>3. CASE t \notin {"wallet_ledger", "tracked_flights"}
    BY <2>3 DEF Refusable
  <2> QED BY <2>1, <2>2, <2>3
<1>6. ASSUME NEW t \in DOMAIN T.rows PROVE Shows(t, A.rows[t], d.rows[t], P)
  <2>1. CASE t \in CatalogueTables
    <3>1. \A q : ~Refusable(v, t, q)
      BY <1>4, <2>1 DEF Refusable
    <3>2. A.rows[t] = T.rows[t]
      BY <1>2, <3>1
    <3> QED BY <1>3, <3>2
  <2>2. CASE t \notin CatalogueTables
    <3>1. d.rows[t] \subseteq {Filled(q, u) : q \in T.rows[t], u \in P}
      BY <1>3, <2>2 DEF Shows
    <3>2. ASSUME NEW r \in d.rows[t] PROVE \E q \in A.rows[t], u \in P : r = Filled(q, u)
      <4>1. PICK q \in T.rows[t], u \in P : r = Filled(q, u)
        BY <3>1
      <4>2. q \in A.rows[t]
        BY <1>2, <1>5, <4>1
      <4> QED BY <4>1, <4>2
    <3>3. d.rows[t] \subseteq {Filled(q, u) : q \in A.rows[t], u \in P}
      BY <3>2
    <3> QED BY <2>2, <3>3 DEF Shows
  <2> QED BY <2>1, <2>2
<1>7. Fits(d, A, P)
  BY <1>2, <1>3, <1>6 DEF Fits, RowsFit
<1> QED BY <1>1, <1>7

\* An upgrade is refused for a bet in the ledger at revisions 0001 to 0004 and
\* for a flight from a dropped airport below 0014, and for nothing else that
\* players can have done.
THEOREM OnlyKnownRefusals ==
  ASSUME TheseScripts, AllFit
  PROVE  Spec => []RefusalsAreKnown
<1>1. Inv /\ ContentFits => RefusalsAreKnown
  <2> SUFFICES ASSUME Inv, ContentFits, ~KnownRefusal PROVE Upgrade(version).ok
    BY DEF RefusalsAreKnown
  <2>1. PICK v, d : v = version /\ d = content
    OBVIOUS
  <2>2. v \in 0 .. HeadRevision /\ v \in Fitting
    BY <2>1 DEF Inv, TypeOK, Revisions, TheseScripts, AllFit
  <2>3. PICK P \in SUBSET Users : Fits(d, Template(v), P)
    BY <2>1 DEF ContentFits
  <2>4. CASE v = HeadRevision
    BY <2>1, <2>4 DEF Upgrade, TheseScripts
  <2>5. CASE v = 0
    <3>1. NewFits
      BY <2>2, <2>5 DEF Fitting, RevisionFits
    <3>2. d = EmptyDb
      BY <2>3, <2>5, <3>1, EmptyFits
    <3>3. RunUpgrades(d, v).ok
      BY <2>5, <3>1, <3>2 DEF NewFits, RunUpgrades
    <3> QED BY <2>1, <3>3 DEF Upgrade, TheseScripts
  <2>6. CASE v \in 1 .. HeadRevision - 1
    <3>1. UpgradeFits(v) /\ Impartial(Template(v)) /\ v \in 1 .. HeadRevision
      BY <2>2, <2>6 DEF Fitting, RevisionFits, HeadRevision
    <3>2. PICK script, A : script = UpgradesFrom(v) /\ A = Acceptable(v)
      OBVIOUS
    <3>3. Len(script) \in Nat /\ Outcome(A, script).tidy /\ Outcome(A, script).legal
      BY <3>1, <3>2 DEF UpgradeFits
    <3>4. Fits(d, A, P)
      <4>1. v \in 1 .. 4 => \A r \in d.rows["wallet_ledger"] : r.reason \notin {"bet_stake", "bet_payout"}
        BY <2>1 DEF KnownRefusal
      <4>2. v \in 1 .. 13 => \A r \in d.rows["tracked_flights"] :
                              r.origin_airport_id \notin DOMAIN DroppedAirports
        BY <2>1 DEF KnownRefusal
      <4> QED BY <2>2, <2>3, <3>1, <3>2, <4>1, <4>2, AcceptableFits
    <3>5. DOMAIN A.rows = DOMAIN A.schema.tables
      BY <3>1, <3>2 DEF Acceptable, Template, Impartial
    <3>6. Execute(d, script).ok
      BY <2>3, <3>3, <3>4, <3>5, NullIsNobody, ScriptFits
    <3> QED BY <2>1, <3>2, <3>6 DEF Upgrade, TheseScripts, RunUpgrades
  <2> QED BY <2>2, <2>4, <2>5, <2>6 DEF HeadRevision
<1> QED BY <1>1, StartUpInvariant, ContentIsItsTemplate, PTL

-----------------------------------------------------------------------------
(* What upgrades leave alone.                                              *)

LEMMA UnwrittenKept ==
  ASSUME NEW R, NEW t, NEW s, ~Writes(s, t)
  PROVE  /\ t \in DOMAIN RowsEffect(R, s) <=> t \in DOMAIN R
         /\ t \in DOMAIN R => RowsEffect(R, s)[t] = R[t]
<1>1. CASE s.op = "create_table"
  <2>1. RowsEffect(R, s) = Plus(R, s.table, {})
    BY <1>1 DEF RowsEffect
  <2>2. Plus(R, s.table, {}) = [x \in DOMAIN R \cup {s.table} |-> IF x \in DOMAIN R THEN R[x] ELSE {}]
    BY PlusIs
  <2>3. t # s.table
    BY <1>1 DEF Writes, RowStatements
  <2> QED BY <2>1, <2>2, <2>3
<1>2. CASE s.op = "drop_table"
  <2>1. RowsEffect(R, s) = Without(R, {s.table})
    BY <1>2 DEF RowsEffect
  <2>2. Without(R, {s.table}) = [x \in DOMAIN R \ {s.table} |-> R[x]]
    BY WithoutIs, Zenon
  <2>3. t # s.table
    BY <1>2 DEF Writes, RowStatements
  <2> QED BY <2>1, <2>2, <2>3
<1>3. CASE s.op = "rename_table"
  <2>1. RowsEffect(R, s) = Renamed(R, s.table, s.new) /\ t # s.table /\ t # s.new
    BY <1>3 DEF RowsEffect, Writes, RowStatements
  <2>2. PICK R0 : R0 = Without(R, {s.table})
    OBVIOUS
  <2>3. R0 = [x \in DOMAIN R \ {s.table} |-> R[x]]
    BY <2>2, WithoutIs
  <2>4. Plus(R0, s.new, R[s.table]) =
          [x \in DOMAIN R0 \cup {s.new} |-> IF x \in DOMAIN R0 THEN R0[x] ELSE R[s.table]]
    BY PlusIs
  <2>5. RowsEffect(R, s) = IF s.table \in DOMAIN R THEN Plus(R0, s.new, R[s.table]) ELSE R
    BY <2>1, <2>2 DEF Renamed
  <2> QED BY <2>1, <2>3, <2>4, <2>5
<1>4. CASE s.op \in Rewriting \cup {"insert", "delete", "insert_cross"}
  <2>1. t # s.table
    BY <1>4 DEF Writes, RowStatements, Rewriting
  <2>2. CASE s.op \in Rewriting
    <3>1. RowsEffect(R, s) = [R EXCEPT ![s.table] = {Rewritten(s, r) : r \in R[s.table]}]
      BY <2>2 DEF RowsEffect, Rewriting
    <3> QED BY <2>1, <3>1
  <2>3. CASE s.op = "insert"
    <3>1. RowsEffect(R, s) = [R EXCEPT ![s.table] = R[s.table] \cup s.new]
      BY <2>3 DEF RowsEffect
    <3> QED BY <2>1, <3>1
  <2>4. CASE s.op = "delete"
    <3>1. RowsEffect(R, s) = [R EXCEPT ![s.table] = {r \in R[s.table] : r[s.column] \notin s.values}]
      BY <2>4 DEF RowsEffect
    <3> QED BY <2>1, <3>1
  <2>5. CASE s.op = "insert_cross"
    <3>1. RowsEffect(R, s) =
            [R EXCEPT ![s.table] =
               R[s.table] \cup {Crossed(s, k, v) : k \in Keys(R, s.from), v \in s.values}]
      BY <2>5 DEF RowsEffect
    <3> QED BY <2>1, <3>1
  <2> QED BY <1>4, <2>2, <2>3, <2>4, <2>5
<1>5. CASE s.op \notin RowStatements
  BY <1>5 DEF RowsEffect, RowStatements
<1> QED BY <1>1, <1>2, <1>3, <1>4, <1>5 DEF RowStatements, Rewriting

\* A statement that spares the ledger leaves every row of it as it was: a
\* CHECK refuses the UPDATE of a row whose reason it would rewrite.
LEMMA LedgerKept ==
  ASSUME NEW d, DOMAIN d.rows = DOMAIN d.schema.tables,
         NEW t, t = "wallet_ledger", t \in DOMAIN d.rows,
         \A r \in d.rows[t] : r = [c \in {"user_id", "reason"} |-> r[c]],
         NEW s, Legal(d, s), SparesLedger(d.schema, s)
  PROVE  t \in DOMAIN Effect(d, s).rows /\ Effect(d, s).rows[t] = d.rows[t]
<1>1. Effect(d, s).rows = RowsEffect(d.rows, s) /\ Effect(d, s).schema = SchemaEffect(d.schema, s)
  BY DEF Effect
<1>2. CASE ~Writes(s, t)
  BY <1>1, <1>2, UnwrittenKept
<1>3. ASSUME Writes(s, t), s.op \in {"rename_column", "update"}
      PROVE  s.table = t /\ RowsEffect(d.rows, s) = [d.rows EXCEPT ![t] = {Rewritten(s, r) : r \in d.rows[t]}]
  <2>1. s.table = t
    BY <1>3 DEF Writes
  <2> QED BY <1>3, <2>1 DEF RowsEffect
<1>4. CASE Writes(s, t) /\ s.op = "rename_column" /\ {s.column, s.new} \cap {"user_id", "reason"} = {}
  <2>1. ASSUME NEW r \in d.rows[t] PROVE Rewritten(s, r) = r
    <3>1. s.column \notin DOMAIN r
      BY <1>4
    <3>2. Rewritten(s, r) = Renamed(r, s.column, s.new)
      BY <1>4 DEF Rewritten
    <3> QED BY <3>1, <3>2 DEF Renamed
  <2>2. {Rewritten(s, r) : r \in d.rows[t]} = d.rows[t]
    BY <2>1
  <2> QED BY <1>1, <1>3, <1>4, <2>2
<1>5. CASE Writes(s, t) /\ s.op = "update" /\ s.column = "reason" /\ Forbidden(d.schema, s)
  <2>1. s.table = t
    BY <1>3, <1>5
  <2>2. PICK n \in DOMAIN d.schema.checks :
          /\ d.schema.checks[n].table = t /\ d.schema.checks[n].column = "reason"
          /\ d.schema.checks[n].when = NoFields
          /\ \A k \in DOMAIN s.set :
               "reason" \in DOMAIN s.set[k] /\ s.set[k]["reason"] \notin d.schema.checks[n].values
    BY <1>5, <2>1 DEF Forbidden
  <2>3. Effect(d, s).schema = d.schema
    BY <1>1, <1>5 DEF SchemaEffect
  <2>4. Consistent(Effect(d, s), t)
    <3>1. Touched(s) = t
      BY <1>5, <2>1 DEF Touched
    <3> QED BY <3>1 DEF Legal, Null
  <2>5. \A r \in Effect(d, s).rows[t] : Obeys(Effect(d, s), t, r)
    BY <2>3, <2>4 DEF Consistent, Concerned
  <2>6. ASSUME NEW r \in d.rows[t] PROVE Rewritten(s, r) = r
    <3>1. Rewritten(s, r) = IF r["reason"] \in DOMAIN s.set THEN Over(s.set[r["reason"]], r) ELSE r
      BY <1>5 DEF Rewritten
    <3>2. ASSUME r["reason"] \in DOMAIN s.set PROVE FALSE
      <4>1. PICK k, f : k = r["reason"] /\ f = Rewritten(s, r)
        OBVIOUS
      <4>2. Over(s.set[k], r) =
              [x \in DOMAIN s.set[k] \cup DOMAIN r |-> IF x \in DOMAIN s.set[k] THEN s.set[k][x] ELSE r[x]]
        BY OverIs
      <4>3. "reason" \in DOMAIN f /\ f["reason"] \notin d.schema.checks[n].values
        BY <2>2, <3>1, <3>2, <4>1, <4>2
      <4>4. f \in Effect(d, s).rows[t]
        BY <1>1, <1>3, <1>5, <4>1
      <4>5. Matches(f, d.schema.checks[n].when)
        BY <2>2 DEF Matches, NoFields
      <4>6. Obeys(Effect(d, s), t, f)
        BY <2>5, <4>4
      <4> QED BY <2>2, <2>3, <4>3, <4>5, <4>6 DEF Obeys
    <3> QED BY <3>1, <3>2
  <2>7. {Rewritten(s, r) : r \in d.rows[t]} = d.rows[t]
    BY <2>6
  <2> QED BY <1>1, <1>3, <1>5, <2>7
<1> QED BY <1>2, <1>4, <1>5 DEF SparesLedger

LEMMA UnlocksKept ==
  ASSUME NEW R, NEW t, t = "user_airport_unlocks", t \in DOMAIN R, NEW s, SparesUnlocks(s)
  PROVE  /\ t \in DOMAIN RowsEffect(R, s)
         /\ \A r : r.airport_id \notin DOMAIN DroppedAirports =>
              (r \in RowsEffect(R, s)[t] <=> r \in R[t])
<1>1. CASE ~Writes(s, t)
  BY <1>1, UnwrittenKept
<1>2. CASE Writes(s, t)
  <2>1. s.op = "delete" /\ s.column = "airport_id" /\ s.values \subseteq DOMAIN DroppedAirports
    BY <1>2 DEF SparesUnlocks
  <2>2. s.table = t
    BY <1>2, <2>1 DEF Writes
  <2>3. RowsEffect(R, s) = [R EXCEPT ![t] = {r \in R[t] : r["airport_id"] \notin s.values}]
    BY <2>1, <2>2 DEF RowsEffect
  <2> QED BY <2>1, <2>3
<1> QED BY <1>1, <1>2

\* The rentals, under whichever name their table goes.
BetTable(R) == IF "bets" \in DOMAIN R THEN "bets" ELSE "rentals"
RentalsIn(R) == {<<r.id, CurrentStatus(r.status)>> : r \in R[BetTable(R)]}
HasRentals(R) == BetTable(R) \in DOMAIN R /\ \A r \in R[BetTable(R)] : {"id", "status"} \subseteq DOMAIN r

LEMMA RentalRewritten ==
  ASSUME NEW r, {"id", "status"} \subseteq DOMAIN r, NEW s,
         \/ s.op \in {"add_column", "fill_unique"} /\ s.column \notin {"id", "status"}
         \/ s.op = "rename_column" /\ {s.column, s.new} \cap {"id", "status"} = {}
         \/ /\ s.op = "update" /\ s.column = "status"
            /\ \A k \in DOMAIN s.set : /\ DOMAIN s.set[k] = {"status"}
                                       /\ CurrentStatus(s.set[k].status) = CurrentStatus(k)
  PROVE  /\ {"id", "status"} \subseteq DOMAIN Rewritten(s, r)
         /\ Rewritten(s, r).id = r.id
         /\ CurrentStatus(Rewritten(s, r).status) = CurrentStatus(r.status)
<1>1. CASE s.op = "add_column"
  <2>1. Rewritten(s, r) = IF s.column \in Tracked THEN Plus(r, s.column, s.default) ELSE r
    BY <1>1 DEF Rewritten
  <2>2. Plus(r, s.column, s.default) =
          [x \in DOMAIN r \cup {s.column} |-> IF x \in DOMAIN r THEN r[x] ELSE s.default]
    BY PlusIs
  <2> QED BY <2>1, <2>2
<1>2. CASE s.op = "fill_unique" /\ s.column \notin {"id", "status"}
  <2>1. Rewritten(s, r) = [r EXCEPT ![s.column] = r[KeyOf(s.table)]]
    BY <1>2 DEF Rewritten
  <2> QED BY <1>2, <2>1
<1>3. CASE s.op = "rename_column" /\ {s.column, s.new} \cap {"id", "status"} = {}
  <2>1. Rewritten(s, r) = Renamed(r, s.column, s.new)
    BY <1>3 DEF Rewritten
  <2>2. PICK r0 : r0 = Without(r, {s.column})
    OBVIOUS
  <2>3. r0 = [x \in DOMAIN r \ {s.column} |-> r[x]]
    BY <2>2, WithoutIs
  <2>4. Plus(r0, s.new, r[s.column]) =
          [x \in DOMAIN r0 \cup {s.new} |-> IF x \in DOMAIN r0 THEN r0[x] ELSE r[s.column]]
    BY PlusIs
  <2>5. Rewritten(s, r) = IF s.column \in DOMAIN r THEN Plus(r0, s.new, r[s.column]) ELSE r
    BY <2>1, <2>2 DEF Renamed
  <2> QED BY <1>3, <2>3, <2>4, <2>5
<1>4. CASE /\ s.op = "update" /\ s.column = "status"
           /\ \A k \in DOMAIN s.set : /\ DOMAIN s.set[k] = {"status"}
                                      /\ CurrentStatus(s.set[k].status) = CurrentStatus(k)
  <2>1. Rewritten(s, r) = IF r["status"] \in DOMAIN s.set THEN Over(s.set[r["status"]], r) ELSE r
    BY <1>4 DEF Rewritten
  <2>2. CASE r["status"] \in DOMAIN s.set
    <3>1. PICK k : k = r["status"]
      OBVIOUS
    <3>2. Over(s.set[k], r) =
            [x \in DOMAIN s.set[k] \cup DOMAIN r |-> IF x \in DOMAIN s.set[k] THEN s.set[k][x] ELSE r[x]]
      BY OverIs
    <3>3. DOMAIN s.set[k] = {"status"} /\ CurrentStatus(s.set[k]["status"]) = CurrentStatus(k)
      BY <1>4, <2>2, <3>1
    <3> QED BY <2>1, <2>2, <3>1, <3>2, <3>3
  <2>3. CASE r["status"] \notin DOMAIN s.set
    BY <2>1, <2>3
  <2> QED BY <2>2, <2>3
<1> QED BY <1>1, <1>2, <1>3, <1>4

\* A statement that spares the rentals keeps each with its outcome.
LEMMA RentalsKept ==
  ASSUME NEW schema, NEW R, DOMAIN R = DOMAIN schema.tables, HasRentals(R),
         NEW s, Applicable(schema, s), SparesRentals(s)
  PROVE  HasRentals(RowsEffect(R, s)) /\ RentalsIn(RowsEffect(R, s)) = RentalsIn(R)
<1>1. PICK R1, t : R1 = RowsEffect(R, s) /\ t = BetTable(R)
  OBVIOUS
<1>2. t \in DOMAIN R /\ \A r \in R[t] : {"id", "status"} \subseteq DOMAIN r
  BY <1>1 DEF HasRentals
<1>3. SUFFICES HasRentals(R1) /\ RentalsIn(R1) = RentalsIn(R)
  BY <1>1
<1>4. ASSUME BetTable(R1) = t, t \in DOMAIN R1, R1[t] = R[t]
      PROVE  HasRentals(R1) /\ RentalsIn(R1) = RentalsIn(R)
  BY <1>1, <1>2, <1>4 DEF HasRentals, RentalsIn
<1>5. CASE ~Writes(s, "bets") /\ ~Writes(s, "rentals")
  <2>1. /\ "bets" \in DOMAIN R1 <=> "bets" \in DOMAIN R
        /\ "bets" \in DOMAIN R => R1["bets"] = R["bets"]
        /\ "rentals" \in DOMAIN R1 <=> "rentals" \in DOMAIN R
        /\ "rentals" \in DOMAIN R => R1["rentals"] = R["rentals"]
    BY <1>1, <1>5, UnwrittenKept
  <2>2. BetTable(R1) = t /\ t \in DOMAIN R1 /\ R1[t] = R[t]
    BY <1>1, <1>2, <2>1 DEF BetTable
  <2> QED BY <1>4, <2>2
<1>6. CASE (Writes(s, "bets") \/ Writes(s, "rentals")) /\ s.op = "rename_table"
  <2>1. s.table = "bets" /\ s.new = "rentals"
    BY <1>6 DEF SparesRentals
  <2>2. "bets" \in DOMAIN R /\ "rentals" \notin DOMAIN R
    BY <1>6, <2>1 DEF Applicable
  <2>3. PICK R0 : R0 = Without(R, {"bets"})
    OBVIOUS
  <2>4. R0 = [x \in DOMAIN R \ {"bets"} |-> R[x]]
    BY <2>3, WithoutIs
  <2>5. Plus(R0, "rentals", R["bets"]) =
          [x \in DOMAIN R0 \cup {"rentals"} |-> IF x \in DOMAIN R0 THEN R0[x] ELSE R["bets"]]
    BY PlusIs
  <2>6. R1 = Plus(R0, "rentals", R["bets"])
    <3>1. R1 = Renamed(R, "bets", "rentals")
      BY <1>1, <1>6, <2>1 DEF RowsEffect
    <3> QED BY <2>2, <2>3, <3>1 DEF Renamed
  <2>7. "bets" \notin DOMAIN R1 /\ "rentals" \in DOMAIN R1 /\ R1["rentals"] = R["bets"]
    BY <2>2, <2>4, <2>5, <2>6
  <2>8. t = "bets" /\ BetTable(R1) = "rentals"
    BY <1>1, <2>2, <2>7 DEF BetTable
  <2> QED BY <1>1, <1>2, <2>7, <2>8 DEF HasRentals, RentalsIn
<1>7. CASE (Writes(s, "bets") \/ Writes(s, "rentals")) /\ s.op # "rename_table"
  <2>1. \/ s.op \in {"add_column", "fill_unique"} /\ s.column \notin {"id", "status"}
        \/ s.op = "rename_column" /\ {s.column, s.new} \cap {"id", "status"} = {}
        \/ /\ s.op = "update" /\ s.column = "status"
           /\ \A k \in DOMAIN s.set : /\ DOMAIN s.set[k] = {"status"}
                                      /\ CurrentStatus(s.set[k].status) = CurrentStatus(k)
    BY <1>7 DEF SparesRentals
  <2>2. s.op \in Rewriting
    BY <2>1 DEF Rewriting
  <2>3. R1 = [R EXCEPT ![s.table] = {Rewritten(s, r) : r \in R[s.table]}]
    BY <1>1, <2>2 DEF RowsEffect, Rewriting
  <2>4. DOMAIN R1 = DOMAIN R /\ BetTable(R1) = t /\ t \in DOMAIN R1
    BY <1>1, <1>2, <2>3 DEF BetTable
  <2>5. CASE s.table # t
    <3>1. R1[t] = R[t]
      BY <1>2, <2>3, <2>5
    <3> QED BY <1>4, <2>4, <3>1
  <2>6. CASE s.table = t
    <3>1. R1[t] = {Rewritten(s, r) : r \in R[t]}
      BY <1>2, <2>3, <2>6
    <3>2. ASSUME NEW r \in R[t]
          PROVE  /\ {"id", "status"} \subseteq DOMAIN Rewritten(s, r)
                 /\ Rewritten(s, r).id = r.id
                 /\ CurrentStatus(Rewritten(s, r).status) = CurrentStatus(r.status)
      BY <1>2, <2>1, RentalRewritten
    <3>3. HasRentals(R1)
      BY <2>4, <3>1, <3>2 DEF HasRentals
    <3>4. {<<r.id, CurrentStatus(r.status)>> : r \in R1[t]} = {<<r.id, CurrentStatus(r.status)>> : r \in R[t]}
      BY <3>1, <3>2
    <3> QED BY <1>1, <2>4, <3>3, <3>4 DEF RentalsIn
  <2> QED BY <2>5, <2>6
<1> QED BY <1>5, <1>6, <1>7

\* Each user has a crew member at both starter airports.
CrewIn(R) ==
  \A u \in Keys(R, "users"), a \in CrewAirports :
    \E r \in R["user_airport_crew"] : r.user_id = u /\ r.airport_id = a /\ r.crew_count >= 1

LEMMA CrewGiven ==
  ASSUME NEW R, {"users", "user_airport_crew"} \subseteq DOMAIN R, NEW s, GivesCrew(s)
  PROVE  "user_airport_crew" \in DOMAIN RowsEffect(R, s) /\ CrewIn(RowsEffect(R, s))
<1>1. PICK t, R1 : t = "user_airport_crew" /\ R1 = RowsEffect(R, s)
  OBVIOUS
<1>2. /\ s.op = "insert_cross" /\ s.table = t /\ s.from = "users"
      /\ s.c1 = "user_id" /\ s.c2 = "airport_id" /\ s.values = CrewAirports
      /\ s.rest = [crew_count |-> 1]
  BY <1>1 DEF GivesCrew
<1>3. R1 = [R EXCEPT ![t] = R[t] \cup {Crossed(s, k, v) : k \in Keys(R, "users"), v \in CrewAirports}]
  BY <1>1, <1>2 DEF RowsEffect
<1>4. R1["users"] = R["users"] /\ t \in DOMAIN R1
  BY <1>1, <1>3
<1>5. Keys(R1, "users") = Keys(R, "users")
  BY <1>4 DEF Keys
<1>6. ASSUME NEW u \in Keys(R, "users"), NEW a \in CrewAirports
      PROVE  \E r \in R1[t] : r.user_id = u /\ r.airport_id = a /\ r.crew_count >= 1
  <2>1. PICK r : r = Crossed(s, u, a)
    OBVIOUS
  <2>2. r = [x \in {s.c1, s.c2} \cup DOMAIN s.rest |->
               IF x \in {s.c1, s.c2} THEN IF x = s.c1 THEN u ELSE a ELSE s.rest[x]]
    BY <2>1, CrossedIs
  <2>3. r.user_id = u /\ r.airport_id = a /\ r.crew_count = 1
    BY <1>2, <2>2
  <2>4. r \in R1[t]
    BY <1>1, <1>3, <2>1
  <2> QED BY <2>3, <2>4
<1> QED BY <1>1, <1>4, <1>5, <1>6 DEF CrewIn

\* What an upgrade from template T has left of the rows R of a database, S
\* being what it has made of them.
SameHistory(T, R, S) ==
  /\ \A t \in {"users", "wallet_ledger", "user_aircraft_family_unlocks", "user_airport_crew"} :
       t \in DOMAIN T.rows => t \in DOMAIN S /\ S[t] = R[t]
  /\ "user_airport_unlocks" \in DOMAIN T.rows =>
       /\ "user_airport_unlocks" \in DOMAIN S
       /\ \A r : r.airport_id \notin DOMAIN DroppedAirports =>
            (r \in S["user_airport_unlocks"] <=> r \in R["user_airport_unlocks"])
  /\ HasRentals(S) /\ RentalsIn(S) = RentalsIn(R)

InHistory(T, R, w, x) ==
  w.tidy /\ w.spares /\ x.ok =>
    /\ SameHistory(T, R, x.db.rows)
    /\ w.crewed => "user_airport_crew" \in DOMAIN x.db.rows /\ CrewIn(x.db.rows)

LEMMA StepKeepsHistory ==
  ASSUME NEW T, {"users", "wallet_ledger"} \subseteq DOMAIN T.rows,
         NEW R, \A r \in R["wallet_ledger"] : r = [c \in {"user_id", "reason"} |-> r[c]],
         NEW P, NEW w, NEW x, InStep(w, x, P), InHistory(T, R, w, x), NEW s
  PROVE  InHistory(T, R, Pace(T, w, s), Step(x, s))
<1>1. PICK w1, x1, d : w1 = Pace(T, w, s) /\ x1 = Step(x, s) /\ d = x.db
  OBVIOUS
<1>2. SUFFICES ASSUME w1.tidy, w1.spares, x1.ok
               PROVE  /\ SameHistory(T, R, x1.db.rows)
                      /\ w1.crewed => "user_airport_crew" \in DOMAIN x1.db.rows /\ CrewIn(x1.db.rows)
  BY <1>1 DEF InHistory
<1>3. x.ok /\ Legal(d, s) /\ x1.db = Effect(d, s)
  BY <1>1, <1>2, StepIs DEF InStep
<1>4. /\ w.tidy /\ w.spares /\ Spares(T, w.db.schema, s)
      /\ w1.crewed => GivesCrew(s) \/ (w.crewed /\ ~Writes(s, "user_airport_crew"))
  BY <1>1, <1>2, PaceIs DEF InStep
<1>5. d.schema = w.db.schema /\ DOMAIN d.rows = DOMAIN d.schema.tables
  BY <1>1, <1>3, <1>4 DEF InStep, Fits, RowsFit
<1>6. /\ SameHistory(T, R, d.rows)
      /\ w.crewed => "user_airport_crew" \in DOMAIN d.rows /\ CrewIn(d.rows)
  BY <1>1, <1>3, <1>4 DEF InHistory
<1>7. PICK S : S = x1.db.rows
  OBVIOUS
<1>8. S = RowsEffect(d.rows, s)
  BY <1>3, <1>7 DEF Effect
<1>9. Applicable(d.schema, s)
  BY <1>3 DEF Legal
<1>10. /\ SparesLedger(d.schema, s) /\ SparesRentals(s)
       /\ "user_airport_unlocks" \in DOMAIN T.rows => SparesUnlocks(s)
       /\ \A t \in {"users", "user_aircraft_family_unlocks", "user_airport_crew"} :
            t \in DOMAIN T.rows => ~Writes(s, t)
  BY <1>4, <1>5 DEF Spares
<1>11. ASSUME NEW t \in {"users", "user_aircraft_family_unlocks", "user_airport_crew"},
              t \in DOMAIN T.rows
       PROVE  t \in DOMAIN S /\ S[t] = R[t]
  <2>1. ~Writes(s, t)
    BY <1>10, <1>11
  <2>2. t \in DOMAIN d.rows /\ d.rows[t] = R[t]
    BY <1>6, <1>11 DEF SameHistory
  <2> QED BY <1>8, <2>1, <2>2, UnwrittenKept
<1>12. "wallet_ledger" \in DOMAIN S /\ S["wallet_ledger"] = R["wallet_ledger"]
  <2>1. "wallet_ledger" \in DOMAIN d.rows /\ d.rows["wallet_ledger"] = R["wallet_ledger"]
    BY <1>6 DEF SameHistory
  <2>2. /\ "wallet_ledger" \in DOMAIN Effect(d, s).rows
        /\ Effect(d, s).rows["wallet_ledger"] = d.rows["wallet_ledger"]
    BY <1>3, <1>5, <1>10, <2>1, LedgerKept
  <2> QED BY <1>3, <1>7, <2>1, <2>2
<1>13. ASSUME "user_airport_unlocks" \in DOMAIN T.rows
       PROVE  /\ "user_airport_unlocks" \in DOMAIN S
              /\ \A r : r.airport_id \notin DOMAIN DroppedAirports =>
                   (r \in S["user_airport_unlocks"] <=> r \in R["user_airport_unlocks"])
  BY <1>6, <1>8, <1>10, <1>13, UnlocksKept DEF SameHistory
<1>14. HasRentals(S) /\ RentalsIn(S) = RentalsIn(R)
  <2>1. HasRentals(d.rows) /\ RentalsIn(d.rows) = RentalsIn(R)
    BY <1>6 DEF SameHistory
  <2> QED BY <1>5, <1>8, <1>9, <1>10, <2>1, RentalsKept
<1>15. SameHistory(T, R, S)
  BY <1>11, <1>12, <1>13, <1>14 DEF SameHistory
<1>16. ASSUME w1.crewed PROVE "user_airport_crew" \in DOMAIN S /\ CrewIn(S)
  <2>1. "users" \in DOMAIN d.rows /\ d.rows["users"] = R["users"] /\ S["users"] = R["users"]
    BY <1>6, <1>11 DEF SameHistory
  <2>2. CASE GivesCrew(s)
    <3>1. "user_airport_crew" \in DOMAIN d.rows
      BY <1>5, <1>9, <2>2 DEF GivesCrew, Applicable
    <3> QED BY <1>8, <2>1, <2>2, <3>1, CrewGiven
  <2>3. CASE w.crewed /\ ~Writes(s, "user_airport_crew")
    <3>1. "user_airport_crew" \in DOMAIN S /\ S["user_airport_crew"] = d.rows["user_airport_crew"]
      BY <1>6, <1>8, <2>3, UnwrittenKept
    <3>2. Keys(S, "users") = Keys(d.rows, "users")
      BY <2>1 DEF Keys
    <3> QED BY <1>6, <2>3, <3>1, <3>2 DEF CrewIn
  <2> QED BY <1>4, <1>16, <2>2, <2>3
<1> QED BY <1>7, <1>15, <1>16

LEMMA WalkKeepsHistory ==
  ASSUME NEW T, {"users", "wallet_ledger"} \subseteq DOMAIN T.rows,
         DOMAIN T.rows = DOMAIN T.schema.tables, NEW P, Null \notin P,
         NEW d, Fits(d, T, P), HasRentals(d.rows),
         \A r \in d.rows["wallet_ledger"] : r = [c \in {"user_id", "reason"} |-> r[c]],
         NEW script, Len(script) \in Nat
  PROVE  InHistory(T, d.rows, Outcome(T, script), Execute(d, script))
<1>1. PICK W, X : W = Walking(T, script) /\ X = Executing(d, script)
  OBVIOUS
<1>2. /\ W[0] = [tidy |-> TRUE, legal |-> TRUE, spares |-> TRUE, crewed |-> FALSE, db |-> T]
      /\ \A n \in 1 .. Len(script) : W[n] = Pace(T, W[n - 1], script[n])
  BY <1>1, WalkingSteps
<1>3. /\ X[0] = [ok |-> TRUE, db |-> d]
      /\ \A n \in 1 .. Len(script) : X[n] = Step(X[n - 1], script[n])
  BY <1>1, ExecutingSteps
<1> DEFINE S == {n \in Nat : n \in 0 .. Len(script) => InHistory(T, d.rows, W[n], X[n])}
<1>4. 0 \in S
  <2>1. DOMAIN d.rows = DOMAIN T.rows
    BY DEF Fits, RowsFit
  <2>2. SameHistory(T, d.rows, d.rows)
    BY <2>1 DEF SameHistory
  <2>3. InHistory(T, d.rows, W[0], X[0])
    BY <1>2, <1>3, <2>2 DEF InHistory
  <2> QED BY <2>3
<1>5. \A n \in Nat : n \in S => n + 1 \in S
  <2> SUFFICES ASSUME NEW n \in Nat, n \in S, n + 1 \in 0 .. Len(script)
               PROVE  InHistory(T, d.rows, W[n + 1], X[n + 1])
    OBVIOUS
  <2>1. PICK m, s : m = n + 1 /\ s = script[m]
    OBVIOUS
  <2>2. m \in 1 .. Len(script) /\ m - 1 = n /\ n \in 0 .. Len(script)
    BY <2>1
  <2>3. W[m] = Pace(T, W[n], s)
    BY <1>2, <2>1, <2>2
  <2>4. X[m] = Step(X[n], s)
    BY <1>3, <2>1, <2>2
  <2>5. InHistory(T, d.rows, W[n], X[n])
    BY <2>2
  <2>6. InStep(W[n], X[n], P)
    BY <1>1, <2>2, WalkInStep
  <2>7. InHistory(T, d.rows, Pace(T, W[n], s), Step(X[n], s))
    BY <2>5, <2>6, StepKeepsHistory
  <2> QED BY <2>1, <2>3, <2>4, <2>7
<1>6. Nat \subseteq S
  <2> HIDE DEF S
  <2> QED BY <1>4, <1>5, SetInduction
<1>7. Len(script) \in 0 .. Len(script)
  OBVIOUS
<1>8. InHistory(T, d.rows, W[Len(script)], X[Len(script)])
  BY <1>6, <1>7
<1> QED BY <1>1, <1>8 DEF Outcome, Execute

\* The ledger and the rentals of a database at a revision.
LEMMA UsedShape ==
  ASSUME NEW v \in 1 .. HeadRevision, v \in Fitting, NEW P, NEW d, Fits(d, Template(v), P)
  PROVE  /\ DOMAIN d.rows = DOMAIN Template(v).rows
         /\ \A r \in d.rows["wallet_ledger"] : r = [c \in {"user_id", "reason"} |-> r[c]]
         /\ HasRentals(d.rows) /\ RentalsIn(d.rows) = Rentals(d, v)
<1>1. PICK T, t : T = Template(v) /\ t = Renting(v)
  OBVIOUS
<1>2. DOMAIN d.rows = DOMAIN T.rows /\ \A x \in DOMAIN T.rows : Shows(x, T.rows[x], d.rows[x], P)
  BY <1>1 DEF Fits, RowsFit
<1>3. \A r \in d.rows["wallet_ledger"] : r = [c \in {"user_id", "reason"} |-> r[c]]
  <2>1. "wallet_ledger" \in DOMAIN T.rows /\ "wallet_ledger" \notin CatalogueTables
    BY <1>1, PlayersHave, PlayerTables
  <2>2. T.rows["wallet_ledger"] = {LedgerRow(Player, x) : x \in Reasons(v)}
    BY <1>1, PlayersHave
  <2>3. d.rows["wallet_ledger"] \subseteq {Filled(q, u) : q \in T.rows["wallet_ledger"], u \in P}
    BY <1>2, <2>1 DEF Shows
  <2>4. ASSUME NEW r \in d.rows["wallet_ledger"] PROVE r = [c \in {"user_id", "reason"} |-> r[c]]
    <3>1. PICK x \in Reasons(v), u \in P : r = Filled(LedgerRow(Player, x), u)
      BY <2>2, <2>3
    <3>2. r = LedgerRow(u, x)
      BY <3>1, RowsFilled
    <3> QED BY <3>2 DEF LedgerRow
  <2> QED BY <2>4
<1>4. BetTable(d.rows) = t
  <2>1. v > 0 /\ v \in Nat
    BY DEF HeadRevision
  <2>2. "bets" \in DOMAIN Fresh[v + 1].rows <=> v < 5
    BY <2>1 DEF Fitting, RevisionFits, TablesFit
  <2>3. "bets" \in DOMAIN d.rows <=> v < 5
    BY <1>1, <1>2, <2>2, TemplateIs
  <2> QED BY <1>1, <2>3 DEF BetTable, Renting
<1>5. t \in DOMAIN d.rows /\ \A r \in d.rows[t] : {"id", "status"} \subseteq DOMAIN r
  <2>1. t \in DOMAIN T.rows /\ t \notin CatalogueTables
    BY <1>1, PlayersHave, PlayerTables
  <2>2. T.rows[t] = {RentalRow(v, Player, x) : x \in Statuses(v)}
    BY <1>1, PlayersHave
  <2>3. d.rows[t] \subseteq {Filled(q, u) : q \in T.rows[t], u \in P}
    BY <1>2, <2>1 DEF Shows
  <2>4. ASSUME NEW r \in d.rows[t] PROVE {"id", "status"} \subseteq DOMAIN r
    <3>1. PICK x \in Statuses(v), u \in P : r = Filled(RentalRow(v, Player, x), u)
      BY <2>2, <2>3
    <3>2. r = RentalRow(v, u, x)
      BY <3>1, RowsFilled
    <3> QED BY <3>2 DEF RentalRow
  <2> QED BY <1>2, <2>1, <2>4
<1>6. HasRentals(d.rows) /\ RentalsIn(d.rows) = Rentals(d, v)
  BY <1>1, <1>4, <1>5 DEF HasRentals, RentalsIn, Rentals
<1> QED BY <1>1, <1>2, <1>3, <1>6

\* What an upgrade that is accepted leaves of the database.
LEMMA UpgradeKeeps ==
  ASSUME NEW v \in 1 .. HeadRevision - 1, v \in Fitting, NEW P, Null \notin P,
         NEW d, Fits(d, Template(v), P), RunUpgrades(d, v).ok
  PROVE  /\ SameHistory(Template(v), d.rows, RunUpgrades(d, v).db.rows)
         /\ v < 19 => CrewIn(RunUpgrades(d, v).db.rows)
<1>1. PICK T, script : T = Template(v) /\ script = UpgradesFrom(v)
  OBVIOUS
<1>2. v \in 1 .. HeadRevision
  BY DEF HeadRevision
<1>3. UpgradeFits(v) /\ Impartial(T)
  BY <1>1, <1>2 DEF Fitting, RevisionFits
<1>4. /\ Len(script) \in Nat /\ Outcome(T, script).tidy /\ Outcome(T, script).spares
      /\ v < 19 => Outcome(T, script).crewed
  BY <1>1, <1>3 DEF UpgradeFits
<1>5. {"users", "wallet_ledger"} \subseteq DOMAIN T.rows /\ DOMAIN T.rows = DOMAIN T.schema.tables
  BY <1>1, <1>2, <1>3, PlayersHave DEF Impartial
<1>6. /\ HasRentals(d.rows)
      /\ \A r \in d.rows["wallet_ledger"] : r = [c \in {"user_id", "reason"} |-> r[c]]
  BY <1>2, UsedShape
<1>7. InHistory(T, d.rows, Outcome(T, script), Execute(d, script))
  BY <1>1, <1>4, <1>5, <1>6, WalkKeepsHistory
<1> QED BY <1>1, <1>4, <1>7 DEF InHistory, RunUpgrades

\* An upgrade takes nothing from a player but what 0014 and 0015 announce, for
\* any players whatever they have done at whichever revision.
THEOREM UpgradesTakeNothing ==
  ASSUME TheseScripts, AllFit
  PROVE  Spec => HistoryKept
<1> DEFINE Same ==
      /\ content.rows["users"] = content'.rows["users"]
      /\ content.rows["wallet_ledger"] = content'.rows["wallet_ledger"]
      /\ Rentals(content, version) = Rentals(content', version')
      /\ version >= 3 => AirportUnlocks(content) = AirportUnlocks(content')
      /\ \A t \in {"user_aircraft_family_unlocks", "user_airport_crew"} :
           t \in DOMAIN content.rows => content.rows[t] = content'.rows[t]
<1>1. Inv /\ ContentFits /\ [Next]_vars => (version \in 1 .. version' - 1 => Same)
  <2> SUFFICES ASSUME Inv, ContentFits, [Next]_vars, version \in 1 .. version' - 1 PROVE Same
    OBVIOUS
  <2>1. version \in 0 .. HeadRevision /\ version \in Fitting /\ HeadRevision \in Fitting
    BY DEF Inv, TypeOK, Revisions, TheseScripts, AllFit, HeadRevision
  <2>2. PICK p \in Processes : Migrate(p)
    <3>1. ASSUME NEW p \in Processes, StepsOf(p), ~Migrate(p) PROVE version' = version
      BY <3>1 DEF StepsOf, Start, ReadVersion, ConnectionLost, Timeout, Exit, Stop
    <3>2. ASSUME Downgrade PROVE version' = version - 1
      BY <3>2 DEF Downgrade
    <3>3. ASSUME Play PROVE version' = version
      BY <3>3 DEF Play
    <3> QED BY <2>1, <3>1, <3>2, <3>3 DEF Next, StepsOf, vars
  <2>3. /\ version \in 1 .. HeadRevision - 1 /\ version' = HeadRevision
        /\ RunUpgrades(content, version).ok /\ content' = RunUpgrades(content, version).db
    BY <2>1, <2>2, UpgradeIs DEF HeadRevision
  <2>4. PICK P \in SUBSET Users : Fits(content, Template(version), P)
    BY DEF ContentFits
  <2>5. Null \notin P
    BY NullIsNobody
  <2>6. PICK T : T = Template(version)
    OBVIOUS
  <2>7. SameHistory(T, content.rows, content'.rows)
    BY <2>1, <2>3, <2>4, <2>5, <2>6, UpgradeKeeps
  <2>8. PICK Q \in SUBSET P : Fits(content', Template(HeadRevision), Q)
    BY <2>1, <2>3, <2>4, <2>5, UpgradeLands DEF HeadRevision
  <2>9. version \in 1 .. HeadRevision /\ HeadRevision \in 1 .. HeadRevision
    BY <2>3 DEF HeadRevision
  <2>10. DOMAIN content.rows = DOMAIN T.rows /\ RentalsIn(content.rows) = Rentals(content, version)
    BY <2>1, <2>4, <2>6, <2>9, UsedShape
  <2>11. RentalsIn(content'.rows) = Rentals(content', version')
    BY <2>1, <2>3, <2>8, <2>9, UsedShape
  <2>12. /\ {"users", "wallet_ledger"} \subseteq DOMAIN T.rows
         /\ version >= 3 => "user_airport_unlocks" \in DOMAIN T.rows
    BY <2>1, <2>6, <2>9, PlayersHave
  <2>13. version >= 3 => AirportUnlocks(content) = AirportUnlocks(content')
    BY <2>7, <2>12 DEF SameHistory, AirportUnlocks
  <2>14. Rentals(content, version) = Rentals(content', version')
    BY <2>7, <2>10, <2>11 DEF SameHistory
  <2> QED BY <2>7, <2>10, <2>12, <2>13, <2>14 DEF SameHistory
<1>2. Inv /\ ContentFits /\ [Next]_vars => [(version \in 1 .. version' - 1) => Same]_vars
  BY <1>1
<1> QED BY <1>2, StartUpInvariant, ContentIsItsTemplate, PTL DEF Spec, HistoryKept

-----------------------------------------------------------------------------
(* The starter crew.                                                       *)

\* A database with the two tables, that agree on them with others.
HasCrew(d) ==
  d = [schema |-> d.schema, rows |-> d.rows] /\ {"users", "user_airport_crew"} \subseteq DOMAIN d.rows
SameCrew(d, e) ==
  /\ HasCrew(e) /\ e.rows["users"] = d.rows["users"]
  /\ e.rows["user_airport_crew"] = d.rows["user_airport_crew"]

LEMMA SameCrewIn ==
  ASSUME NEW d, NEW e, SameCrew(d, e), CrewIn(d.rows)
  PROVE  CrewIn(e.rows)
<1>1. Keys(e.rows, "users") = Keys(d.rows, "users")
  BY DEF SameCrew, Keys
<1> QED BY <1>1 DEF SameCrew, CrewIn

LEMMA WithSameCrew ==
  ASSUME NEW d, HasCrew(d), NEW t, t \notin {"users", "user_airport_crew"}, NEW A
  PROVE  SameCrew(d, With(d, t, A)) /\ SameCrew(d, [d EXCEPT !.rows[t] = A])
<1>1. ASSUME NEW B PROVE SameCrew(d, [d EXCEPT !.rows[t] = B])
  <2>1. PICK e : e = [d EXCEPT !.rows[t] = B]
    OBVIOUS
  <2>2. e = [schema |-> d.schema, rows |-> [d.rows EXCEPT ![t] = B]]
    BY <2>1 DEF HasCrew
  <2>3. SameCrew(d, e)
    BY <2>2 DEF SameCrew, HasCrew
  <2> QED BY <2>1, <2>3
<1>2. With(d, t, A) = [d EXCEPT !.rows[t] = d.rows[t] \cup A]
  BY DEF With
<1> QED BY <1>1, <1>2

LEMMA SameCrewTransitive ==
  ASSUME NEW d, NEW e, NEW f, SameCrew(d, e), SameCrew(e, f)
  PROVE  SameCrew(d, f)
  BY DEF SameCrew

LEMMA PaysSameCrew ==
  ASSUME NEW d, HasCrew(d), NEW u, NEW reason
  PROVE  SameCrew(d, Pays(d, u, reason))
  BY WithSameCrew DEF Pays

\* Rows added to one of the two tables.
LEMMA AddedCrew ==
  ASSUME NEW d, HasCrew(d), NEW t \in {"users", "user_airport_crew"}, NEW A
  PROVE  /\ HasCrew(With(d, t, A)) /\ With(d, t, A).rows[t] = d.rows[t] \cup A
         /\ \A x \in {"users", "user_airport_crew"} \ {t} : With(d, t, A).rows[x] = d.rows[x]
<1>1. PICK e, R : e = With(d, t, A) /\ R = [d.rows EXCEPT ![t] = d.rows[t] \cup A]
  OBVIOUS
<1>2. e = [d EXCEPT !.rows[t] = d.rows[t] \cup A]
  BY <1>1 DEF With
<1>3. e = [schema |-> d.schema, rows |-> R]
  BY <1>1, <1>2 DEF HasCrew
<1>4. e.rows = R /\ e = [schema |-> e.schema, rows |-> e.rows]
  BY <1>3
<1>5. DOMAIN R = DOMAIN d.rows
  BY <1>1
<1>6. HasCrew(e)
  BY <1>4, <1>5 DEF HasCrew
<1>7. R[t] = d.rows[t] \cup A /\ \A x \in {"users", "user_airport_crew"} \ {t} : R[x] = d.rows[x]
  BY <1>1 DEF HasCrew
<1> QED BY <1>1, <1>4, <1>6, <1>7

\* Who signs up is given the crew.
LEMMA SignUpCrew ==
  ASSUME NEW d, HasCrew(d), CrewIn(d.rows), NEW v, ~(v < 19), NEW u
  PROVE  CrewIn(SignUp(d, v, u).rows)
<1> DEFINE A == {CrewRow(u, a, 1) : a \in CrewAirports}
<1>1. PICK t, d1, d2, e : /\ t = "user_airport_crew"
                          /\ d1 = With(d, "users", {UserRow(u)})
                          /\ d2 = Pays(d1, u, "signup_bonus")
                          /\ e = SignUp(d, v, u)
  OBVIOUS
<1>2. HasCrew(d1) /\ d1.rows["users"] = d.rows["users"] \cup {UserRow(u)} /\ d1.rows[t] = d.rows[t]
  BY <1>1, AddedCrew
<1>3. HasCrew(d2) /\ d2.rows["users"] = d1.rows["users"] /\ d2.rows[t] = d1.rows[t]
  BY <1>1, <1>2, PaysSameCrew DEF SameCrew
<1>4. e = With(d2, t, A)
  <2>1. SignUp(d, v, u) =
          With(Pays(With(d, "users", {UserRow(u)}), u, "signup_bonus"), "user_airport_crew", A)
    BY DEF SignUp
  <2> HIDE DEF A
  <2> QED BY <1>1, <2>1
<1>5. e.rows["users"] = d2.rows["users"] /\ e.rows[t] = d2.rows[t] \cup A
  <2> HIDE DEF A
  <2>1. t \in {"users", "user_airport_crew"} /\ "users" \in {"users", "user_airport_crew"} \ {t}
    BY <1>1
  <2>2. /\ With(d2, t, A).rows[t] = d2.rows[t] \cup A
        /\ \A x \in {"users", "user_airport_crew"} \ {t} : With(d2, t, A).rows[x] = d2.rows[x]
    BY <1>3, <2>1, AddedCrew
  <2> QED BY <1>4, <2>1, <2>2, Zenon
<1>6. e.rows["users"] = d.rows["users"] \cup {UserRow(u)} /\ e.rows[t] = d.rows[t] \cup A
  BY <1>2, <1>3, <1>5
<1>7. ASSUME NEW k \in Keys(e.rows, "users") PROVE k \in Keys(d.rows, "users") \/ k = u
  <2>1. KeyOf("users") = "id" /\ UserRow(u)["id"] = u
    BY DEF KeyOf, UserRow
  <2> QED BY <1>6, <2>1 DEF Keys
<1>8. ASSUME NEW k \in Keys(e.rows, "users"), NEW a \in CrewAirports
      PROVE  \E r \in e.rows[t] : r.user_id = k /\ r.airport_id = a /\ r.crew_count >= 1
  <2>1. CASE k \in Keys(d.rows, "users")
    BY <1>1, <1>6, <2>1 DEF CrewIn
  <2>2. CASE k = u
    <3>1. PICK r : r = CrewRow(u, a, 1)
      OBVIOUS
    <3>2. r.user_id = u /\ r.airport_id = a /\ r.crew_count >= 1
      BY <3>1 DEF CrewRow
    <3>3. r \in e.rows[t]
      BY <1>1, <1>6, <3>1
    <3> QED BY <2>2, <3>2, <3>3
  <2> QED BY <1>7, <2>1, <2>2
<1> QED BY <1>1, <1>8 DEF CrewIn

LEMMA HireCrewCrew ==
  ASSUME NEW d, HasCrew(d), CrewIn(d.rows), NEW u
  PROVE  CrewIn(HireCrew(d, u).rows)
<1> DEFINE Hired(r) == IF r.user_id = u /\ r.airport_id = "OMDB" THEN CrewRow(u, "OMDB", 2) ELSE r
<1>1. PICK t, A : t = "user_airport_crew" /\ A = {Hired(r) : r \in d.rows[t]}
  OBVIOUS
<1>2. PICK e : e = [d EXCEPT !.rows[t] = A]
  OBVIOUS
<1>3. e = [schema |-> d.schema, rows |-> [d.rows EXCEPT ![t] = A]]
  BY <1>2 DEF HasCrew
<1>4. HasCrew(e) /\ e.rows["users"] = d.rows["users"] /\ e.rows[t] = A
  BY <1>1, <1>3 DEF HasCrew
<1>5. Keys(e.rows, "users") = Keys(d.rows, "users")
  BY <1>4 DEF Keys
<1>6. ASSUME NEW r PROVE /\ Hired(r).user_id = r.user_id /\ Hired(r).airport_id = r.airport_id
                         /\ r.crew_count >= 1 => Hired(r).crew_count >= 1
  BY DEF CrewRow
<1>7. CrewIn(e.rows)
  <2> SUFFICES ASSUME NEW k \in Keys(d.rows, "users"), NEW a \in CrewAirports
               PROVE  \E r \in A : r.user_id = k /\ r.airport_id = a /\ r.crew_count >= 1
    BY <1>1, <1>4, <1>5 DEF CrewIn
  <2>1. PICK r \in d.rows[t] : r.user_id = k /\ r.airport_id = a /\ r.crew_count >= 1
    BY <1>1 DEF CrewIn
  <2>2. Hired(r) \in A
    BY <1>1
  <2> QED BY <1>6, <2>1, <2>2
<1>8. HireCrew(d, u) = Pays(e, u, "crew_hire")
  BY <1>1, <1>2 DEF HireCrew
<1>9. SameCrew(e, HireCrew(d, u))
  BY <1>4, <1>8, PaysSameCrew
<1> QED BY <1>7, <1>9, SameCrewIn

LEMMA SameCrewItself == ASSUME NEW d, HasCrew(d) PROVE SameCrew(d, d)
  BY DEF SameCrew

\* The other requests write neither table.
LEMMA OthersSameCrew ==
  ASSUME NEW d, HasCrew(d), NEW v, NEW u
  PROVE  /\ \A a : SameCrew(d, Rent(d, v, u, a)) /\ SameCrew(d, UnlockAirport(d, u, a))
         /\ SameCrew(d, Settle(d, v, u))
         /\ \A l : SameCrew(d, UnlockAircraft(d, v, u, l))
<1>1. {"wallet_ledger", "tracked_flights", "airports", "user_airport_unlocks", Renting(v), Licensing(v)}
        \cap {"users", "user_airport_crew"} = {}
  BY DEF Renting, Licensing
<1>2. ASSUME NEW e, SameCrew(d, e), NEW t, t \notin {"users", "user_airport_crew"}, NEW A
      PROVE  SameCrew(d, With(e, t, A)) /\ SameCrew(d, [e EXCEPT !.rows[t] = A])
  <2>1. HasCrew(e)
    BY <1>2 DEF SameCrew
  <2>2. SameCrew(e, With(e, t, A)) /\ SameCrew(e, [e EXCEPT !.rows[t] = A])
    BY <1>2, <2>1, WithSameCrew
  <2> QED BY <1>2, <2>2, SameCrewTransitive
<1>3. ASSUME NEW e, SameCrew(d, e), NEW reason PROVE SameCrew(d, Pays(e, u, reason))
  BY <1>1, <1>2, <1>3 DEF Pays
<1>4. SameCrew(d, d)
  BY SameCrewItself
<1>5. ASSUME NEW a PROVE SameCrew(d, Rent(d, v, u, a))
  <2>1. PICK d1, d2 : /\ d1 = With(d, "tracked_flights", {FlightRow(u, a)})
                      /\ d2 = With(d1, Renting(v), {RentalRow(v, u, Underway(v))})
    OBVIOUS
  <2>2. SameCrew(d, d1)
    BY <1>1, <1>2, <1>4, <2>1
  <2>3. SameCrew(d, d2)
    BY <1>1, <1>2, <2>1, <2>2
  <2> QED BY <1>3, <2>1, <2>3 DEF Rent
<1>6. ASSUME NEW a PROVE SameCrew(d, UnlockAirport(d, u, a))
  <2>1. PICK A : A = {IF r.icao4 = a THEN [r EXCEPT !.is_active = TRUE] ELSE r : r \in d.rows["airports"]}
    OBVIOUS
  <2>2. PICK d1, d2 : /\ d1 = [d EXCEPT !.rows["airports"] = A]
                      /\ d2 = With(d1, "user_airport_unlocks", {UnlockRow(u, a)})
    OBVIOUS
  <2>3. SameCrew(d, d1)
    BY <1>1, <1>2, <1>4, <2>2
  <2>4. SameCrew(d, d2)
    BY <1>1, <1>2, <2>2, <2>3
  <2> QED BY <1>3, <2>1, <2>2, <2>4 DEF UnlockAirport
<1>7. SameCrew(d, Settle(d, v, u))
  <2>1. PICK A : A = {IF r.id = u THEN RentalRow(v, u, Settled(v)) ELSE r : r \in d.rows[Renting(v)]}
    OBVIOUS
  <2>2. PICK e : e = [d EXCEPT !.rows[Renting(v)] = A]
    OBVIOUS
  <2>3. SameCrew(d, e)
    BY <1>1, <1>2, <1>4, <2>2
  <2> QED BY <1>3, <2>1, <2>2, <2>3 DEF Settle
<1>8. ASSUME NEW l PROVE SameCrew(d, UnlockAircraft(d, v, u, l))
  <2>1. SameCrew(d, With(d, Licensing(v), {LicenceRow(v, u, l)}))
    BY <1>1, <1>2, <1>4
  <2> QED BY <1>3, <2>1 DEF UnlockAircraft
<1> QED BY <1>5, <1>6, <1>7, <1>8

LEMMA UsedHasCrew ==
  ASSUME NEW v \in 19 .. HeadRevision, v \in Fitting, NEW P, NEW d, Fits(d, Template(v), P)
  PROVE  HasCrew(d)
<1>1. v \in 1 .. HeadRevision /\ v >= 19
  BY DEF HeadRevision
<1>2. {"users", "user_airport_crew"} \subseteq DOMAIN Template(v).rows
  BY <1>1, PlayersHave
<1>3. DOMAIN d.rows = DOMAIN Template(v).rows
  BY <1>1, UsedShape
<1>4. d = [schema |-> d.schema, rows |-> d.rows]
  BY DEF Fits
<1> QED BY <1>2, <1>3, <1>4 DEF HasCrew

LEMMA RequestsKeepCrew ==
  ASSUME NEW v \in 19 .. HeadRevision, NEW d, HasCrew(d), CrewIn(d.rows), NEW e \in Requests(d, v)
  PROVE  CrewIn(e.rows)
<1>1. v # 0 /\ ~(v < 19)
  BY DEF HeadRevision
<1>2. \/ \E u : e = SignUp(d, v, u)
      \/ \E u, a : e = Rent(d, v, u, a)
      \/ \E u : e = Settle(d, v, u)
      \/ \E u, a : e = UnlockAirport(d, u, a)
      \/ \E u, l : e = UnlockAircraft(d, v, u, l)
      \/ \E u : e = HireCrew(d, u)
  BY <1>1 DEF Requests
<1>3. CASE \E u : e = SignUp(d, v, u)
  BY <1>1, <1>3, SignUpCrew
<1>4. CASE \E u : e = HireCrew(d, u)
  BY <1>4, HireCrewCrew
<1>5. ASSUME SameCrew(d, e) PROVE CrewIn(e.rows)
  BY <1>5, SameCrewIn
<1>6. CASE \/ \E u, a : e = Rent(d, v, u, a)
           \/ \E u : e = Settle(d, v, u)
           \/ \E u, a : e = UnlockAirport(d, u, a)
           \/ \E u, l : e = UnlockAircraft(d, v, u, l)
  BY <1>5, <1>6, OthersSameCrew
<1> QED BY <1>2, <1>3, <1>4, <1>6

\* A table that no statement of a script writes is kept.
LEMMA UnwrittenByScript ==
  ASSUME NEW script, Len(script) \in Nat, NEW t, \A n \in 1 .. Len(script) : ~Writes(script[n], t),
         NEW d, t \in DOMAIN d.rows, Execute(d, script).ok
  PROVE  /\ t \in DOMAIN Execute(d, script).db.rows
         /\ Execute(d, script).db.rows[t] = d.rows[t]
<1>1. PICK X : X = Executing(d, script)
  OBVIOUS
<1>2. /\ X[0] = [ok |-> TRUE, db |-> d]
      /\ \A n \in 1 .. Len(script) : X[n] = Step(X[n - 1], script[n])
  BY <1>1, ExecutingSteps
<1> DEFINE S == {n \in Nat : n \in 0 .. Len(script) =>
                   /\ "ok" \in DOMAIN X[n]
                   /\ X[n].ok => t \in DOMAIN X[n].db.rows /\ X[n].db.rows[t] = d.rows[t]}
<1>3. 0 \in S
  BY <1>2
<1>4. \A n \in Nat : n \in S => n + 1 \in S
  <2> SUFFICES ASSUME NEW n \in Nat, n \in S, n + 1 \in 0 .. Len(script)
               PROVE  /\ "ok" \in DOMAIN X[n + 1]
                      /\ X[n + 1].ok =>
                           t \in DOMAIN X[n + 1].db.rows /\ X[n + 1].db.rows[t] = d.rows[t]
    OBVIOUS
  <2>1. PICK m, s, x : m = n + 1 /\ s = script[m] /\ x = X[n]
    OBVIOUS
  <2>2. m \in 1 .. Len(script) /\ m - 1 = n /\ n \in 0 .. Len(script)
    BY <2>1
  <2>3. X[m] = Step(x, s) /\ ~Writes(s, t)
    BY <1>2, <2>1, <2>2
  <2>4. /\ "ok" \in DOMAIN x
        /\ x.ok => t \in DOMAIN x.db.rows /\ x.db.rows[t] = d.rows[t]
    BY <2>1, <2>2
  <2>5. /\ "ok" \in DOMAIN X[m]
        /\ X[m].ok => x.ok /\ X[m].db = Effect(x.db, s)
    BY <2>3, <2>4, StepIs
  <2>6. ASSUME X[m].ok PROVE t \in DOMAIN X[m].db.rows /\ X[m].db.rows[t] = d.rows[t]
    <3>1. X[m].db.rows = RowsEffect(x.db.rows, s)
      BY <2>5, <2>6 DEF Effect
    <3> QED BY <2>3, <2>4, <2>5, <2>6, <3>1, UnwrittenKept
  <2> QED BY <2>1, <2>5, <2>6
<1>5. Nat \subseteq S
  <2> HIDE DEF S
  <2> QED BY <1>3, <1>4, SetInduction
<1>6. Len(script) \in 0 .. Len(script)
  OBVIOUS
<1> QED BY <1>1, <1>5, <1>6 DEF Execute

LEMMA UpgradesKeepCrew ==
  ASSUME NEW v \in 0 .. HeadRevision - 1, v \in Fitting, HeadRevision \in Fitting,
         NEW P, Null \notin P, NEW d, Fits(d, Template(v), P),
         v >= 19 => CrewIn(d.rows), RunUpgrades(d, v).ok
  PROVE  CrewIn(RunUpgrades(d, v).db.rows)
<1>1. PICK e, h : e = RunUpgrades(d, v).db /\ h = HeadRevision
  OBVIOUS
<1>2. h \in 1 .. HeadRevision /\ h \in Fitting
  BY <1>1 DEF HeadRevision
<1>3. CASE v = 0
  <2>1. NewFits
    BY <1>3 DEF Fitting, RevisionFits
  <2>2. Fits(d, Template(v), {})
    BY <1>3, <2>1, EmptyFits
  <2>3. Null \notin {}
    OBVIOUS
  <2>4. PICK Q \in SUBSET {} : Fits(e, Template(h), Q)
    BY <1>1, <2>2, <2>3, UpgradeLands
  <2>5. Keys(e.rows, "users") = Q
    BY <1>2, <2>4, SameOffers
  <2> QED BY <1>1, <2>4, <2>5 DEF CrewIn
<1>4. CASE v \in 1 .. 18
  <2>1. v \in 1 .. HeadRevision - 1 /\ v < 19
    BY <1>4 DEF HeadRevision
  <2> QED BY <1>1, <2>1, UpgradeKeeps
<1>5. CASE v >= 19
  <2>1. v \in 1 .. HeadRevision - 1 /\ v \in 1 .. HeadRevision
    BY <1>5 DEF HeadRevision
  <2>2. SameHistory(Template(v), d.rows, e.rows)
    BY <1>1, <2>1, UpgradeKeeps
  <2>3. {"users", "user_airport_crew"} \subseteq DOMAIN Template(v).rows
    BY <1>5, <2>1, PlayersHave
  <2>4. e.rows["users"] = d.rows["users"] /\ e.rows["user_airport_crew"] = d.rows["user_airport_crew"]
    BY <2>2, <2>3 DEF SameHistory
  <2>5. Keys(e.rows, "users") = Keys(d.rows, "users")
    BY <2>4 DEF Keys
  <2> QED BY <1>1, <1>5, <2>4, <2>5 DEF CrewIn
<1> QED BY <1>3, <1>4, <1>5 DEF HeadRevision

LEMMA DowngradesKeepCrew ==
  ASSUME NEW v \in 20 .. HeadRevision, v \in Fitting, NEW P, NEW d, Fits(d, Template(v), P),
         CrewIn(d.rows), Execute(d, Downgrades[v]).ok
  PROVE  CrewIn(Execute(d, Downgrades[v]).db.rows)
<1>1. PICK script, e : script = Downgrades[v] /\ e = Execute(d, script).db
  OBVIOUS
<1>2. v > 0 /\ v > 19 /\ v \in 19 .. HeadRevision
  BY DEF HeadRevision
<1>3. /\ Len(script) \in Nat
      /\ \A n \in 1 .. Len(script) :
           ~Writes(script[n], "users") /\ ~Writes(script[n], "user_airport_crew")
  BY <1>1, <1>2 DEF Fitting, RevisionFits, DowngradeFits
<1>4. HasCrew(d)
  BY <1>2, UsedHasCrew
<1>5. "users" \in DOMAIN d.rows /\ "user_airport_crew" \in DOMAIN d.rows
  BY <1>4 DEF HasCrew
<1>6. e.rows["users"] = d.rows["users"]
  BY <1>1, <1>3, <1>5, UnwrittenByScript
<1>7. e.rows["user_airport_crew"] = d.rows["user_airport_crew"]
  BY <1>1, <1>3, <1>5, UnwrittenByScript
<1>8. Keys(e.rows, "users") = Keys(d.rows, "users")
  BY <1>6 DEF Keys
<1> QED BY <1>1, <1>6, <1>7, <1>8 DEF CrewIn

LEMMA FirstCrew ==
  ASSUME TheseScripts, AllFit, Init, version >= 19
  PROVE  CrewIn(content.rows)
<1>1. PICK v, u, F : /\ v = version /\ F = Fresh[v + 1]
                     /\ u = CHOOSE x \in Users : TRUE
  OBVIOUS
<1>2. v \in 19 .. HeadRevision /\ v \in Fitting /\ content = FirstContent(v)
  BY <1>1 DEF TheseScripts, AllFit, Init, Revisions, HeadRevision
<1>3. v # 0 /\ ~(v < 19) /\ v \in 1 .. HeadRevision
  BY <1>2 DEF HeadRevision
<1>4. content = SignUp(F, v, u)
  BY <1>1, <1>2, <1>3 DEF FirstContent
<1>5. Fits(F, Template(v), {})
  BY <1>1, <1>2 DEF Fitting, RevisionFits
<1>6. HasCrew(F)
  BY <1>2, <1>5, UsedHasCrew
<1>7. Keys(F.rows, "users") = {}
  BY <1>2, <1>3, <1>5, SameOffers
<1>8. CrewIn(F.rows)
  BY <1>7 DEF CrewIn
<1> QED BY <1>3, <1>4, <1>6, <1>8, SignUpCrew

\* Whoever signs up, before 0019 or after, has a crew member at both starter
\* airports whenever the database is at 0019 or above, for any players.
THEOREM EveryoneHasCrew ==
  ASSUME TheseScripts, AllFit
  PROVE  Spec => []StarterCrew
<1>1. StarterCrew <=> (version >= 19 => CrewIn(content.rows))
  BY DEF StarterCrew, CrewIn
<1>2. StarterCrew' <=> (version' >= 19 => CrewIn(content'.rows))
  BY DEF StarterCrew, CrewIn, Keys
<1>3. Init => StarterCrew
  BY <1>1, FirstCrew
<1>4. Inv /\ ContentFits /\ StarterCrew /\ [Next]_vars => StarterCrew'
  <2> SUFFICES ASSUME Inv, ContentFits, StarterCrew, [Next]_vars, version' >= 19
               PROVE  CrewIn(content'.rows)
    BY <1>2
  <2>1. version \in 0 .. HeadRevision /\ version \in Fitting /\ HeadRevision \in Fitting
    BY DEF Inv, TypeOK, Revisions, TheseScripts, AllFit, HeadRevision
  <2>2. PICK P \in SUBSET Users : Fits(content, Template(version), P)
    BY DEF ContentFits
  <2>3. Null \notin P
    BY NullIsNobody
  <2>4. CASE content' = content /\ version' = version
    BY <1>1, <2>4
  <2>5. ASSUME NEW p \in Processes, Migrate(p) PROVE CrewIn(content'.rows)
    <3>1. CASE content' = content /\ version' = version
      BY <2>4, <3>1
    <3>2. CASE /\ version \in 0 .. HeadRevision - 1 /\ version' = HeadRevision
               /\ RunUpgrades(content, version).ok /\ content' = RunUpgrades(content, version).db
      BY <1>1, <2>1, <2>2, <2>3, <3>2, UpgradesKeepCrew
    <3> QED BY <2>5, <3>1, <3>2, UpgradeIs
  <2>6. CASE Downgrade
    <3>1. /\ version \in 1 .. HeadRevision /\ version' = version - 1
          /\ Execute(content, Downgrades[version]).ok
          /\ content' = Execute(content, Downgrades[version]).db
      BY <2>1, <2>6 DEF Downgrade, TheseScripts, RunDowngrade, HeadRevision
    <3>2. version \in 20 .. HeadRevision /\ version >= 19
      BY <3>1 DEF HeadRevision
    <3> QED BY <1>1, <2>1, <2>2, <3>1, <3>2, DowngradesKeepCrew
  <2>7. CASE Play
    <3>1. content' \in Requests(content, version) /\ version' = version
      BY <2>7 DEF Play, TheseScripts
    <3>2. version \in 19 .. HeadRevision /\ version >= 19
      BY <2>1, <3>1 DEF HeadRevision
    <3>3. HasCrew(content)
      BY <2>1, <2>2, <3>2, UsedHasCrew
    <3> QED BY <1>1, <3>1, <3>2, <3>3, RequestsKeepCrew
  <2>8. ASSUME NEW p \in Processes, StepsOf(p), ~Migrate(p)
        PROVE  content' = content /\ version' = version
    BY <2>8 DEF StepsOf, Start, ReadVersion, ConnectionLost, Timeout, Exit, Stop
  <2>9. CASE UNCHANGED vars
    BY <2>4, <2>9 DEF vars
  <2> QED BY <2>4, <2>5, <2>6, <2>7, <2>8, <2>9 DEF Next, StepsOf
<1> QED BY <1>3, <1>4, StartUpInvariant, ContentIsItsTemplate, PTL DEF Spec
=============================================================================
