------------------------------ MODULE CourseProofs ------------------------------
(***************************************************************************)
(* The invariants of Course, for every set of topics and of overlapping    *)
(* syncs, and any number of copies, reviews and edits in the source.       *)
(***************************************************************************)
EXTENDS Course, NaturalsInduction, WellFoundedInduction, TLAPS

Stages == {"off", "topics", "topic", "visit", "write", "move", "retire",
           "assignments", "insert", "update"}

\* What a sync may have loaded.
Found == UNION {[D -> [topic : Topics, hash : Hashes]] : D \in SUBSET Copies}

Locals ==
  [at : Stages, list : Topics \union {None}, have : Found,
   kept : Copies \union Topics \union {None}, due : 0..MaxUpsets \union {None},
   alone : BOOLEAN, best : Nat, stale : BOOLEAN]

Tables ==
  /\ place \in Topics \union {None} /\ due \in 0..upsets /\ upsets \in 0..MaxUpsets
  /\ topics \subseteq Topics
  /\ row \in [Copies -> Row \union {None}]
  /\ \A r, x \in Rows : r # x => row[r].topic # row[x].topic
  /\ work \in 0..MaxUpsets \union {None}

\* Where a sync writes it has chosen a copy of those it loaded, for a topic
\* that is listed.
Staged(f) ==
  /\ f.at = "topic" => f.kept \in Topics
  /\ f.at \in {"write", "move", "retire"} => f.kept \in DOMAIN f.have /\ f.list \in Topics

\* What a sync that is alone has loaded is what there is.
Fits(f) ==
  /\ f.at \in {"visit", "write", "move", "retire"} => DOMAIN f.have = Rows
  /\ f.at \in {"visit", "write", "move"} => \A r \in Rows : f.have[r] = Stored(r)
  /\ f.at \in {"write", "retire"} => row[f.kept].topic = f.list
  /\ f.at \in {"assignments", "insert", "update"} /\ f.list # None =>
       \E r \in Copies : Rows = {r} /\ row[r].topic = f.list

\* The best copy it began with is not lost, and is the one it chose.
Keeps(f) ==
  /\ \A r \in Rows : row[r].hash # "old"
  /\ \/ f.best = 0
     \/ \E r \in Rows : /\ row[r].reviews >= f.best
                        /\ f.at \in {"write", "move", "retire"} => r = f.kept

Alone(f) == Fits(f) /\ (~f.stale => Keeps(f))

Working(f) == f.alone /\ f.at # "off"

\* The inductive invariant.
IInv ==
  /\ Tables
  /\ sync \in [Syncs -> Locals]
  /\ \A s \in Syncs : Staged(sync[s])
  /\ \A s \in Syncs : Working(sync[s]) =>
       /\ Alone(sync[s])
       /\ \A o \in Syncs \ {s} : sync[o].at = "off"

-----------------------------------------------------------------------------
(* The operators of the model *)

LEMMA OffFacts ==
  /\ Off \in Locals /\ Off.at = "off" /\ Staged(Off) /\ Off.have = <<>>
  /\ <<>> \in Found /\ DOMAIN <<>> = {}
<1>1. <<>> \in [{} -> [topic : Topics, hash : Hashes]] /\ DOMAIN <<>> = {}
  OBVIOUS
<1>2. <<>> \in Found
  BY <1>1 DEF Found
<1>3. QED
  BY <1>1, <1>2 DEF Off, Locals, Stages, Staged

LEMMA HaveFacts ==
  ASSUME NEW f \in Locals
  PROVE  /\ f.have \in Found /\ DOMAIN f.have \subseteq Copies
         /\ \A r \in DOMAIN f.have :
              f.have[r] \in [topic : Topics, hash : Hashes]
BY DEF Locals, Found

LEMMA RowFacts ==
  ASSUME Tables, NEW r \in Rows
  PROVE  /\ r \in Copies /\ Exists(r) /\ row[r] \in Row /\ row[r].topic \in Topics
         /\ row[r].hash \in Hashes /\ row[r].reviews \in 0..MaxReviews
         /\ row[r].reviews \in Nat
         /\ Stored(r) \in [topic : Topics, hash : Hashes]
         /\ Stored(r).topic = row[r].topic /\ Stored(r).hash = row[r].hash
<1>1. r \in Copies /\ Exists(r) /\ row[r] \in Row
  BY DEF Rows, Exists, Tables
<1>2. QED
  BY <1>1, BoundsAssumption DEF Row, Stored

Below == {ss \in Nat \X Nat : ss[1] < ss[2]}

\* A bounded set of numbers has a greatest.
LEMMA MaxFacts ==
  ASSUME NEW n \in Nat, NEW S, S \subseteq 0..n, S # {}
  PROVE  Max(S) \in S /\ \A y \in S : Max(S) >= y
<1> DEFINE U == {m \in Nat : \A y \in S : m >= y}
<1>1. n \in U
  OBVIOUS
<1>2. IsWellFoundedOn(Below, Nat)
  BY NatLessThanWellFounded DEF OpToRel, Below
<1>3. PICK m \in U : \A d \in U : <<d, m>> \notin Below
  BY <1>1, <1>2, WFMin
<1>4. m \in S
  <2> SUFFICES ASSUME m \notin S
               PROVE  FALSE
    OBVIOUS
  <2>1. PICK y \in S : TRUE
    OBVIOUS
  <2>2. m > y
    BY <1>3, <2>1
  <2>3. m - 1 \in U
    BY <1>3, <2>2
  <2>4. <<m - 1, m>> \in Below
    BY <1>3, <2>3 DEF Below
  <2>5. QED
    BY <1>3, <2>3, <2>4
<1>5. QED
  BY <1>3, <1>4 DEF Max

LEMMA BestFacts ==
  ASSUME Tables
  PROVE  Best \in Nat /\ (Best = 0 \/ \E r \in Rows : row[r].reviews = Best)
<1> DEFINE S == {0} \union {row[r].reviews : r \in Rows}
<1>1. S \subseteq 0..MaxReviews /\ S # {}
  BY RowFacts, BoundsAssumption
<1>2. Max(S) \in S
  BY <1>1, MaxFacts, BoundsAssumption
<1>3. Best \in S
  BY <1>2 DEF Best
<1>4. Best \in Nat
  <2>1. Best \in 0..MaxReviews
    BY <1>1, <1>3
  <2>2. QED
    BY <2>1
<1>5. QED
  BY <1>3, <1>4

\* The topics that a sync knows of are those listed to it.
LEMMA WhereFacts ==
  ASSUME sync \in [Syncs -> Locals], NEW s \in Syncs
  PROVE  /\ \A t \in Where(s) : t = sync[s].list /\ t \in Topics
         /\ Where(s) = {} => sync[s].list = None
         /\ Listed(s) \subseteq Topics
<1>1. sync[s].list \in Topics \union {None}
  BY DEF Locals
<1>2. QED
  BY <1>1 DEF Where, Listed

-----------------------------------------------------------------------------
(* One sync at work *)

\* Sync s comes to have the locals f, and nobody else's are touched.
LEMMA OneSync ==
  ASSUME IInv, NEW s \in Syncs, NEW f \in Locals, Step(s, f), sync[s].at # "off",
         Tables', Staged(f),
         Working(f) => sync[s].alone /\ Alone(f)'
  PROVE  IInv'
<1>1. sync' \in [Syncs -> Locals] /\ sync'[s] = f
      /\ \A o \in Syncs \ {s} : sync'[o] = sync[o]
  BY DEF Step, IInv
<1>2. \A o \in Syncs : Staged(sync'[o])
  BY <1>1 DEF IInv
<1>3. ASSUME NEW t \in Syncs, Working(sync[t])'
      PROVE  /\ Alone(sync[t])'
             /\ \A o \in Syncs \ {t} : sync'[o].at = "off"
  <2>1. CASE t = s
    <3>1. Working(sync[s]) /\ Alone(f)' /\ sync[t]' = f
      BY <1>1, <1>3, <2>1 DEF Working
    <3>2. \A o \in Syncs \ {s} : sync[o].at = "off"
      BY <3>1 DEF IInv
    <3>3. Alone(sync[t])'
      BY <3>1 DEF Alone, Fits, Keeps
    <3>4. QED
      BY <1>1, <2>1, <3>2, <3>3
  <2>2. CASE t # s
    <3>1. Working(sync[t])
      BY <1>1, <1>3, <2>2 DEF Working
    <3>2. sync[s].at = "off"
      BY <2>2, <3>1 DEF IInv
    <3>3. QED
      BY <3>2
  <2>3. QED
    BY <2>1, <2>2
<1>4. \A t \in Syncs : Staged(sync[t])'
  BY <1>2 DEF Staged
<1>5. QED
  BY <1>1, <1>3, <1>4 DEF IInv

\* The same when no row of the material changes.
LEMMA LocalStep ==
  ASSUME IInv, NEW s \in Syncs, NEW f \in Locals, Step(s, f), sync[s].at # "off",
         UNCHANGED <<place, due, row, upsets>>,
         topics' \subseteq Topics, work' \in 0..MaxUpsets \union {None}, Staged(f),
         Working(f) => sync[s].alone /\ Alone(f)
  PROVE  IInv'
<1>1. Tables'
  BY DEF IInv, Tables, Rows, Exists
<1>2. Alone(f) => Alone(f)'
  BY DEF Alone, Fits, Keeps, Rows, Exists, Stored
<1>3. QED
  BY <1>1, <1>2, OneSync

LEMMA FailStep ==
  ASSUME IInv, NEW s \in Syncs, Fail(s), sync[s].at # "off", Tables'
  PROVE  IInv'
BY OffFacts, OneSync DEF Fail, Working

-----------------------------------------------------------------------------
(* The start, the source, and the people who review *)

LEMMA InitIInv == Init => IInv
<1> SUFFICES ASSUME Init PROVE IInv
  OBVIOUS
<1>1. row \in [Copies -> Row \union {None}]
  <2>1. [topic : Topics, hash : Hashes, reviews : {0, MaxReviews}] \subseteq Row
    BY BoundsAssumption DEF Row
  <2>2. QED
    BY <2>1 DEF Init
<1>2. \A r \in Rows : row[r].topic \in Topics
  <2> TAKE r \in Rows
  <2>1. row[r] \in Row
    BY <1>1 DEF Rows, Exists
  <2>2. QED
    BY <2>1 DEF Row
<1>3. Tables
  BY <1>1, <1>2, BoundsAssumption DEF Init, Tables
<1>4. sync = [s \in Syncs |-> Off]
  BY DEF Init
<1>5. QED
  BY <1>3, <1>4, OffFacts DEF IInv, Working

\* Nothing that a sync goes by changes, but that reviews are added.
LEMMA OutsideStep ==
  ASSUME IInv, Tables', UNCHANGED sync, Rows' = Rows,
         \A r \in Rows : /\ Stored(r)' = Stored(r)
                         /\ row'[r].topic = row[r].topic /\ row'[r].hash = row[r].hash
                         /\ row'[r].reviews >= row[r].reviews /\ row'[r].reviews \in Nat
  PROVE  IInv'
<1>1. ASSUME NEW s \in Syncs, Working(sync[s])
      PROVE  Alone(sync[s])'
  <2> DEFINE f == sync[s]
  <2>1. f \in Locals /\ f.best \in Nat /\ Staged(f) /\ Alone(f) /\ f = sync'[s]
    BY <1>1 DEF IInv, Locals
  <2> HIDE DEF f
  <2>2. \A g \in Locals : g = f => Fits(g)'
    <3> TAKE g \in Locals
    <3> HAVE g = f
    <3>1. Fits(g) /\ Staged(g)
      BY <2>1 DEF Alone
    <3>2. g.at \in {"visit", "write", "move", "retire"} => DOMAIN g.have = Rows
      BY <3>1 DEF Fits
    <3>3. g.at \in {"visit", "write", "move"} => \A r \in Rows : g.have[r] = Stored(r)
      BY <3>1 DEF Fits
    <3>4. g.at \in {"write", "retire"} => g.kept \in Rows /\ row[g.kept].topic = g.list
      BY <3>1 DEF Fits, Staged
    <3>5. g.at \in {"assignments", "insert", "update"} /\ g.list # None =>
            \E r \in Copies : Rows = {r} /\ row[r].topic = g.list
      BY <3>1 DEF Fits
    <3>6. QED
      BY <3>2, <3>3, <3>4, <3>5 DEF Fits
  <2>3. ASSUME NEW g \in Locals, g = f, Keeps(g)
        PROVE  Keeps(g)'
    <3>1. \A r \in Rows : row'[r].hash # "old"
      BY <2>3 DEF Keeps
    <3>2. ASSUME NEW r \in Rows, row[r].reviews >= g.best
          PROVE  row'[r].reviews >= g.best
      <4>1. row[r].reviews \in Nat /\ row'[r].reviews \in Nat /\ g.best \in Nat
        BY <2>1, <2>3, RowFacts DEF IInv
      <4>2. QED
        BY <3>2, <4>1
    <3>3. QED
      BY <2>3, <3>1, <3>2 DEF Keeps
  <2>4. \A g \in Locals : g = f => (~g.stale => Keeps(g)')
    BY <2>1, <2>3 DEF Alone
  <2>5. Fits(sync[s])'
    BY <2>1, <2>2 DEF Fits
  <2>6. ~sync'[s].stale => Keeps(sync[s])'
    BY <2>1, <2>4 DEF Keeps
  <2>7. QED
    BY <2>5, <2>6 DEF Alone
<1>2. QED
  BY <1>1 DEF IInv, Staged, Working

LEMMA SourceStep ==
  ASSUME IInv, (\E t \in Topics \union {None} : Move(t)) \/ Reschedule
  PROVE  IInv'
<1>1. /\ UNCHANGED <<topics, row, work, sync>> /\ upsets < MaxUpsets /\ upsets' = upsets + 1
      /\ place' \in Topics \union {None} /\ due' \in {due, due + 1}
  BY DEF Move, Reschedule, Upset, IInv, Tables
<1>2. Tables'
  <2>1. due' \in 0..upsets' /\ upsets' \in 0..MaxUpsets
    BY <1>1, BoundsAssumption DEF IInv, Tables
  <2>2. QED
    BY <1>1, <2>1 DEF IInv, Tables, Rows, Exists
<1>3. QED
  BY <1>1, <1>2, OutsideStep, RowFacts DEF IInv, Rows, Exists, Stored

LEMMA ReviewStep ==
  ASSUME IInv, NEW r \in Copies, Review(r)
  PROVE  IInv'
<1>1. /\ r \in Rows /\ row[r].reviews < MaxReviews /\ row' = [row EXCEPT ![r].reviews = @ + 1]
      /\ UNCHANGED <<place, due, upsets, topics, work, sync>>
  BY DEF Review, Rows, source
<1>2. row[r] \in Row /\ row[r].reviews \in Nat
  BY <1>1, RowFacts DEF IInv
<1>3. /\ row'[r] = [row[r] EXCEPT !.reviews = row[r].reviews + 1]
      /\ \A x \in Copies \ {r} : row'[x] = row[x]
  BY <1>1 DEF IInv, Tables
<1>4. /\ row'[r] \in Row /\ row'[r].topic = row[r].topic /\ row'[r].hash = row[r].hash
      /\ row'[r].reviews = row[r].reviews + 1
  BY <1>1, <1>2, <1>3, BoundsAssumption DEF Row
<1>5. Rows' = Rows
  BY <1>1, <1>3, <1>4, NoneAssumption DEF Rows, Exists
<1>6. row' \in [Copies -> Row \union {None}]
  BY <1>1, <1>4 DEF IInv, Tables
<1>7. \A x \in Rows : row'[x].topic = row[x].topic /\ row'[x].hash = row[x].hash
  BY <1>3, <1>4 DEF Rows
<1>8. Tables'
  BY <1>1, <1>5, <1>6, <1>7 DEF IInv, Tables
<1>9. \A x \in Rows : row'[x].reviews >= row[x].reviews /\ row'[x].reviews \in Nat
  <2> TAKE x \in Rows
  <2>1. row[x].reviews \in Nat
    BY RowFacts DEF IInv
  <2>2. CASE x = r
    BY <1>2, <1>4, <2>2
  <2>3. CASE x # r
    BY <1>3, <2>1, <2>3 DEF Rows
  <2>4. QED
    BY <2>2, <2>3
<1>10. QED
  BY <1>1, <1>5, <1>7, <1>8, <1>9, OutsideStep DEF Stored

-----------------------------------------------------------------------------
(* sync_course *)

\* A sync that was alone is not any more when another begins.
LEMMA BeginStep ==
  ASSUME IInv, NEW s \in Syncs, Begin(s)
  PROVE  IInv'
<1> DEFINE others == {o \in Syncs \ {s} : sync[o].at # "off"}
           stale == \E r \in Rows : row[r].hash = "old"
           first == [Snapshot EXCEPT !.at = "topics", !.best = Best, !.stale = stale]
           late == [Snapshot EXCEPT !.at = "topics", !.alone = FALSE]
           Told(o) == [sync[o] EXCEPT !.alone = FALSE, !.best = 0, !.stale = FALSE]
<1>1. /\ sync[s].at = "off" /\ UNCHANGED <<place, due, upsets, topics, row, work>>
      /\ sync' = [o \in Syncs |->
                    CASE o \in others -> Told(o)
                      [] o = s /\ others = {} -> first
                      [] o = s /\ others # {} -> late
                      [] OTHER -> sync[o]]
  BY DEF Begin, source
<1>2. Tables' /\ Tables
  BY <1>1 DEF IInv, Tables, Rows, Exists
<1>3. Snapshot \in Locals
  <2>1. place \in Topics \union {None} /\ due \in 0..MaxUpsets
    BY BoundsAssumption DEF IInv, Tables
  <2>2. QED
    BY <2>1, OffFacts DEF Snapshot, Locals
<1>4. /\ first \in Locals /\ first.at = "topics" /\ first.best = Best /\ first.stale = stale
      /\ late \in Locals /\ late.at = "topics" /\ ~late.alone
  <2>1. Best \in Nat
    BY <1>2, BestFacts
  <2>2. QED
    BY <1>3, <2>1 DEF Locals, Stages
<1>5. \A o \in Syncs : /\ Told(o) \in Locals /\ Told(o).at = sync[o].at /\ ~Told(o).alone
                       /\ Told(o).kept = sync[o].kept /\ Told(o).have = sync[o].have
                       /\ Told(o).list = sync[o].list
  BY DEF IInv, Locals
<1> HIDE DEF first, late, Told
<1>6. \A o \in Syncs \ {s} :
        sync'[o] = IF sync[o].at # "off" THEN Told(o) ELSE sync[o]
  BY <1>1
<1>7. sync'[s] = IF others = {} THEN first ELSE late
  BY <1>1
<1>8. sync' \in [Syncs -> Locals]
  <2>1. \A o \in Syncs : sync'[o] \in Locals
    BY <1>4, <1>5, <1>6, <1>7 DEF IInv
  <2>2. \E g : sync' = [o \in Syncs |-> g[o]]
    BY <1>1
  <2>3. QED
    BY <2>1, <2>2
<1>9. \A o \in Syncs : Staged(sync[o])'
  <2> TAKE o \in Syncs
  <2>1. CASE o = s
    BY <1>4, <1>7, <2>1 DEF Staged
  <2>2. CASE o # s
    BY <1>5, <1>6, <2>2 DEF IInv, Staged
  <2>3. QED
    BY <2>1, <2>2
<1>10. ASSUME NEW t \in Syncs, Working(sync[t])'
       PROVE  Alone(sync[t])' /\ \A o \in Syncs \ {t} : sync'[o].at = "off"
  <2>1. t = s
    BY <1>5, <1>6, <1>10 DEF Working
  <2>2. others = {} /\ sync'[t] = first
    BY <1>4, <1>7, <1>10, <2>1 DEF Working
  <2>3. Fits(sync[t])'
    BY <1>4, <2>2 DEF Fits
  <2>4. ~stale => Keeps(first)
    BY <1>2, <1>4, RowFacts, BestFacts DEF Keeps
  <2>5. Keeps(first) => Keeps(sync[t])'
    BY <1>1, <2>2 DEF Keeps, Rows, Exists
  <2>6. QED
    BY <1>4, <1>6, <2>1, <2>2, <2>3, <2>4, <2>5 DEF Alone
<1>11. QED
  BY <1>2, <1>8, <1>9, <1>10 DEF IInv

LEMMA LookUpTopicStep ==
  ASSUME IInv, NEW s \in Syncs, LookUpTopic(s)
  PROVE  IInv'
<1>1. PICK t \in Topics : /\ sync[s].at = "topics"
                          /\ Step(s, [sync[s] EXCEPT !.at = "topic", !.kept = t])
  BY WhereFacts DEF LookUpTopic, IInv
<1> DEFINE f == sync[s]
           g == [f EXCEPT !.at = "topic", !.kept = t]
<1>2. f \in Locals /\ (Working(f) => Alone(f))
  BY DEF IInv
<1>3. /\ g \in Locals /\ g.at = "topic" /\ g.kept = t /\ g.alone = f.alone
      /\ g.best = f.best /\ g.stale = f.stale
  BY <1>2 DEF Locals, Stages
<1>4. Staged(g)
  BY <1>3 DEF Staged
<1>5. Working(g) => f.alone /\ Alone(g)
  BY <1>1, <1>2, <1>3 DEF Working, Alone, Fits, Keeps
<1>6. /\ Step(s, g) /\ f.at # "off" /\ UNCHANGED <<place, due, row, upsets>>
      /\ topics' \subseteq Topics /\ work' \in 0..MaxUpsets \union {None}
  BY <1>1 DEF LookUpTopic, source, IInv, Tables
<1> HIDE DEF g
<1>7. QED
  BY <1>3, <1>4, <1>5, <1>6, LocalStep

LEMMA InsertTopicStep ==
  ASSUME IInv, NEW s \in Syncs, InsertTopic(s)
  PROVE  IInv'
<1> DEFINE f == sync[s]
           g == [f EXCEPT !.at = "topics", !.kept = None]
<1>1. /\ f.at = "topic" /\ UNCHANGED <<place, due, upsets, row, work>>
      /\ \/ Fail(s) /\ UNCHANGED topics
         \/ topics' = topics \union {f.kept} /\ Step(s, g)
  BY DEF InsertTopic, source
<1>2. f \in Locals /\ f.kept \in Topics /\ (Working(f) => Alone(f))
  BY <1>1 DEF IInv, Staged
<1>3. Tables'
  BY <1>1, <1>2 DEF IInv, Tables, Rows, Exists
<1>4. CASE Fail(s)
  BY <1>1, <1>3, <1>4, FailStep
<1>5. CASE Step(s, g)
  <2>1. /\ g \in Locals /\ g.at = "topics" /\ g.alone = f.alone
        /\ g.best = f.best /\ g.stale = f.stale
    BY <1>2 DEF Locals, Stages
  <2>2. Working(g) => f.alone /\ Alone(g)
    BY <1>1, <1>2, <2>1 DEF Working, Alone, Fits, Keeps
  <2>3. Staged(g)
    BY <2>1 DEF Staged
  <2>4. topics' \subseteq Topics /\ work' \in 0..MaxUpsets \union {None}
    BY <1>3 DEF Tables
  <2> HIDE DEF g
  <2>5. QED
    BY <1>1, <1>5, <2>1, <2>2, <2>3, <2>4, LocalStep
<1>6. QED
  BY <1>1, <1>4, <1>5

\* What is stored of the rows D that there are is what a sync may have loaded.
LEMMA LoadFacts ==
  ASSUME Tables, NEW D \in SUBSET Rows
  PROVE  /\ [r \in D |-> Stored(r)] \in Found
         /\ DOMAIN [r \in D |-> Stored(r)] = D
         /\ \A r \in D : [x \in D |-> Stored(x)][r] = Stored(r)
<1>1. D \subseteq Copies /\ \A r \in D : Stored(r) \in [topic : Topics, hash : Hashes]
  BY RowFacts DEF Rows
<1>2. [r \in D |-> Stored(r)] \in [D -> [topic : Topics, hash : Hashes]]
  BY <1>1
<1>3. QED
  BY <1>1, <1>2 DEF Found

\* LoadRows and Reread: the rows D are there, all of them if the sync is alone.
LEMMA LoadStep ==
  ASSUME IInv, NEW s \in Syncs, sync[s].at \in {"topics", "visit"},
         NEW D \in SUBSET Rows, Working(sync[s]) => D = Rows,
         Step(s, [sync[s] EXCEPT !.at = "visit", !.have = [r \in D |-> Stored(r)]]),
         UNCHANGED <<source, topics, row, work>>
  PROVE  IInv'
<1> DEFINE f == sync[s]
           loaded == [r \in D |-> Stored(r)]
           g == [f EXCEPT !.at = "visit", !.have = loaded]
<1>1. f \in Locals /\ (Working(f) => Alone(f))
  BY DEF IInv
<1>2. loaded \in Found /\ DOMAIN loaded = D /\ \A r \in D : loaded[r] = Stored(r)
  BY LoadFacts DEF IInv
<1> HIDE DEF loaded
<1>3. /\ g \in Locals /\ g.at = "visit" /\ g.alone = f.alone /\ g.have = loaded
      /\ g.best = f.best /\ g.stale = f.stale
  BY <1>1, <1>2 DEF Locals, Stages
<1>4. Working(g) => Working(f)
  BY <1>3 DEF Working
<1>5. Working(g) => Alone(g)
  BY <1>1, <1>2, <1>3, <1>4 DEF Alone, Fits, Keeps
<1>6. Staged(g)
  BY <1>3 DEF Staged
<1>7. /\ Step(s, g) /\ UNCHANGED <<place, due, row, upsets>>
      /\ topics' \subseteq Topics /\ work' \in 0..MaxUpsets \union {None}
  BY DEF loaded, source, IInv, Tables
<1> HIDE DEF g
<1>8. QED
  BY <1>3, <1>4, <1>5, <1>6, <1>7, LocalStep DEF Working

LEMMA LoadRowsStep ==
  ASSUME IInv, NEW s \in Syncs, LoadRows(s)
  PROVE  IInv'
BY LoadStep DEF LoadRows

LEMMA RereadStep ==
  ASSUME IInv, NEW s \in Syncs, Reread(s)
  PROVE  IInv'
<1> DEFINE f == sync[s]
           D == DOMAIN f.have
<1>1. f.at = "visit" /\ UNCHANGED <<source, topics, row, work>>
  BY DEF Reread
<1>2. CASE D \subseteq Rows
  <2>1. Step(s, [f EXCEPT !.have = [r \in D |-> Stored(r)]])
    BY <1>2 DEF Reread
  <2>2. [f EXCEPT !.have = [r \in D |-> Stored(r)]]
          = [f EXCEPT !.at = "visit", !.have = [r \in D |-> Stored(r)]]
    BY <1>1 DEF IInv, Locals
  <2>3. Working(f) => D = Rows
    BY <1>1 DEF IInv, Alone, Fits
  <2>4. QED
    BY <1>1, <1>2, <2>1, <2>2, <2>3, LoadStep
<1>3. CASE ~(D \subseteq Rows)
  <2>1. Fail(s)
    BY <1>3 DEF Reread
  <2>2. Tables'
    BY <1>1 DEF IInv, Tables, Rows, Exists, source
  <2>3. QED
    BY <1>1, <2>1, <2>2, FailStep
<1>4. QED
  BY <1>2, <1>3

\* A visit ends without a trace in the locals.
LEMMA VisitedFacts ==
  ASSUME IInv, NEW s \in Syncs, Visited(s)
  PROVE  \E g \in Locals :
           /\ Step(s, g) /\ Staged(g) /\ g.at = "assignments" /\ g.list = sync[s].list
           /\ g.alone = sync[s].alone /\ g.best = sync[s].best /\ g.stale = sync[s].stale
<1> DEFINE f == sync[s]
           g == [f EXCEPT !.at = "assignments", !.have = <<>>, !.kept = None]
<1>1. f \in Locals
  BY DEF IInv
<1>2. /\ g \in Locals /\ g.at = "assignments" /\ g.list = f.list
      /\ g.alone = f.alone /\ g.best = f.best /\ g.stale = f.stale
  BY <1>1, OffFacts DEF Locals, Stages
<1>3. Step(s, g) /\ Staged(g)
  BY <1>2 DEF Visited, Staged
<1> HIDE DEF g
<1>4. QED
  BY <1>2, <1>3

LEMMA DeleteFacts ==
  ASSUME Tables, NEW gone, Delete(gone), UNCHANGED <<source, topics, work>>
  PROVE  /\ Tables' /\ Rows' = Rows \ gone
         /\ \A r \in Rows \ gone : row'[r] = row[r] /\ Stored(r)' = Stored(r)
<1>1. \A r \in Copies : row'[r] = IF r \in gone THEN None ELSE row[r]
  BY DEF Delete
<1>2. row' \in [Copies -> Row \union {None}]
  BY DEF Delete, Tables
<1>3. Rows' = Rows \ gone
  BY <1>1 DEF Rows, Exists
<1>4. \A r \in Rows \ gone : row'[r] = row[r]
  BY <1>1 DEF Rows
<1>5. QED
  BY <1>2, <1>3, <1>4 DEF Tables, Stored, source

LEMMA InsertRowStep ==
  ASSUME IInv, NEW s \in Syncs, InsertRow(s)
  PROVE  IInv'
<1>1. PICK f \in Locals : f = sync[s]
  BY DEF IInv
<1>2. f.at = "visit" /\ f.have = <<>> /\ UNCHANGED <<place, due, upsets, topics, work>>
  BY <1>1 DEF InsertRow, source
<1>3. CASE Fail(s) /\ UNCHANGED row
  <2>1. Tables'
    BY <1>2, <1>3 DEF IInv, Tables, Rows, Exists
  <2>2. QED
    BY <1>1, <1>2, <1>3, <2>1, FailStep
<1>4. ASSUME NEW t \in Where(s), NEW r \in Fresh, ~Taken(t, None), Visited(s),
             row' = [row EXCEPT ![r] = [topic |-> t, hash |-> "now", reviews |-> 0]]
      PROVE  IInv'
  <2>1. t \in Topics /\ t = f.list
    BY <1>1, WhereFacts DEF IInv
  <2>2. r \in Copies /\ r \notin Rows
    BY DEF Fresh, Held, Rows
  <2>3. /\ row'[r] \in Row /\ row'[r].topic = t /\ row'[r].hash = "now" /\ row'[r].reviews = 0
        /\ \A x \in Copies \ {r} : row'[x] = row[x]
    BY <1>4, <2>1, <2>2, BoundsAssumption DEF IInv, Tables, Row, Hashes
  <2>4. Rows' = Rows \union {r}
    BY <2>2, <2>3, NoneAssumption DEF Rows, Exists
  <2>5. \A x \in Rows : x # r /\ row'[x] = row[x] /\ row[x].topic # t
    BY <1>4, <2>2, <2>3, NoneAssumption DEF Taken, Rows
  <2>6. row' \in [Copies -> Row \union {None}]
    BY <1>4, <2>2, <2>3 DEF IInv, Tables
  <2>7. Tables'
    <3>1. \A x, y \in Rows \union {r} : x # y => row'[x].topic # row'[y].topic
      BY <2>3, <2>5 DEF IInv, Tables
    <3>2. QED
      BY <1>2, <2>4, <2>6, <3>1 DEF IInv, Tables
  <2>8. PICK g \in Locals :
           /\ Step(s, g) /\ Staged(g) /\ g.at = "assignments" /\ g.list = f.list
           /\ g.alone = f.alone /\ g.best = f.best /\ g.stale = f.stale
    BY <1>1, <1>4, VisitedFacts
  <2>9. ASSUME Working(g)
        PROVE  f.alone /\ Alone(g)'
    <3>1. f.alone /\ Alone(f)
      BY <1>1, <1>2, <2>8, <2>9 DEF Working, IInv
    <3>2. Rows = {}
      BY <1>2, <3>1, OffFacts DEF Alone, Fits
    <3>3. Rows' = {r}
      BY <2>4, <3>2
    <3>4. Fits(g)'
      BY <2>1, <2>2, <2>3, <2>8, <3>3 DEF Fits
    <3>5. ~f.stale => f.best = 0
      BY <3>1, <3>2 DEF Alone, Keeps
    <3>6. ~g.stale => Keeps(g)'
      BY <2>3, <2>8, <3>3, <3>5 DEF Keeps
    <3>7. QED
      BY <3>1, <3>4, <3>6 DEF Alone
  <2>10. QED
    BY <1>1, <1>2, <2>7, <2>8, <2>9, OneSync
<1>5. QED
  BY <1>3, <1>4 DEF InsertRow

LEMMA ChooseStep ==
  ASSUME IInv, NEW s \in Syncs, Choose(s)
  PROVE  IInv'
<1>1. PICK f \in Locals : f = sync[s]
  BY DEF IInv
<1>2. /\ f.at = "visit" /\ f.list \in Topics /\ UNCHANGED <<source, topics, work>>
      /\ Tables
  BY <1>1, WhereFacts DEF Choose, IInv
<1>3. PICK r \in Pick(f.have) :
        LET gone == InTheWay(f.have, r, f.list)
            rest == DOMAIN f.have \ gone
        IN IF f.have[r].topic = f.list
             THEN Step(s, [f EXCEPT !.at = "write", !.kept = r]) /\ UNCHANGED row
           ELSE /\ Delete(gone)
                /\ IF Exists(r)
                     THEN Step(s, [f EXCEPT !.at = "move", !.kept = r,
                            !.have = [x \in rest |-> IF Exists(x) THEN Stored(x) ELSE f.have[x]]])
                     ELSE Fail(s)
  BY <1>1 DEF Choose
<1>4. r \in DOMAIN f.have /\ \A x \in DOMAIN f.have : Progress(x) <= Progress(r)
  BY DEF Pick
<1>5. r \in Copies
  BY <1>4, HaveFacts
<1>6. ASSUME f.alone
      PROVE  /\ Fits(f) /\ DOMAIN f.have = Rows /\ r \in Rows
             /\ \A x \in Rows : f.have[x] = Stored(x)
             /\ ~f.stale => /\ \A x \in Rows : row[x].hash # "old"
                            /\ f.best = 0 \/ row[r].reviews >= f.best
  <2>1. Fits(f) /\ (~f.stale => Keeps(f))
    BY <1>1, <1>2, <1>6 DEF IInv, Working, Alone
  <2>2. DOMAIN f.have = Rows /\ \A x \in Rows : f.have[x] = Stored(x)
    BY <1>2, <2>1 DEF Fits
  <2>3. \A x \in Rows : Progress(x) = row[x].reviews /\ row[x].reviews \in Nat
    BY <1>2, RowFacts DEF Progress
  <2>4. \A x \in Rows : row[x].reviews <= row[r].reviews
    BY <1>4, <2>2, <2>3
  <2>5. f.best \in Nat
    BY DEF Locals
  <2>6. f.best = 0 \/ (\E x \in Rows : row[x].reviews >= f.best) =>
          f.best = 0 \/ row[r].reviews >= f.best
    BY <1>4, <2>2, <2>3, <2>4, <2>5
  <2>7. QED
    BY <1>4, <2>1, <2>2, <2>6 DEF Keeps
<1>7. CASE f.have[r].topic = f.list
  <2> DEFINE g == [f EXCEPT !.at = "write", !.kept = r]
  <2>1. /\ g \in Locals /\ g.at = "write" /\ g.kept = r /\ g.alone = f.alone
        /\ g.best = f.best /\ g.stale = f.stale /\ g.have = f.have /\ g.list = f.list
    BY <1>5 DEF Locals, Stages
  <2>2. Step(s, g) /\ UNCHANGED row
    BY <1>3, <1>7
  <2> HIDE DEF g
  <2>3. Staged(g)
    BY <1>2, <1>4, <2>1 DEF Staged
  <2>4. ASSUME g.alone
        PROVE  Alone(g)
    <3>1. row[r].topic = f.list
      <4>1. r \in Rows /\ f.have[r] = Stored(r)
        BY <1>6, <2>1, <2>4
      <4>2. QED
        BY <1>2, <1>7, <4>1, RowFacts
    <3>2. Fits(g)
      BY <1>6, <2>1, <2>4, <3>1 DEF Fits
    <3>3. ~g.stale => Keeps(g)
      BY <1>6, <2>1, <2>4 DEF Keeps
    <3>4. QED
      BY <3>2, <3>3 DEF Alone
  <2>5. topics' \subseteq Topics /\ work' \in 0..MaxUpsets \union {None}
    BY <1>2 DEF Tables
  <2>6. QED
    BY <1>1, <1>2, <2>1, <2>2, <2>3, <2>4, <2>5, LocalStep DEF Working, source
<1>8. CASE f.have[r].topic # f.list
  <2> DEFINE gone == InTheWay(f.have, r, f.list)
             rest == DOMAIN f.have \ gone
             Seen(x) == IF Exists(x) THEN Stored(x) ELSE f.have[x]
             loaded == [x \in rest |-> Seen(x)]
             g == [f EXCEPT !.at = "move", !.kept = r, !.have = loaded]
  <2>1. /\ Delete(gone)
        /\ IF Exists(r) THEN Step(s, g) ELSE Fail(s)
    BY <1>3, <1>8
  <2>2. r \notin gone /\ r \in rest
    BY <1>4 DEF InTheWay
  <2>3. /\ Tables' /\ Rows' = Rows \ gone
        /\ \A x \in Rows \ gone : row'[x] = row[x] /\ Stored(x)' = Stored(x)
    BY <1>2, <2>1, DeleteFacts
  <2>4. CASE ~Exists(r)
    BY <1>1, <1>2, <2>1, <2>3, <2>4, FailStep
  <2>5. CASE Exists(r)
    <3>1. \A x \in rest : Seen(x) \in [topic : Topics, hash : Hashes]
      BY <1>2, RowFacts, HaveFacts DEF Rows
    <3>2. rest \subseteq Copies
      BY HaveFacts
    <3> HIDE DEF Seen, rest
    <3>3. loaded \in [rest -> [topic : Topics, hash : Hashes]]
      BY <3>1
    <3>4. loaded \in Found /\ DOMAIN loaded = rest
      BY <3>2, <3>3 DEF Found
    <3>5. \A x \in rest : x \in Rows => loaded[x] = Stored(x)
      BY DEF Seen, Rows
    <3> HIDE DEF loaded
    <3>6. /\ g \in Locals /\ g.at = "move" /\ g.kept = r /\ g.alone = f.alone
          /\ g.best = f.best /\ g.stale = f.stale /\ g.have = loaded /\ g.list = f.list
      BY <1>5, <3>4 DEF Locals, Stages
    <3>7. PICK h \in Locals : h = g
      BY <3>6
    <3>8. Step(s, h)
      BY <2>1, <2>5, <3>7
    <3> HIDE DEF g
    <3>9. Staged(h)
      BY <1>2, <2>2, <3>4, <3>6, <3>7 DEF Staged
    <3>10. ASSUME h.alone
           PROVE  Alone(h)'
      <4>1. f.alone
        BY <3>6, <3>7, <3>10
      <4>2. Rows' = rest
        BY <1>6, <2>3, <4>1 DEF rest
      <4>3. \A x \in rest : h.have[x] = Stored(x)' /\ row'[x] = row[x]
        BY <2>3, <3>5, <3>6, <3>7, <4>2
      <4>4. Fits(h)'
        BY <3>4, <3>6, <3>7, <4>2, <4>3 DEF Fits
      <4>5. ~h.stale => Keeps(h)'
        <5>1. rest \subseteq Rows
          BY <2>3, <4>2
        <5>2. QED
          BY <1>6, <2>2, <3>6, <3>7, <4>1, <4>2, <4>3, <5>1 DEF Keeps
      <4>6. QED
        BY <4>4, <4>5 DEF Alone
    <3>11. QED
      BY <1>1, <1>2, <2>3, <3>6, <3>7, <3>8, <3>9, <3>10, OneSync DEF Working
  <2>6. QED
    BY <2>4, <2>5
<1>9. QED
  BY <1>7, <1>8

LEMMA WriteStep ==
  ASSUME IInv, NEW s \in Syncs, Write(s)
  PROVE  IInv'
<1>1. PICK f \in Locals : f = sync[s]
  BY DEF IInv
<1> DEFINE r == f.kept
           moved == f.at = "move"
           t == IF moved THEN f.list ELSE row[r].topic
           g == [f EXCEPT !.at = "retire"]
<1>2. /\ f.at \in {"write", "move"} /\ f.list \in Topics /\ r \in DOMAIN f.have /\ r \in Copies
      /\ UNCHANGED <<source, topics, work>> /\ Tables
  <2>1. f.at \in {"write", "move"} /\ UNCHANGED <<source, topics, work>> /\ Tables
    BY <1>1 DEF Write, IInv
  <2>2. Staged(f)
    BY <1>1 DEF IInv
  <2>3. QED
    BY <2>1, <2>2, HaveFacts DEF Staged
<1>3. PICK verdict \in Verdicts(f.have[r].hash) :
        \/ verdict = "keep" /\ ~moved /\ Step(s, g) /\ UNCHANGED row
        \/ Fail(s) /\ UNCHANGED row
        \/ /\ Exists(r) /\ ~(moved /\ Taken(f.list, r)) /\ Step(s, g)
           /\ row' = [row EXCEPT ![r] = Written(r, verdict, t)]
  BY <1>1 DEF Write, At
<1>4. /\ g \in Locals /\ g.at = "retire" /\ g.kept = r /\ g.alone = f.alone
      /\ g.best = f.best /\ g.stale = f.stale /\ g.have = f.have /\ g.list = f.list
  BY DEF Locals, Stages
<1>5. PICK h \in Locals : h = g
  BY <1>4
<1> HIDE DEF g
<1>6. Staged(h)
  BY <1>2, <1>4, <1>5 DEF Staged
<1>7. ASSUME f.alone
      PROVE  /\ DOMAIN f.have = Rows /\ r \in Rows
             /\ f.have[r].hash = row[r].hash
             /\ ~moved => row[r].topic = f.list
             /\ ~f.stale => /\ \A x \in Rows : row[x].hash # "old"
                            /\ f.best = 0 \/ row[r].reviews >= f.best
  <2>1. Fits(f) /\ (~f.stale => Keeps(f))
    BY <1>1, <1>2, <1>7 DEF IInv, Working, Alone
  <2>2. DOMAIN f.have = Rows /\ \A x \in Rows : f.have[x] = Stored(x)
    BY <1>2, <2>1 DEF Fits
  <2>3. ~moved => row[r].topic = f.list
    BY <1>2, <2>1 DEF Fits
  <2>4. f.have[r].hash = row[r].hash
    BY <1>2, <2>2, RowFacts
  <2>5. ~f.stale => f.best = 0 \/ row[r].reviews >= f.best
    BY <1>2, <2>1 DEF Keeps
  <2>6. QED
    BY <1>2, <2>1, <2>2, <2>3, <2>4, <2>5 DEF Keeps
<1>8. CASE Fail(s) /\ UNCHANGED row
  <2>1. Tables'
    BY <1>2, <1>8 DEF Tables, Rows, Exists, source
  <2>2. QED
    BY <1>1, <1>2, <1>8, <2>1, FailStep
<1>9. CASE ~moved /\ Step(s, g) /\ UNCHANGED row
  <2>1. ASSUME h.alone
        PROVE  Alone(h)
    <3>1. f.alone
      BY <1>4, <1>5, <2>1
    <3>2. Fits(h)
      BY <1>4, <1>5, <1>7, <1>9, <3>1 DEF Fits
    <3>3. ~h.stale => Keeps(h)
      BY <1>4, <1>5, <1>7, <3>1 DEF Keeps
    <3>4. QED
      BY <3>2, <3>3 DEF Alone
  <2>2. topics' \subseteq Topics /\ work' \in 0..MaxUpsets \union {None}
    BY <1>2 DEF Tables
  <2>3. QED
    BY <1>1, <1>2, <1>4, <1>5, <1>6, <1>9, <2>1, <2>2, LocalStep DEF Working, source
<1>10. CASE /\ Exists(r) /\ ~(moved /\ Taken(f.list, r)) /\ Step(s, g)
            /\ row' = [row EXCEPT ![r] = Written(r, verdict, t)]
  <2>1. r \in Rows /\ row[r] \in Row
    BY <1>2, <1>10, RowFacts DEF Rows
  <2>2. row[r].topic \in Topics /\ row[r].hash \in Hashes /\ row[r].reviews \in 0..MaxReviews
    BY <2>1 DEF Row
  <2>3. t \in Topics
    BY <1>2, <2>2
  <2> HIDE DEF t
  <2>4. /\ Written(r, verdict, t) \in Row /\ Written(r, verdict, t).topic = t
        /\ Written(r, verdict, t).hash \in {row[r].hash, "now"}
        /\ verdict # "reset" => Written(r, verdict, t).reviews = row[r].reviews
    BY <2>2, <2>3, BoundsAssumption DEF Written, Row, Hashes
  <2>5. /\ row'[r] = Written(r, verdict, t)
        /\ \A x \in Copies \ {r} : row'[x] = row[x]
        /\ row' \in [Copies -> Row \union {None}]
    BY <1>2, <1>10, <2>4 DEF Tables
  <2>6. Rows' = Rows
    BY <1>2, <2>1, <2>4, <2>5, NoneAssumption DEF Rows, Exists
  <2>7. \A x \in Rows \ {r} : row'[x] = row[x] /\ row[x].topic # t
    BY <1>2, <1>10, <2>1, <2>5 DEF Tables, Rows, Taken, t
  <2>8. Tables'
    <3>1. \A x, y \in Rows : x # y => row'[x].topic # row'[y].topic
      BY <1>2, <2>4, <2>5, <2>7 DEF Tables
    <3>2. QED
      BY <1>2, <2>5, <2>6, <3>1 DEF Tables, source
  <2>9. ASSUME h.alone
        PROVE  Alone(h)'
    <3>1. f.alone
      BY <1>4, <1>5, <2>9
    <3>2. t = f.list
      BY <1>7, <3>1 DEF t
    <3>3. Fits(h)'
      BY <1>4, <1>5, <1>7, <2>4, <2>5, <2>6, <3>1, <3>2 DEF Fits
    <3>4. ASSUME ~f.stale
          PROVE  verdict # "reset"
      <4>1. f.have[r].hash \in {"now", "same"}
        BY <1>7, <2>1, <2>2, <3>1, <3>4 DEF Hashes
      <4>2. QED
        BY <4>1 DEF Verdicts
    <3>5. ~h.stale => Keeps(h)'
      BY <1>4, <1>5, <1>7, <2>1, <2>4, <2>5, <2>6, <2>7, <3>1, <3>4 DEF Keeps
    <3>6. QED
      BY <3>3, <3>5 DEF Alone
  <2>10. QED
    BY <1>1, <1>2, <1>4, <1>5, <1>6, <1>10, <2>8, <2>9, OneSync DEF Working
<1>11. QED
  BY <1>3, <1>8, <1>9, <1>10

LEMMA RetireStep ==
  ASSUME IInv, NEW s \in Syncs, Retire(s)
  PROVE  IInv'
<1>1. PICK f \in Locals : f = sync[s]
  BY DEF IInv
<1>2. /\ f.at = "retire" /\ Staged(f) /\ UNCHANGED <<source, topics, work>> /\ Tables
      /\ \/ Delete(Leftovers(f)) /\ Visited(s)
         \/ Fail(s) /\ UNCHANGED row
  BY <1>1 DEF Retire, IInv
<1>3. CASE Fail(s) /\ UNCHANGED row
  <2>1. Tables'
    BY <1>2, <1>3 DEF Tables, Rows, Exists, source
  <2>2. QED
    BY <1>1, <1>2, <1>3, <2>1, FailStep
<1>4. CASE Delete(Leftovers(f)) /\ Visited(s)
  <2>1. /\ Tables' /\ Rows' = Rows \ Leftovers(f)
        /\ \A x \in Rows \ Leftovers(f) : row'[x] = row[x]
    BY <1>2, <1>4, DeleteFacts
  <2>2. PICK g \in Locals :
           /\ Step(s, g) /\ Staged(g) /\ g.at = "assignments" /\ g.list = f.list
           /\ g.alone = f.alone /\ g.best = f.best /\ g.stale = f.stale
    BY <1>1, <1>4, VisitedFacts
  <2>3. ASSUME f.alone
        PROVE  Alone(g)'
    <3>1. Fits(f) /\ (~f.stale => Keeps(f))
      BY <1>1, <1>2, <2>3 DEF IInv, Working, Alone
    <3>2. DOMAIN f.have = Rows /\ f.kept \in Rows /\ row[f.kept].topic = f.list
      BY <1>2, <3>1 DEF Fits, Staged
    <3>3. Rows' = {f.kept} /\ f.kept \in Copies /\ row'[f.kept] = row[f.kept]
      BY <2>1, <3>2 DEF Leftovers, Rows
    <3>4. Fits(g)'
      BY <2>2, <3>2, <3>3 DEF Fits
    <3>5. ~g.stale => Keeps(g)'
      BY <1>2, <2>2, <3>1, <3>2, <3>3 DEF Keeps
    <3>6. QED
      BY <3>4, <3>5 DEF Alone
  <2>4. QED
    BY <1>1, <1>2, <2>1, <2>2, <2>3, OneSync DEF Working
<1>5. QED
  BY <1>2, <1>3, <1>4

LEMMA UnlistedStep ==
  ASSUME IInv, NEW s \in Syncs, Unlisted(s)
  PROVE  IInv'
<1>1. PICK f \in Locals : f = sync[s]
  BY DEF IInv
<1>2. /\ f.at = "visit" /\ f.list = None /\ UNCHANGED <<place, due, upsets, topics, row, work>>
      /\ Tables
  BY <1>1, WhereFacts DEF Unlisted, IInv, source
<1>3. PICK g \in Locals :
         /\ Step(s, g) /\ Staged(g) /\ g.at = "assignments" /\ g.list = f.list
         /\ g.alone = f.alone /\ g.best = f.best /\ g.stale = f.stale
  BY <1>1, VisitedFacts DEF Unlisted
<1>4. ASSUME f.alone
      PROVE  Alone(g)
  <2>1. ~f.stale => Keeps(f)
    BY <1>1, <1>2, <1>4 DEF IInv, Working, Alone
  <2>2. ~g.stale => Keeps(g)
    BY <1>3, <2>1 DEF Keeps
  <2>3. QED
    BY <1>2, <1>3, <2>2 DEF Alone, Fits
<1>5. topics' \subseteq Topics /\ work' \in 0..MaxUpsets \union {None}
  BY <1>2 DEF Tables
<1>6. QED
  BY <1>1, <1>2, <1>3, <1>4, <1>5, LocalStep DEF Working

LEMMA LoadAssignmentStep ==
  ASSUME IInv, NEW s \in Syncs, LoadAssignment(s)
  PROVE  IInv'
<1>1. PICK f \in Locals : f = sync[s]
  BY DEF IInv
<1>2. PICK d \in Assignments(s) :
        IF work = d
          THEN Step(s, Off)
          ELSE Step(s, [f EXCEPT !.at = IF work = None THEN "insert" ELSE "update",
                                 !.due = d, !.best = 0])
  BY <1>1 DEF LoadAssignment
<1>3. /\ f.at = "assignments" /\ UNCHANGED <<place, due, upsets, topics, row, work>> /\ Tables
  BY <1>1 DEF LoadAssignment, source, IInv
<1>4. topics' \subseteq Topics /\ work' \in 0..MaxUpsets \union {None} /\ Tables'
  BY <1>3 DEF Tables, Rows, Exists
<1>5. CASE work = d
  BY <1>1, <1>2, <1>3, <1>4, <1>5, FailStep DEF Fail
<1>6. CASE work # d
  <2> DEFINE g == [f EXCEPT !.at = IF work = None THEN "insert" ELSE "update",
                            !.due = d, !.best = 0]
  <2>1. d \in 0..MaxUpsets \union {None}
    <3>1. due \in 0..MaxUpsets /\ f.due \in 0..MaxUpsets \union {None}
      BY <1>3, BoundsAssumption DEF Tables, Locals
    <3>2. QED
      BY <1>1, <3>1 DEF Assignments
  <2>2. /\ g \in Locals /\ g.at \in {"insert", "update"} /\ g.alone = f.alone
        /\ g.best = 0 /\ g.stale = f.stale /\ g.list = f.list
    BY <2>1 DEF Locals, Stages
  <2>3. Step(s, g)
    BY <1>2, <1>6
  <2> HIDE DEF g
  <2>4. Staged(g)
    BY <2>2 DEF Staged
  <2>5. ASSUME g.alone
        PROVE  Alone(g)
    <3>1. Fits(f) /\ (~f.stale => Keeps(f))
      BY <1>1, <1>3, <2>2, <2>5 DEF IInv, Working, Alone
    <3>2. QED
      BY <1>3, <2>2, <3>1 DEF Alone, Fits, Keeps
  <2>6. QED
    BY <1>1, <1>3, <1>4, <2>2, <2>3, <2>4, <2>5, LocalStep DEF Working
<1>7. QED
  BY <1>5, <1>6

LEMMA SaveAssignmentStep ==
  ASSUME IInv, NEW s \in Syncs, SaveAssignment(s)
  PROVE  IInv'
<1>1. sync[s].due \in 0..MaxUpsets \union {None}
  BY DEF IInv, Locals
<1>2. sync[s].at # "off" /\ Fail(s) /\ Tables'
  BY <1>1 DEF SaveAssignment, Fail, IInv, Tables, Rows, Exists, source
<1>3. QED
  BY <1>2, FailStep

LEMMA FaultStep ==
  ASSUME IInv, NEW s \in Syncs, Fault(s)
  PROVE  IInv'
<1>1. upsets' \in 0..MaxUpsets /\ due \in 0..upsets'
  BY BoundsAssumption DEF Fault, Upset, IInv, Tables
<1>2. sync[s].at # "off" /\ Fail(s) /\ Tables'
  BY <1>1 DEF Fault, IInv, Tables, Rows, Exists
<1>3. QED
  BY <1>2, FailStep

-----------------------------------------------------------------------------
(* The theorems *)

\* The inductive invariant holds of every behaviour: it says what a sync that
\* has the course to itself knows of the rows, and that others begin and end.
THEOREM Invariance == Spec => []IInv
<1>1. IInv /\ [Next]_vars => IInv'
  <2> SUFFICES ASSUME IInv, [Next]_vars
               PROVE  IInv'
    OBVIOUS
  <2>1. CASE \E t \in Topics \union {None} : Move(t)
    BY <2>1, SourceStep
  <2>2. CASE Reschedule
    BY <2>2, SourceStep
  <2>3. CASE \E r \in Copies : Review(r)
    BY <2>3, ReviewStep
  <2>4. ASSUME NEW s \in Syncs, SyncStep(s) \/ Reread(s) \/ Fault(s)
        PROVE  IInv'
    <3>1. CASE Begin(s) \/ LookUpTopic(s) \/ InsertTopic(s) \/ LoadRows(s)
      BY <3>1, BeginStep, LookUpTopicStep, InsertTopicStep, LoadRowsStep
    <3>2. CASE Choose(s) \/ InsertRow(s) \/ Write(s) \/ Retire(s)
      BY <3>2, ChooseStep, InsertRowStep, WriteStep, RetireStep
    <3>3. CASE Unlisted(s) \/ LoadAssignment(s) \/ SaveAssignment(s)
      BY <3>3, UnlistedStep, LoadAssignmentStep, SaveAssignmentStep
    <3>4. CASE Reread(s) \/ Fault(s)
      BY <3>4, RereadStep, FaultStep
    <3>5. QED
      BY <2>4, <3>1, <3>2, <3>3, <3>4 DEF SyncStep
  <2>5. CASE UNCHANGED vars
    BY <2>5 DEF vars, IInv, Tables, Rows, Exists, Staged, Working, Alone, Fits, Keeps, Stored
  <2>6. QED
    BY <2>1, <2>2, <2>3, <2>4, <2>5 DEF Next
<1>2. QED
  BY InitIInv, <1>1, PTL DEF Spec

\* The rows, and what syncs hold of them, keep their shapes: a topic never has
\* two rows of the material.
THEOREM TypeCorrect == Spec => []TypeOK
<1>1. IInv => TypeOK
  <2> SUFFICES ASSUME IInv PROVE TypeOK
    OBVIOUS
  <2>1. due \in 0..MaxUpsets
    BY BoundsAssumption DEF IInv, Tables
  <2>2. \A s \in Syncs : DOMAIN sync[s].have \subseteq Copies
    BY HaveFacts DEF IInv
  <2>3. \A s \in Syncs : /\ sync[s].at \in Stages /\ sync[s].list \in Topics \union {None}
                         /\ sync[s].kept \in Copies \union Topics \union {None}
    BY DEF IInv, Locals
  <2>4. QED
    BY <2>1, <2>2, <2>3 DEF IInv, Tables, TypeOK, Stages
<1>2. QED
  BY <1>1, Invariance, PTL

\* A sync that has the course to itself leaves a copy of a material with all the
\* reviews the best copy had, wherever the copies are and wherever it fails.
THEOREM ProgressStays == Spec => []ProgressKept
<1>1. IInv => ProgressKept
  BY DEF IInv, ProgressKept, Working, Alone, Keeps
<1>2. QED
  BY <1>1, Invariance, PTL

\* After the materials, such a sync has left one row of a listed material, where
\* it was listed.
THEOREM OneRowIsLeft == Spec => []ListedOnce
<1>1. IInv => ListedOnce
  BY DEF IInv, ListedOnce, Working, Alone, Fits
<1>2. QED
  BY <1>1, Invariance, PTL
=============================================================================
