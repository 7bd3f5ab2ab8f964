----------------------------- MODULE AccountsProofs -----------------------------
(***************************************************************************)
(* The invariants and the step properties of Accounts, for every set of    *)
(* people, accounts, browsers, syncs and course rows.                      *)
(***************************************************************************)
EXTENDS Accounts, TLAPS

Flows ==
  [at : {"off", "google", "callback", "find", "save", "refused", "claim", "spare", "give",
         "welcome", "revoke", "forget"},
   who : People \union {None}, asked : BOOLEAN, given : BOOLEAN,
   mine : Ids \union {None}, again : BOOLEAN, version : Nat, spare : Copies \union {None}]

Calls ==
  [at : {"mine", "orphan", "adopt", "again", "insert", "work", "off"},
   user : Ids \union {None}, got : Copies \union {None}]

\* A row of person p, and one whose address is in normal form.
RowOf(i, p) == i \in Ids /\ Exists(i) /\ account[i].who = p
Normal(i, p) == RowOf(i, p) /\ account[i].lower

\* The unique index on the address.
OneAddress == \A p \in People : \A i, j \in Ids : Normal(i, p) /\ Normal(j, p) => i = j

\* No session is ahead of its account.
Issued(c) == c # None => Exists(c.id) /\ c.version <= account[c.id].version

\* What a request knows of the accounts remains true while it waits.
Knows(f) ==
  /\ f.at # "refused"
  /\ f.again => f.at \in {"find", "save", "claim", "spare", "give", "welcome"}
  /\ f.at \in {"callback", "find", "save", "claim", "spare", "give", "welcome"} => f.who \in People
  /\ f.at = "save" /\ f.mine # None => RowOf(f.mine, f.who)
  /\ f.at = "save" /\ f.mine = None => \A i \in Ids : RowOf(i, f.who) => Normal(i, f.who)
  /\ f.at = "find" /\ f.again => \E i \in Ids : Normal(i, f.who)
  /\ f.at = "save" /\ f.again => f.mine # None /\ Normal(f.mine, f.who)
  /\ f.at \in {"claim", "spare", "give", "welcome"} =>
       RowOf(f.mine, f.who) /\ f.version <= account[f.mine].version
  /\ f.at \in {"revoke", "forget"} => f.mine \in Ids /\ Exists(f.mine)

\* A sync is for some user, and holds the row that it is to adopt.
Aimed(r) == (r.at # "off" => r.user \in Ids) /\ (r.at = "adopt" => r.got \in Copies)

\* The inductive invariant.
IInv ==
  /\ TypeOK
  /\ \A b \in Browsers : Knows(flow[b]) /\ Issued(cookie[b])
  /\ \A s \in Syncs : Aimed(sync[s])
  /\ OneAddress
  /\ AccountPerPerson

LEMMA AccountFacts ==
  ASSUME TypeOK, NEW i \in Ids, Exists(i)
  PROVE  /\ account[i] \in Account
         /\ account[i].who \in People /\ account[i].lower \in BOOLEAN
         /\ account[i].version \in Nat /\ account[i].grant \in BOOLEAN
BY DEF TypeOK, Exists, Account

LEMMA IdleFacts ==
  /\ Idle \in Flows /\ Idle.at = "off" /\ Idle.again = FALSE /\ Knows(Idle)
  /\ Rest \in Calls /\ Rest.at = "off" /\ Aimed(Rest)
BY DEF Idle, Flows, Knows, Rest, Calls, Aimed

LEMMA InitIInv == Init => IInv
<1> SUFFICES ASSUME Init PROVE IInv
  OBVIOUS
<1>1. account \in [Ids -> Account \union {None}]
  <2>1. [who : People, lower : {FALSE}, version : {0}, grant : {FALSE}] \subseteq Account
    <3>1. {FALSE} \subseteq BOOLEAN /\ {0} \subseteq Nat
      OBVIOUS
    <3>2. QED
      BY <3>1, Zenon DEF Account
  <2>2. QED
    BY <2>1 DEF Init
<1>2. \A i \in Ids : Exists(i) => account[i].lower = FALSE /\ account[i].version = 0
  BY DEF Init, Exists
<1>3. \A b \in Browsers :
        cookie[b] = None \/ \E i \in Ids : Exists(i) /\ cookie[b] = [id |-> i, version |-> 0]
  BY DEF Init
<1>4. cookie \in [Browsers -> Cookie \union {None}]
  <2>1. \A i \in Ids : [id |-> i, version |-> 0] \in Cookie
    BY DEF Cookie
  <2>2. QED
    BY <1>3, <2>1 DEF Init
<1>5. TypeOK
  BY <1>1, <1>4, IdleFacts DEF Init, TypeOK, Flows, Calls
<1>6. \A b \in Browsers : Knows(flow[b]) /\ Issued(cookie[b])
  <2> TAKE b \in Browsers
  <2>1. Knows(flow[b])
    BY IdleFacts DEF Init
  <2>2. Issued(cookie[b])
    <3>1. CASE cookie[b] = None
      BY <3>1 DEF Issued
    <3>2. ASSUME NEW i \in Ids, Exists(i), cookie[b] = [id |-> i, version |-> 0]
          PROVE  Issued(cookie[b])
      <4>1. cookie[b].id = i /\ cookie[b].version = 0 /\ account[i].version = 0
        BY <1>2, <3>2
      <4>2. QED
        BY <3>2, <4>1 DEF Issued
    <3>3. QED
      BY <1>3, <3>1, <3>2
  <2>3. QED
    BY <2>1, <2>2
<1>7. \A s \in Syncs : Aimed(sync[s])
  BY IdleFacts DEF Init
<1>8. OneAddress
  BY <1>2 DEF OneAddress, Normal, RowOf
<1>9. AccountPerPerson
  BY DEF Init, AccountPerPerson
<1>10. QED
  BY <1>5, <1>6, <1>7, <1>8, <1>9 DEF IInv

-----------------------------------------------------------------------------
\* What accounts may become: none is deleted, given to someone else, denormalized
\* or set back, and a new one is in normal form.
Grows ==
  \A i \in Ids :
    /\ Exists(i) => /\ Exists(i)'
                    /\ account'[i].who = account[i].who
                    /\ account[i].lower => account'[i].lower
                    /\ account'[i].version >= account[i].version
    /\ ~Exists(i) /\ Exists(i)' => account'[i].lower

LEMMA KnowledgeStays ==
  ASSUME TypeOK, TypeOK', Grows, NEW f \in Flows, Knows(f)
  PROVE  Knows(f)'
<1>1. \A i, p : RowOf(i, p) => RowOf(i, p)'
  BY DEF RowOf, Grows
<1>2. \A i, p : Normal(i, p) => Normal(i, p)'
  BY <1>1 DEF RowOf, Normal, Grows
<1>3. ASSUME NEW p, NEW i \in Ids, \A j \in Ids : RowOf(j, p) => Normal(j, p), RowOf(i, p)'
      PROVE  Normal(i, p)'
  <2>1. CASE Exists(i)
    BY <1>2, <1>3, <2>1 DEF RowOf, Grows
  <2>2. CASE ~Exists(i)
    BY <1>3, <2>2 DEF RowOf, Normal, Grows
  <2>3. QED
    BY <2>1, <2>2
<1>4. f.at \in {"claim", "spare", "give", "welcome"} /\ RowOf(f.mine, f.who)
      /\ f.version <= account[f.mine].version => f.version <= account'[f.mine].version
  <2> SUFFICES ASSUME RowOf(f.mine, f.who), f.version <= account[f.mine].version
               PROVE  f.version <= account'[f.mine].version
    OBVIOUS
  <2>1. f.version \in Nat /\ account[f.mine].version \in Nat
    BY AccountFacts DEF Flows, RowOf
  <2>2. account'[f.mine].version \in Nat /\ account'[f.mine].version >= account[f.mine].version
    <3>1. f.mine \in Ids /\ Exists(f.mine)' /\ account'[f.mine] \in Account \union {None}
      BY DEF RowOf, Grows, TypeOK
    <3>2. account'[f.mine] \in Account
      BY <3>1 DEF Exists
    <3>3. QED
      BY <3>1, <3>2 DEF Account, RowOf, Grows
  <2>3. QED
    BY <2>1, <2>2
<1>5. f.mine \in Ids /\ Exists(f.mine) => Exists(f.mine)'
  BY DEF Grows
<1>6. QED
  BY <1>1, <1>2, <1>3, <1>4, <1>5 DEF Knows

LEMMA SessionsStay ==
  ASSUME TypeOK, TypeOK', Grows, NEW c \in Cookie \union {None}, Issued(c)
  PROVE  Issued(c)'
<1> SUFFICES ASSUME c # None
             PROVE  Exists(c.id)' /\ c.version <= account'[c.id].version
  BY DEF Issued
<1>1. c.id \in Ids /\ c.version \in Nat /\ Exists(c.id) /\ c.version <= account[c.id].version
  BY DEF Issued, Cookie
<1>2. Exists(c.id)' /\ account'[c.id].version >= account[c.id].version
  BY <1>1 DEF Grows
<1>3. account'[c.id] \in Account
  BY <1>1, <1>2 DEF TypeOK, Exists
<1>4. QED
  BY <1>1, <1>2, <1>3, AccountFacts DEF Account

\* Browser b's request comes to have the locals f and its session becomes c;
\* the accounts grow, and the rows of the course change within their type.
LEMMA RequestKeeps ==
  ASSUME IInv, NEW b \in Browsers, NEW f \in Flows, NEW c \in Cookie \union {None},
         flow' = [flow EXCEPT ![b] = f], cookie' = [cookie EXCEPT ![b] = c],
         account' \in [Ids -> Account \union {None}], Grows,
         OneAddress', AccountPerPerson', Knows(f)', Issued(c)',
         owner' \in [Copies -> Ids \union {Absent, Unowned}],
         UNCHANGED sync, starts' \in Nat
  PROVE  IInv'
<1>1. TypeOK'
  BY DEF IInv, TypeOK, Flows
<1>2. ASSUME NEW a \in Browsers
      PROVE  Knows(flow[a])' /\ Issued(cookie[a])'
  <2>1. /\ flow'[a] = IF a = b THEN f ELSE flow[a]
        /\ cookie'[a] = IF a = b THEN c ELSE cookie[a]
        /\ flow[a] \in Flows /\ cookie[a] \in Cookie \union {None}
        /\ Knows(flow[a]) /\ Issued(cookie[a])
    BY DEF IInv, TypeOK, Flows
  <2>2. CASE a = b
    BY <2>1, <2>2 DEF Knows, Issued, RowOf, Normal, Exists
  <2>3. CASE a # b
    <3>1. flow'[a] = flow[a] /\ cookie'[a] = cookie[a]
      BY <2>1, <2>3
    <3>2. \A g \in Flows : Knows(g) => Knows(g)'
      BY <1>1, KnowledgeStays DEF IInv
    <3>3. \A d \in Cookie \union {None} : Issued(d) => Issued(d)'
      BY <1>1, SessionsStay DEF IInv
    <3>4. QED
      BY <2>1, <3>1, <3>2, <3>3 DEF Knows, Issued, RowOf, Normal, Exists
  <2>4. QED
    BY <2>2, <2>3
<1>3. \A s \in Syncs : Aimed(sync[s])'
  BY DEF IInv, Aimed
<1>4. QED
  BY <1>1, <1>2, <1>3 DEF IInv

\* The same when the accounts do not change.
LEMMA RequestMoves ==
  ASSUME IInv, NEW b \in Browsers, NEW f \in Flows, NEW c \in Cookie \union {None},
         flow' = [flow EXCEPT ![b] = f], cookie' = [cookie EXCEPT ![b] = c],
         UNCHANGED <<account, sync>>, Knows(f), Issued(c),
         owner' \in [Copies -> Ids \union {Absent, Unowned}], starts' \in Nat
  PROVE  IInv'
<1>1. Grows
  <2>1. \A i \in Ids : Exists(i) => account[i].version \in Nat
    BY AccountFacts DEF IInv
  <2>2. QED
    BY <2>1 DEF Grows, Exists
<1>2. account' \in [Ids -> Account \union {None}]
  BY DEF IInv, TypeOK
<1>3. OneAddress' /\ AccountPerPerson'
  BY DEF IInv, OneAddress, AccountPerPerson, Normal, RowOf, Exists
<1>4. Knows(f)' /\ Issued(c)'
  BY DEF Knows, Issued, RowOf, Normal, Exists
<1>5. QED
  BY <1>1, <1>2, <1>3, <1>4, RequestKeeps

\* A step of the sign-in that leaves all tables alone.
LEMMA SignInMoves ==
  ASSUME IInv, NEW b \in Browsers, NEW f \in Flows, Step(b, f), Knows(f),
         UNCHANGED <<account, owner, cookie, sync>>, starts' \in Nat
  PROVE  IInv'
<1>1. cookie' = [cookie EXCEPT ![b] = cookie[b]] /\ Issued(cookie[b])
      /\ cookie[b] \in Cookie \union {None}
  BY DEF IInv, TypeOK
<1>2. owner' \in [Copies -> Ids \union {Absent, Unowned}] /\ flow' = [flow EXCEPT ![b] = f]
  BY DEF IInv, TypeOK, Step
<1>3. QED
  BY <1>1, <1>2, RequestMoves

LEMMA StartFacts == ASSUME IInv, Start PROVE starts' \in Nat
BY DEF IInv, TypeOK, Start

LEMMA FlowFacts ==
  ASSUME IInv, NEW b \in Browsers
  PROVE  /\ flow[b] \in Flows /\ Knows(flow[b]) /\ Issued(cookie[b])
         /\ cookie[b] \in Cookie \union {None} /\ starts \in Nat
BY DEF IInv, TypeOK, Flows

\* find_user: what is found is the person's row, in normal form if there is one.
LEMMA FoundFacts ==
  ASSUME NEW p
  PROVE  /\ \A i \in Found(p) : i \in Ids /\ RowOf(i, p)
         /\ (\E j \in Ids : Normal(j, p)) => Found(p) # {} /\ \A i \in Found(p) : Normal(i, p)
         /\ Found(p) = {} => \A i \in Ids : ~RowOf(i, p)
BY DEF Found, RowOf, Normal

LEMMA SignInStep ==
  ASSUME IInv, NEW b \in Browsers,
         \/ Login(b) \/ Consent(b) \/ Find(b) \/ Claim(b) \/ FindSpare(b)
         \/ \E p \in People, given \in BOOLEAN : Callback(b, p, given)
  PROVE  IInv'
<1>1. flow[b] \in Flows /\ Knows(flow[b]) /\ starts \in Nat
  BY FlowFacts
<1>2. CASE Login(b)
  <2>1. [Idle EXCEPT !.at = "google"] \in Flows /\ Knows([Idle EXCEPT !.at = "google"])
    BY DEF Idle, Flows, Knows
  <2>2. QED
    BY <1>2, <2>1, StartFacts, SignInMoves DEF Login
<1>3. ASSUME NEW p \in People, NEW given \in BOOLEAN, Callback(b, p, given)
      PROVE  IInv'
  <2> DEFINE f == [flow[b] EXCEPT !.at = "callback", !.who = p, !.given = given]
  <2>1. f \in Flows /\ f.at = "callback" /\ f.who = p /\ f.again = flow[b].again
    BY <1>1 DEF Flows
  <2>2. Knows(f)
    BY <1>1, <1>3, <2>1 DEF Callback, Knows
  <2> HIDE DEF f
  <2>3. Step(b, Idle) \/ Step(b, f)
    BY <1>3 DEF Callback, f
  <2>4. QED
    BY <1>1, <1>3, <2>1, <2>2, <2>3, IdleFacts, SignInMoves DEF Callback
<1>4. CASE Consent(b)
  <2> DEFINE f == [flow[b] EXCEPT !.at = "find"]
             g == [Idle EXCEPT !.at = "google", !.asked = TRUE]
  <2>1. f \in Flows /\ f.at = "find" /\ f.who = flow[b].who /\ f.again = flow[b].again
    BY <1>1 DEF Flows
  <2>2. Knows(f)
    BY <1>1, <1>4, <2>1 DEF Consent, Knows
  <2>3. g \in Flows /\ Knows(g)
    BY DEF Idle, Flows, Knows
  <2>4. Step(b, f) \/ Step(b, g)
    BY <1>4 DEF Consent, AskAgain
  <2> HIDE DEF f, g
  <2>5. QED
    BY <1>1, <1>4, <2>1, <2>2, <2>3, <2>4, SignInMoves DEF Consent
<1>5. CASE Find(b)
  <2>1. PICK i \in IF Found(flow[b].who) = {} THEN {None} ELSE Found(flow[b].who) :
          Step(b, [flow[b] EXCEPT !.at = "save", !.mine = i])
    BY <1>5 DEF Find
  <2> DEFINE f == [flow[b] EXCEPT !.at = "save", !.mine = i]
  <2>2. i \in Ids \union {None}
    BY <2>1, FoundFacts
  <2>3. /\ f \in Flows /\ f.at = "save" /\ f.mine = i /\ f.who = flow[b].who
        /\ f.again = flow[b].again
    BY <1>1, <2>2 DEF Flows
  <2>4. f.who \in People
    BY <1>1, <1>5, <2>3 DEF Find, Knows
  <2>5. f.again => \E j \in Ids : Normal(j, f.who)
    BY <1>1, <1>5, <2>3 DEF Find, Knows
  <2>6. i = None => \A j \in Ids : ~RowOf(j, f.who)
    BY <2>1, <2>3, FoundFacts, NoneAssumption
  <2>7. i # None => RowOf(i, f.who)
    BY <2>1, <2>3, FoundFacts
  <2>8. f.again => i # None /\ Normal(i, f.who)
    BY <2>1, <2>3, <2>5, FoundFacts, NoneAssumption
  <2> HIDE DEF f
  <2>9. Knows(f)
    BY <2>3, <2>4, <2>6, <2>7, <2>8 DEF Knows
  <2>10. QED
    BY <1>1, <1>5, <2>1, <2>3, <2>9, SignInMoves DEF Find, f
<1>6. CASE Claim(b) \/ FindSpare(b)
  <2>1. PICK c \in Copies \union {None}, at \in {"spare", "give"} :
          Step(b, [flow[b] EXCEPT !.at = at, !.spare = c])
    <3>1. CASE Claim(b)
      <4>1. /\ flow[b].spare \in Copies \union {None}
            /\ \A at : [flow[b] EXCEPT !.at = at]
                      = [flow[b] EXCEPT !.at = at, !.spare = flow[b].spare]
        BY <1>1 DEF Flows
      <4>2. QED
        BY <3>1, <4>1 DEF Claim
    <3>2. CASE FindSpare(b)
      BY <3>2 DEF FindSpare, Orphans
    <3>3. QED
      BY <1>6, <3>1, <3>2
  <2> DEFINE f == [flow[b] EXCEPT !.at = at, !.spare = c]
  <2>2. /\ f \in Flows /\ f.at \in {"spare", "give"} /\ f.mine = flow[b].mine
        /\ f.who = flow[b].who /\ f.version = flow[b].version
    BY <1>1 DEF Flows
  <2>3. Knows(f)
    BY <1>1, <1>6, <2>2 DEF Claim, FindSpare, Knows
  <2>4. UNCHANGED <<account, owner, cookie, sync, starts>> /\ flow[b].at \in {"claim", "spare"}
    BY <1>6 DEF Claim, FindSpare
  <2>5. QED
    BY <1>1, <2>1, <2>2, <2>3, <2>4, SignInMoves
<1>7. QED
  BY <1>2, <1>3, <1>4, <1>5, <1>6

\* The end of a sign-in, and what is done with sessions.
LEMMA SessionStep ==
  ASSUME IInv, NEW b \in Browsers,
         \/ Give(b) \/ Welcome(b) \/ Visit(b) \/ Logout(b) \/ Disconnect(b)
         \/ \E a \in Browsers : Copy(a, b)
  PROVE  IInv'
<1>1. /\ flow[b] \in Flows /\ Knows(flow[b]) /\ starts \in Nat
      /\ cookie[b] \in Cookie \union {None} /\ Issued(cookie[b])
      /\ owner \in [Copies -> Ids \union {Absent, Unowned}]
  BY FlowFacts DEF IInv, TypeOK
<1>2. None \in Cookie \union {None} /\ Issued(None)
  BY DEF Issued
<1>3. cookie' = [cookie EXCEPT ![b] = cookie[b]] \/ cookie' # cookie
  BY DEF IInv, TypeOK
<1>4. flow = [flow EXCEPT ![b] = flow[b]]
  BY DEF IInv, TypeOK
<1>5. CASE Give(b)
  <2> DEFINE f == [flow[b] EXCEPT !.at = "welcome", !.version = account[flow[b].mine].version]
  <2>1. flow[b].mine \in Ids /\ Exists(flow[b].mine) /\ account[flow[b].mine].version \in Nat
    BY <1>1, <1>5, AccountFacts DEF Give, Knows, RowOf, IInv
  <2>2. /\ f \in Flows /\ f.at = "welcome" /\ f.mine = flow[b].mine /\ f.who = flow[b].who
        /\ f.version = account[f.mine].version
    BY <1>1, <2>1 DEF Flows
  <2> HIDE DEF f
  <2>3. Knows(f)
    BY <1>1, <1>5, <2>1, <2>2 DEF Give, Knows
  <2>4. owner' \in [Copies -> Ids \union {Absent, Unowned}]
    BY <1>1, <1>5, <2>1 DEF Give
  <2>5. flow' = [flow EXCEPT ![b] = f] \/ flow' = [flow EXCEPT ![b] = Idle]
    BY <1>5 DEF Give, Step, f
  <2>6. UNCHANGED <<account, cookie, sync, starts>>
    BY <1>5 DEF Give
  <2>7. QED
    BY <1>1, <1>3, <2>2, <2>3, <2>4, <2>5, <2>6, IdleFacts, RequestMoves
<1>6. CASE Welcome(b)
  <2>1. /\ flow[b].mine \in Ids /\ Exists(flow[b].mine) /\ flow[b].version \in Nat
        /\ account[flow[b].mine].version \in Nat
        /\ flow[b].version <= account[flow[b].mine].version
    BY <1>1, <1>6, AccountFacts DEF Welcome, Knows, RowOf, IInv, Flows
  <2>2. PICK v \in {flow[b].version, account[flow[b].mine].version} :
          cookie' = [cookie EXCEPT ![b] = [id |-> flow[b].mine, version |-> v]]
    BY <1>6 DEF Welcome
  <2> DEFINE c == [id |-> flow[b].mine, version |-> v]
  <2>3. c \in Cookie \union {None} /\ Issued(c)
    BY <2>1, <2>2 DEF Cookie, Issued
  <2> HIDE DEF c
  <2>4. cookie' = [cookie EXCEPT ![b] = c] /\ flow' = [flow EXCEPT ![b] = Idle]
        /\ UNCHANGED <<account, owner, sync, starts>>
    BY <1>6, <2>2 DEF Welcome, Step, c
  <2>5. QED
    BY <1>1, <2>3, <2>4, IdleFacts, RequestMoves
<1>7. CASE Visit(b)
  BY <1>1, <1>2, <1>4, <1>7, RequestMoves DEF Visit
<1>8. CASE Logout(b)
  <2>1. CASE Live(cookie[b])
    <3> DEFINE f == [Idle EXCEPT !.at = "revoke", !.mine = cookie[b].id,
                                 !.version = cookie[b].version]
    <3>1. cookie[b] \in Cookie /\ Exists(cookie[b].id)
      BY <1>1, <1>8 DEF Logout, Issued
    <3>2. f \in Flows /\ f.at = "revoke" /\ f.mine = cookie[b].id /\ f.again = FALSE
      BY <3>1 DEF Idle, Flows, Cookie
    <3>3. Knows(f)
      BY <3>1, <3>2 DEF Knows, Cookie
    <3>4. QED
      BY <1>8, <2>1, <3>2, <3>3, StartFacts, SignInMoves DEF Logout
  <2>2. CASE ~Live(cookie[b])
    BY <1>1, <1>2, <1>4, <1>8, <2>2, RequestMoves DEF Logout
  <2>3. QED
    BY <2>1, <2>2
<1>9. CASE Disconnect(b)
  <2> DEFINE f == [Idle EXCEPT !.at = "forget", !.mine = cookie[b].id,
                               !.given = account[cookie[b].id].grant]
  <2>1. cookie[b] \in Cookie /\ cookie[b].id \in Ids /\ Exists(cookie[b].id)
    BY <1>1, <1>9 DEF Disconnect, Live, Issued, Cookie
  <2>2. account[cookie[b].id].grant \in BOOLEAN
    BY <2>1, AccountFacts DEF IInv
  <2>3. f \in Flows /\ f.at = "forget" /\ f.mine = cookie[b].id /\ f.again = FALSE
    BY <2>1, <2>2 DEF Idle, Flows
  <2>4. Knows(f)
    BY <2>1, <2>3 DEF Knows
  <2>5. QED
    BY <1>9, <2>3, <2>4, StartFacts, SignInMoves DEF Disconnect
<1>10. ASSUME NEW a \in Browsers, Copy(a, b)
       PROVE  IInv'
  <2>1. cookie[a] \in Cookie \union {None} /\ Issued(cookie[a])
    BY FlowFacts
  <2>2. QED
    BY <1>1, <1>4, <1>10, <2>1, RequestMoves DEF Copy
<1>11. QED
  BY <1>5, <1>6, <1>7, <1>8, <1>9, <1>10

\* The one retry: who runs into the index has not retried yet, as a retry finds
\* the row that is in normal form, and there is only one.
LEMMA RetryStep == ASSUME IInv, NEW b \in Browsers, Save(b), Taken(flow[b].who, flow[b].mine)
                   PROVE  IInv' /\ UNCHANGED account
<1>1. flow[b] \in Flows /\ Knows(flow[b]) /\ flow[b].at = "save" /\ flow[b].who \in People
  BY FlowFacts DEF Save, Knows
<1>2. PICK j \in Ids \ {flow[b].mine} : Normal(j, flow[b].who)
  BY DEF Taken, Normal, RowOf
<1>3. ~flow[b].again
  <2> SUFFICES ASSUME flow[b].again PROVE FALSE
    OBVIOUS
  <2>1. Normal(flow[b].mine, flow[b].who)
    BY <1>1 DEF Knows
  <2>2. QED
    BY <1>1, <1>2, <2>1 DEF IInv, OneAddress, Normal, RowOf
<1> DEFINE f == [flow[b] EXCEPT !.at = "find", !.mine = None, !.again = TRUE]
<1>4. Step(b, f) /\ UNCHANGED <<account, owner, cookie, sync, starts>>
  BY <1>3 DEF Save, Retry
<1>5. f \in Flows /\ f.at = "find" /\ f.who = flow[b].who
  BY <1>1 DEF Flows
<1>6. Knows(f)
  BY <1>1, <1>2, <1>5 DEF Knows
<1>7. QED
  BY <1>4, <1>5, <1>6, FlowFacts, SignInMoves

LEMMA SaveStep == ASSUME IInv, NEW b \in Browsers, Save(b) PROVE IInv'
<1> SUFFICES ASSUME ~Taken(flow[b].who, flow[b].mine) PROVE IInv'
  BY RetryStep
<1>0. PICK f \in Flows : f = flow[b]
  BY FlowFacts
<1> DEFINE new == f.mine = None
           version == IF new THEN 0 ELSE account[f.mine].version
           grant == f.given \/ (~new /\ account[f.mine].grant)
<1>1. f \in Flows /\ Knows(f) /\ f.at = "save" /\ f.who \in People
  BY <1>0, FlowFacts DEF Save, Knows
<1>2. ~new => RowOf(f.mine, f.who)
  BY <1>1 DEF Knows
<1>3. version \in Nat /\ grant \in BOOLEAN
  <2>1. CASE new
    BY <1>1, <2>1 DEF Flows
  <2>2. CASE ~new
    <3>1. account[f.mine].version \in Nat /\ account[f.mine].grant \in BOOLEAN
      BY <1>2, <2>2, AccountFacts DEF RowOf, IInv
    <3>2. QED
      BY <1>1, <2>2, <3>1 DEF Flows
  <2>3. QED
    BY <2>1, <2>2
<1>4. PICK i \in IF new THEN {j \in Ids : ~Exists(j)} ELSE {f.mine} :
        /\ account' = [account EXCEPT ![i] =
             [who |-> f.who, lower |-> TRUE, version |-> version, grant |-> grant]]
        /\ Step(b, [f EXCEPT !.mine = i, !.version = version,
             !.at = IF f.who = TokenOwner THEN "claim" ELSE "welcome"])
  BY <1>0 DEF Save
<1>5. i \in Ids /\ (new <=> ~Exists(i))
  BY <1>2, <1>4 DEF RowOf
<1> HIDE DEF version, grant
<1>6. PICK a \in Account : /\ a.who = f.who /\ a.lower /\ a.version = version
                          /\ account' = [account EXCEPT ![i] = a]
  <2>1. [who |-> f.who, lower |-> TRUE, version |-> version, grant |-> grant] \in Account
    BY <1>1, <1>3 DEF Account
  <2>2. QED
    BY <1>4, <2>1
<1>7. PICK g \in Flows : /\ g.at \in {"claim", "welcome"} /\ g.mine = i /\ g.who = f.who
                        /\ g.version = version /\ flow' = [flow EXCEPT ![b] = g]
  <2> DEFINE h == [f EXCEPT !.mine = i, !.version = version,
                            !.at = IF f.who = TokenOwner THEN "claim" ELSE "welcome"]
  <2>1. /\ h \in Flows /\ h.at \in {"claim", "welcome"} /\ h.mine = i /\ h.who = f.who
        /\ h.version = version
    BY <1>1, <1>3, <1>5 DEF Flows
  <2>2. QED
    BY <1>4, <2>1 DEF Step
<1>8. UNCHANGED <<owner, cookie, sync, starts>> /\ a # None
  BY <1>6, NoneAssumption DEF Save
<1>9. account' \in [Ids -> Account \union {None}]
  BY <1>5, <1>6 DEF IInv, TypeOK
<1>10. /\ account'[i] = a /\ Exists(i)'
       /\ \A j \in Ids \ {i} : account'[j] = account[j]
  BY <1>5, <1>6, <1>8 DEF IInv, TypeOK, Exists
<1>11. Grows
  <2> SUFFICES ASSUME NEW j \in Ids
               PROVE  /\ Exists(j) => /\ Exists(j)'
                                      /\ account'[j].who = account[j].who
                                      /\ account[j].lower => account'[j].lower
                                      /\ account'[j].version >= account[j].version
                      /\ ~Exists(j) /\ Exists(j)' => account'[j].lower
    BY DEF Grows
  <2>1. CASE j = i
    <3>1. Exists(i) => account[i].who = f.who /\ account[i].version = version
      BY <1>2, <1>4, <1>5 DEF RowOf, version
    <3>2. QED
      BY <1>3, <1>6, <1>10, <2>1, <3>1
  <2>2. CASE j # i
    <3>1. account'[j] = account[j] /\ (Exists(j)' <=> Exists(j))
      BY <1>10, <2>2 DEF Exists
    <3>2. Exists(j) => account[j].version \in Nat
      BY AccountFacts DEF IInv
    <3>3. QED
      BY <3>1, <3>2
  <2>3. QED
    BY <2>1, <2>2
\* nobody else has the address in normal form, and no older row is missed
<1>12. \A j \in Ids \ {i} : ~Normal(j, f.who)
  <2> SUFFICES ASSUME NEW j \in Ids \ {i}, Normal(j, f.who) PROVE FALSE
    OBVIOUS
  <2>1. j # f.mine
    BY <1>4, NoneAssumption
  <2>2. QED
    BY <1>0, <2>1 DEF Taken, Normal, RowOf
<1>13. new => \A j \in Ids \ {i} : ~RowOf(j, f.who)
  BY <1>1, <1>12 DEF Knows
<1>14. OneAddress'
  <2> SUFFICES ASSUME NEW p \in People, NEW j \in Ids, NEW k \in Ids,
                      Normal(j, p)', Normal(k, p)'
               PROVE  j = k
    BY DEF OneAddress
  <2>1. \A l \in Ids \ {i} : Normal(l, p)' => Normal(l, p)
    BY <1>10 DEF Normal, RowOf, Exists
  <2>2. Normal(i, p)' => p = f.who
    BY <1>6, <1>10 DEF Normal, RowOf
  <2>3. QED
    BY <1>12, <2>1, <2>2 DEF IInv, OneAddress
<1>15. AccountPerPerson'
  <2> SUFFICES ASSUME NEW j \in Ids, NEW k \in Ids, j # k, Exists(j)', Exists(k)',
                      account'[j].who = account'[k].who
               PROVE  {j, k} \subseteq OldIds
    BY DEF AccountPerPerson
  <2>1. \A l \in Ids \ {i} : Exists(l)' => Exists(l) /\ account'[l].who = account[l].who
    BY <1>10 DEF Exists
  <2>2. account'[i].who = f.who
    BY <1>6, <1>10
  <2>3. CASE Exists(i)
    <3>1. \A l \in Ids : Exists(l)' => Exists(l) /\ account'[l].who = account[l].who
      BY <1>11, <2>1, <2>3 DEF Grows
    <3>2. QED
      BY <3>1 DEF IInv, AccountPerPerson
  <2>4. CASE ~Exists(i)
    <3>1. j # i /\ k # i
      BY <1>5, <1>13, <2>1, <2>2, <2>4 DEF RowOf
    <3>2. QED
      BY <2>1, <3>1 DEF IInv, AccountPerPerson
  <2>5. QED
    BY <2>3, <2>4
<1>16. Knows(g)'
  <2>1. RowOf(i, f.who)' /\ g.version <= account'[i].version
    BY <1>3, <1>5, <1>6, <1>7, <1>10 DEF RowOf
  <2>2. QED
    BY <1>1, <1>7, <2>1 DEF Knows
<1>17. PICK c \in Cookie \union {None} : c = cookie[b] /\ Issued(c)
  BY FlowFacts
<1>18. Issued(c)'
  <2>1. TypeOK'
    BY <1>7, <1>8, <1>9 DEF IInv, TypeOK, Flows
  <2>2. QED
    BY <1>11, <1>17, <2>1, SessionsStay DEF IInv
<1>19. /\ cookie' = [cookie EXCEPT ![b] = c]
       /\ owner' \in [Copies -> Ids \union {Absent, Unowned}] /\ starts' \in Nat
  BY <1>8, <1>17 DEF IInv, TypeOK
<1>20. QED
  BY <1>7, <1>8, <1>9, <1>11, <1>14, <1>15, <1>16, <1>18, <1>19, RequestKeeps

\* A revocation counts up, and a disconnect drops the grant: nothing else of
\* the account changes.
Amends(i) ==
  /\ i \in Ids /\ Exists(i)
  /\ \E a \in Account :
       /\ account' = [account EXCEPT ![i] = a]
       /\ a.who = account[i].who /\ a.lower = account[i].lower
       /\ a.version \in {account[i].version, account[i].version + 1}

LEMMA AmendFacts ==
  ASSUME IInv, NEW i, Amends(i)
  PROVE  /\ account' \in [Ids -> Account \union {None}]
         /\ Grows /\ OneAddress' /\ AccountPerPerson'
<1>1. PICK a \in Account :
        /\ account' = [account EXCEPT ![i] = a]
        /\ a.who = account[i].who /\ a.lower = account[i].lower
        /\ a.version \in {account[i].version, account[i].version + 1}
  BY DEF Amends
<1>2. account' \in [Ids -> Account \union {None}]
  BY <1>1 DEF IInv, TypeOK
<1>3. /\ account'[i] = a /\ a # None /\ i \in Ids /\ Exists(i) /\ Exists(i)'
      /\ \A j \in Ids \ {i} : account'[j] = account[j]
  BY <1>1, NoneAssumption DEF IInv, TypeOK, Amends, Exists
<1>4. \A j \in Ids : /\ Exists(j)' <=> Exists(j)
                     /\ account'[j].who = account[j].who /\ account'[j].lower = account[j].lower
  BY <1>1, <1>3 DEF Exists
<1>5. Grows
  <2>1. \A j \in Ids : Exists(j) => account[j].version \in Nat
    BY AccountFacts DEF IInv
  <2>2. \A j \in Ids : Exists(j) => account'[j].version >= account[j].version
    BY <1>1, <1>3, <2>1
  <2>3. QED
    BY <1>4, <2>2 DEF Grows
<1>6. OneAddress' /\ AccountPerPerson'
  BY <1>4 DEF IInv, OneAddress, AccountPerPerson, Normal, RowOf
<1>7. QED
  BY <1>2, <1>5, <1>6

LEMMA AmendStep ==
  ASSUME IInv, \/ \E b \in Browsers : Revoke(b) \/ Forget(b)
               \/ \E i \in Ids : AdminRevoke(i)
  PROVE  IInv'
<1> SUFFICES ASSUME TypeOK /\ owner \in [Copies -> Ids \union {Absent, Unowned}]
                    /\ starts \in Nat
             PROVE  IInv'
  BY DEF IInv, TypeOK
<1>1. ASSUME NEW i \in Ids, Exists(i),
             account' = [account EXCEPT ![i].version = NextVersion(i, 0)]
      PROVE  Amends(i)
  <2> DEFINE a == [account[i] EXCEPT !.version = account[i].version + 1]
  <2>1. account[i] \in Account /\ account[i].version \in Nat
    BY <1>1, AccountFacts
  <2>2. /\ a \in Account /\ a.who = account[i].who /\ a.lower = account[i].lower
        /\ a.version = account[i].version + 1
    BY <2>1 DEF Account
  <2>3. account' = [account EXCEPT ![i] = a]
    BY <1>1 DEF NextVersion
  <2>4. QED
    BY <1>1, <2>2, <2>3 DEF Amends
<1>2. None \in Cookie \union {None} /\ Issued(None)'
  BY DEF Issued
<1>3. ASSUME NEW b \in Browsers, Revoke(b)
      PROVE  IInv'
  <2>1. flow[b].mine \in Ids /\ Exists(flow[b].mine)
    BY <1>3, FlowFacts DEF Revoke, Knows
  <2>2. Amends(flow[b].mine)
    BY <1>1, <1>3, <2>1 DEF Revoke, NextVersion
  <2>3. flow' = [flow EXCEPT ![b] = Idle] /\ UNCHANGED <<owner, sync, starts>>
        /\ cookie' = [cookie EXCEPT ![b] = None]
    BY <1>3 DEF Revoke, Step
  <2>4. Knows(Idle)'
    BY DEF Knows, Idle
  <2>5. QED
    BY <1>2, <2>2, <2>3, <2>4, AmendFacts, IdleFacts, RequestKeeps
<1>4. ASSUME NEW b \in Browsers, Forget(b)
      PROVE  IInv'
  <2>1. flow[b].mine \in Ids /\ Exists(flow[b].mine) /\ flow[b].given \in BOOLEAN
    BY <1>4, FlowFacts DEF Forget, Knows, Flows
  <2> DEFINE i == flow[b].mine
             grant == ~flow[b].given /\ account[i].grant
             a == [account[i] EXCEPT !.grant = grant]
  <2>2. account[i] \in Account /\ grant \in BOOLEAN
    BY <2>1, AccountFacts
  <2>3. account' = [account EXCEPT ![i] = a]
    BY <1>4 DEF Forget
  <2> HIDE DEF grant
  <2>4. /\ a \in Account /\ a.who = account[i].who /\ a.lower = account[i].lower
        /\ a.version = account[i].version
    BY <2>2 DEF Account
  <2>5. Amends(i)
    BY <2>1, <2>3, <2>4 DEF Amends
  <2>6. flow' = [flow EXCEPT ![b] = Idle] /\ UNCHANGED <<owner, cookie, sync, starts>>
    BY <1>4 DEF Forget, Step
  <2>7. Knows(Idle)'
    BY DEF Knows, Idle
  <2>8. PICK c \in Cookie \union {None} : c = cookie[b] /\ Issued(c)
    BY FlowFacts
  <2>9. cookie' = [cookie EXCEPT ![b] = c]
    BY <2>6, <2>8 DEF TypeOK
  <2>10. Issued(c)'
    <3>1. TypeOK'
      BY <2>5, <2>6, AmendFacts, IdleFacts DEF TypeOK, Flows
    <3>2. QED
      BY <2>5, <2>8, <3>1, AmendFacts, SessionsStay
  <2>11. QED
    BY <2>5, <2>6, <2>7, <2>9, <2>10, AmendFacts, IdleFacts, RequestKeeps
<1>5. ASSUME NEW i \in Ids, AdminRevoke(i)
      PROVE  IInv'
  <2>1. Amends(i) /\ starts' \in Nat /\ UNCHANGED <<owner, cookie, flow, sync>>
    BY <1>1, <1>5, StartFacts DEF AdminRevoke, NextVersion
  <2>2. TypeOK'
    BY <2>1, AmendFacts DEF TypeOK
  <2>3. ASSUME NEW b \in Browsers
        PROVE  Knows(flow[b])' /\ Issued(cookie[b])'
    <3>1. PICK f \in Flows : f = flow[b] /\ Knows(f)
      BY FlowFacts
    <3>2. PICK c \in Cookie \union {None} : c = cookie[b] /\ Issued(c)
      BY FlowFacts
    <3>3. Knows(f)' /\ Issued(c)'
      BY <2>1, <2>2, <3>1, <3>2, AmendFacts, KnowledgeStays, SessionsStay
    <3>4. flow'[b] = f /\ cookie'[b] = c
      BY <2>1, <3>1, <3>2
    <3>5. QED
      BY <3>3, <3>4 DEF Knows, Issued
  <2>4. QED
    BY <2>1, <2>2, <2>3, AmendFacts DEF IInv, Aimed
<1>6. QED
  BY <1>3, <1>4, <1>5

-----------------------------------------------------------------------------
\* A sync moves to place, on row got, for the user it began with.
LEMMA SyncKeeps ==
  ASSUME IInv, NEW s \in Syncs, NEW r \in Calls, Aimed(r), Go(s, r),
         UNCHANGED <<account, cookie, flow>>, starts' \in Nat,
         owner' \in [Copies -> Ids \union {Absent, Unowned}]
  PROVE  IInv'
<1>1. sync' \in [Syncs -> Calls] /\ \A t \in Syncs : Aimed(sync[t])'
  <2>1. \A t \in Syncs : sync'[t] = IF t = s THEN r ELSE sync[t]
    BY DEF Go, IInv, TypeOK
  <2>2. QED
    BY <2>1 DEF Go, IInv, TypeOK, Calls, Aimed
<1>2. TypeOK'
  BY <1>1 DEF IInv, TypeOK, Calls
<1>3. \A b \in Browsers : Knows(flow[b])' /\ Issued(cookie[b])'
  BY DEF IInv, Knows, Issued, RowOf, Normal, Exists
<1>4. OneAddress' /\ AccountPerPerson'
  BY DEF IInv, OneAddress, AccountPerPerson, Normal, RowOf, Exists
<1>5. QED
  BY <1>1, <1>2, <1>3, <1>4 DEF IInv

LEMMA SyncStep ==
  ASSUME IInv, NEW s \in Syncs,
         Upsert(s) \/ EndSync(s) \/ \E u \in Ids : StartSync(s, u)
  PROVE  IInv'
<1>1. /\ sync[s] \in Calls /\ Aimed(sync[s])
      /\ owner \in [Copies -> Ids \union {Absent, Unowned}] /\ starts \in Nat
  BY DEF IInv, TypeOK, Calls
<1>2. ASSUME NEW u \in Ids, StartSync(s, u)
      PROVE  IInv'
  <2> DEFINE r == [Rest EXCEPT !.at = "mine", !.user = u]
  <2>1. r \in Calls /\ Aimed(r)
    BY DEF Rest, Calls, Aimed
  <2>2. QED
    BY <1>1, <1>2, <2>1, StartFacts, SyncKeeps DEF StartSync
\* the steps that leave the rows alone
<1>3. ASSUME NEW place \in {"work", "orphan", "insert", "again", "adopt"},
             NEW c \in Copies \union {None}, sync[s].at # "off",
             place = "adopt" => c \in Copies,
             Go(s, [sync[s] EXCEPT !.at = place, !.got = c]), Aside,
             owner' \in [Copies -> Ids \union {Absent, Unowned}]
      PROVE  IInv'
  <2> DEFINE r == [sync[s] EXCEPT !.at = place, !.got = c]
  <2>1. r \in Calls /\ r.at = place /\ r.got = c /\ r.user = sync[s].user
    BY <1>1 DEF Calls
  <2>2. Aimed(r)
    BY <1>1, <1>3, <2>1 DEF Aimed
  <2>3. QED
    BY <1>1, <1>3, <2>1, <2>2, SyncKeeps DEF Aside
<1>4. ASSUME NEW place \in {"orphan", "insert", "again", "work"}, sync[s].at # "off",
             Go(s, [sync[s] EXCEPT !.at = place]), Aside,
             owner' \in [Copies -> Ids \union {Absent, Unowned}]
      PROVE  IInv'
  <2>1. [sync[s] EXCEPT !.at = place] = [sync[s] EXCEPT !.at = place, !.got = sync[s].got]
        /\ sync[s].got \in Copies \union {None}
    BY <1>1 DEF Calls
  <2>2. QED
    BY <1>3, <1>4, <2>1
<1>5. CASE LookUp(s)
  <2> USE DEF LookUp
  <2>1. CASE Mine(sync[s].user) # {}
    <3>1. PICK c \in Mine(sync[s].user) : Go(s, [sync[s] EXCEPT !.at = "work", !.got = c])
      BY <1>5, <2>1
    <3>2. QED
      BY <1>1, <1>3, <1>5, <3>1 DEF Mine
  <2>2. CASE Mine(sync[s].user) = {}
    <3>1. Go(s, [sync[s] EXCEPT !.at = "orphan"]) \/ Go(s, [sync[s] EXCEPT !.at = "insert"])
      BY <1>5, <2>2
    <3>2. QED
      BY <1>1, <1>4, <1>5, <3>1
  <2>3. QED
    BY <2>1, <2>2
<1>6. CASE FindOrphan(s)
  <2>1. CASE Orphans = {}
    BY <1>1, <1>4, <1>6, <2>1 DEF FindOrphan
  <2>2. CASE Orphans # {}
    <3>1. PICK c \in Orphans : Go(s, [sync[s] EXCEPT !.at = "adopt", !.got = c])
      BY <1>6, <2>2 DEF FindOrphan
    <3>2. QED
      BY <1>1, <1>3, <1>6, <3>1 DEF FindOrphan, Orphans
  <2>3. QED
    BY <2>1, <2>2
<1>7. ASSUME Go(s, Rest), UNCHANGED owner, Aside
      PROVE  IInv'
  BY <1>1, <1>7, IdleFacts, SyncKeeps DEF Aside
<1>8. CASE Adopt(s)
  <2>1. CASE ~StillOrphan(sync[s].got)
    BY <1>1, <1>3, <1>8, <2>1 DEF Adopt
  <2>2. CASE StillOrphan(sync[s].got) /\ ~MayOwn(sync[s].got, sync[s].user)
    BY <1>7, <1>8, <2>2 DEF Adopt
  <2>3. CASE StillOrphan(sync[s].got) /\ MayOwn(sync[s].got, sync[s].user)
    <3>1. owner' = [owner EXCEPT ![sync[s].got] = sync[s].user]
          /\ Go(s, [sync[s] EXCEPT !.at = "work"])
      BY <1>8, <2>3 DEF Adopt
    <3>2. sync[s].user \in Ids
      BY <1>1, <1>8 DEF Adopt, Aimed
    <3>3. QED
      BY <1>1, <1>4, <1>8, <3>1, <3>2 DEF Adopt
  <2>4. QED
    BY <2>1, <2>2, <2>3
<1>9. CASE InsertCourse(s)
  <2>1. CASE Mine(sync[s].user) # {}
    BY <1>7, <1>9, <2>1 DEF InsertCourse
  <2>2. CASE Mine(sync[s].user) = {}
    <3>1. PICK c \in {d \in Copies : owner[d] = Absent} :
            /\ owner' = [owner EXCEPT ![c] = sync[s].user]
            /\ Go(s, [sync[s] EXCEPT !.at = "work", !.got = c])
      BY <1>9, <2>2 DEF InsertCourse
    <3>2. sync[s].user \in Ids
      BY <1>1, <1>9 DEF InsertCourse, Aimed
    <3>3. QED
      BY <1>1, <1>3, <1>9, <3>1, <3>2 DEF InsertCourse
  <2>3. QED
    BY <2>1, <2>2
<1>10. CASE EndSync(s)
  BY <1>7, <1>10 DEF EndSync
<1>11. QED
  BY <1>2, <1>5, <1>6, <1>8, <1>9, <1>10 DEF Upsert

-----------------------------------------------------------------------------
LEMMA StepIInv == IInv /\ [Next]_vars => IInv'
<1> SUFFICES ASSUME IInv, [Next]_vars
             PROVE  IInv'
  OBVIOUS
<1>1. CASE UNCHANGED vars
  <2>1. TypeOK'
    BY <1>1 DEF vars, IInv, TypeOK
  <2>2. \A b \in Browsers : Knows(flow[b])' /\ Issued(cookie[b])'
    BY <1>1 DEF vars, IInv, Knows, Issued, RowOf, Normal, Exists
  <2>3. OneAddress' /\ AccountPerPerson' /\ \A s \in Syncs : Aimed(sync[s])'
    BY <1>1 DEF vars, IInv, OneAddress, AccountPerPerson, Normal, RowOf, Exists, Aimed
  <2>4. QED
    BY <2>1, <2>2, <2>3 DEF IInv
<1>2. ASSUME NEW b \in Browsers,
             \/ Login(b) \/ SignIn(b) \/ Visit(b) \/ Logout(b) \/ Revoke(b)
             \/ Disconnect(b) \/ Forget(b) \/ \E a \in Browsers : Copy(a, b)
      PROVE  IInv'
  BY <1>2, SignInStep, SaveStep, SessionStep, AmendStep DEF SignIn
<1>3. QED
  BY <1>1, <1>2, AmendStep, SyncStep DEF Next

LEMMA Invariance == Spec => []IInv
<1>1. QED
  BY InitIInv, StepIInv, PTL DEF Spec

\* Accounts, sessions and locals keep their shapes (app/auth.py, app/sync.py).
THEOREM TypeCorrect == Spec => []TypeOK
<1>1. IInv => TypeOK
  BY DEF IInv
<1>2. QED
  BY <1>1, Invariance, PTL

\* However many sign-ins of a person race, and in whatever case an address was
\* stored, none makes a second account of theirs (auth._upsert_user).
THEOREM NoSecondAccount == Spec => []AccountPerPerson
<1>1. IInv => AccountPerPerson
  BY DEF IInv
<1>2. QED
  BY <1>1, Invariance, PTL

\* One retry is enough for whoever loses that race (auth.sign_in).
THEOREM OneRetryIsEnough == Spec => []RacersGetIn
<1>1. IInv => RacersGetIn
  BY DEF IInv, Knows, RacersGetIn
<1>2. QED
  BY <1>1, Invariance, PTL

\* Only its own Revoke ends a revocation.
LEMMA RevokeEnds ==
  ASSUME IInv, [Next]_vars, NEW b \in Browsers, flow[b].at = "revoke", flow'[b].at # "revoke"
  PROVE  Revoke(b)
<1>1. ASSUME NEW a \in Browsers, NEW f, flow' = [flow EXCEPT ![a] = f], flow[a].at # "revoke"
      PROVE  FALSE
  BY <1>1 DEF IInv, TypeOK
<1>2. CASE UNCHANGED flow
  BY <1>2
<1>3. ASSUME NEW a \in Browsers, Login(a) \/ SignIn(a) \/ Disconnect(a) \/ Forget(a)
      PROVE  FALSE
  <2>1. (\E f : flow' = [flow EXCEPT ![a] = f]) /\ flow[a].at # "revoke"
    <3>1. CASE Login(a) \/ Disconnect(a) \/ Forget(a)
      BY <3>1 DEF Login, Disconnect, Forget, Step
    <3>2. CASE \E p \in People, given \in BOOLEAN : Callback(a, p, given)
      BY <3>2 DEF Callback, Step
    <3>3. CASE Consent(a) \/ Find(a) \/ Claim(a) \/ FindSpare(a)
      BY <3>3 DEF Consent, AskAgain, Find, Claim, FindSpare, Step
    <3>4. CASE Save(a)
      BY <3>4 DEF Save, Retry, Step
    <3>5. CASE Give(a) \/ Welcome(a)
      BY <3>5 DEF Give, Welcome, Step
    <3>6. QED
      BY <1>3, <3>1, <3>2, <3>3, <3>4, <3>5 DEF SignIn
  <2>2. QED
    BY <1>1, <2>1
<1>4. ASSUME NEW a \in Browsers, Visit(a) \/ Logout(a) \/ Revoke(a)
      PROVE  Revoke(b)
  <2>1. CASE Revoke(a)
    <3>1. a = b
      BY <2>1 DEF Revoke, Step, IInv, TypeOK
    <3>2. QED
      BY <2>1, <3>1
  <2>2. CASE Visit(a) \/ Logout(a)
    <3>1. UNCHANGED flow \/ \E f : flow' = [flow EXCEPT ![a] = f] /\ flow[a].at # "revoke"
      BY <2>2 DEF Visit, Logout, Step
    <3>2. QED
      BY <1>1, <3>1
  <2>3. QED
    BY <1>4, <2>1, <2>2
<1>5. ASSUME NEW s \in Syncs, Upsert(s) \/ EndSync(s) \/ \E u \in Ids : StartSync(s, u)
      PROVE  UNCHANGED flow
  BY <1>5 DEF Upsert, LookUp, FindOrphan, Adopt, InsertCourse, EndSync, StartSync, Aside
<1>6. QED
  BY <1>2, <1>3, <1>4, <1>5 DEF Next, vars, Copy, AdminRevoke

\* A revocation ends every session of the account, whoever holds a copy of it
\* and whatever other revocations and sign-ins come between its reading of the
\* account and its commit (auth.revoke_sessions, auth.current_user).
THEOREM RevocationIsFinal == Spec => SignedOutEverywhere
<1>1. ASSUME IInv, [Next]_vars, NEW b \in Browsers, NEW a \in Browsers,
             flow[b].at = "revoke", flow'[b].at # "revoke",
             cookie[a] # None, cookie[a].id = flow[b].mine
      PROVE  ~Live(cookie[a])'
  <2>1. Revoke(b)
    BY <1>1, RevokeEnds
  <2>2. /\ flow[b].mine \in Ids /\ Exists(flow[b].mine)
        /\ cookie[a].version <= account[flow[b].mine].version
        /\ cookie[a].version \in Nat
    BY <1>1, <2>1, FlowFacts DEF Revoke, Knows, Issued, Cookie
  <2>3. account[flow[b].mine] \in Account /\ account[flow[b].mine].version \in Nat
    BY <1>1, <2>2, AccountFacts DEF IInv
  <2>4. account'[flow[b].mine].version = account[flow[b].mine].version + 1
    BY <1>1, <2>1, <2>2, <2>3 DEF Revoke, NextVersion, IInv, TypeOK, Account
  <2>5. cookie'[a] = None \/ cookie'[a] = cookie[a]
    BY <1>1, <2>1 DEF Revoke, IInv, TypeOK
  <2>6. QED
    BY <1>1, <2>2, <2>3, <2>4, <2>5 DEF Live
<1>2. IInv /\ [Next]_vars =>
        [\A b \in Browsers :
           flow[b].at = "revoke" /\ flow'[b].at # "revoke" =>
             \A a \in Browsers : cookie[a] # None /\ cookie[a].id = flow[b].mine
                                 => ~Live(cookie[a])']_vars
  BY <1>1
<1>3. QED
  BY <1>2, Invariance, PTL DEF Spec, SignedOutEverywhere

\* What a sync does to the rows of the course: it takes none that is somebody's.
LEMMA SyncTakes ==
  ASSUME IInv, NEW s \in Syncs, Upsert(s), NEW c \in Copies, owner'[c] # owner[c]
  PROVE  owner[c] \notin Ids
<1>1. owner \in [Copies -> Ids \union {Absent, Unowned}]
  BY DEF IInv, TypeOK
<1>2. CASE LookUp(s) \/ FindOrphan(s)
  BY <1>2 DEF LookUp, FindOrphan
<1>3. CASE Adopt(s)
  <2>1. owner' = [owner EXCEPT ![sync[s].got] = sync[s].user] /\ owner[sync[s].got] = Unowned
    BY <1>3 DEF Adopt, StillOrphan
  <2>2. QED
    BY <1>1, <2>1, NoneAssumption
<1>4. CASE InsertCourse(s)
  <2>1. \E d \in Copies : owner[d] = Absent /\ owner' = [owner EXCEPT ![d] = sync[s].user]
    BY <1>4 DEF InsertCourse
  <2>2. QED
    BY <1>1, <2>1, NoneAssumption
<1>5. QED
  BY <1>2, <1>3, <1>4 DEF Upsert

\* However many syncs race to adopt a row without an owner, it changes hands
\* once; only a claim by the owner of the shared token may take it from somebody
\* (sync._adopt_unowned, auth.claim_unowned).
THEOREM AdoptionIsOnce == Spec => AdoptedOnce
<1>1. ASSUME IInv, [Next]_vars, NEW c \in Copies, owner[c] \in Ids, owner'[c] # owner[c]
      PROVE  \E b \in Browsers : flow[b].at = "give" /\ flow[b].spare = c
  <2>1. ~UNCHANGED owner
    BY <1>1
  <2>2. ASSUME NEW b \in Browsers, Give(b)
        PROVE  flow[b].at = "give" /\ flow[b].spare = c
    BY <1>1, <2>2 DEF Give, IInv, TypeOK
  <2>3. ASSUME NEW b \in Browsers, SignIn(b), ~Give(b)
        PROVE  UNCHANGED owner
    BY <2>3 DEF SignIn, Callback, Consent, Find, Save, Claim, FindSpare, Welcome
  <2>4. ASSUME NEW b \in Browsers, \/ Login(b) \/ Visit(b) \/ Logout(b) \/ Revoke(b)
                                   \/ Disconnect(b) \/ Forget(b)
        PROVE  UNCHANGED owner
    BY <2>4 DEF Login, Visit, Logout, Revoke, Disconnect, Forget
  <2>5. ASSUME NEW s \in Syncs, EndSync(s) \/ \E u \in Ids : StartSync(s, u)
        PROVE  UNCHANGED owner
    BY <2>5 DEF EndSync, StartSync
  <2>6. QED
    BY <1>1, <2>1, <2>2, <2>3, <2>4, <2>5, SyncTakes DEF Next, vars, Copy, AdminRevoke
<1>2. IInv /\ [Next]_vars =>
        [\A c \in Copies : owner[c] \in Ids /\ owner'[c] # owner[c] =>
           \E b \in Browsers : flow[b].at = "give" /\ flow[b].spare = c]_vars
  BY <1>1
<1>3. QED
  BY <1>2, Invariance, PTL DEF Spec, AdoptedOnce

\* A sync takes up a row of the user it is for, also when it lost the race for
\* one without an owner (sync._upsert_course).
THEOREM SyncsWorkOnOwn == Spec => SyncTakesOwn
<1>1. ASSUME IInv, [Next]_vars, NEW s \in Syncs, sync[s].at # "work", sync'[s].at = "work"
      PROVE  owner'[sync'[s].got] = sync'[s].user
  <2>1. /\ sync \in [Syncs -> Calls] /\ owner \in [Copies -> Ids \union {Absent, Unowned}]
        /\ sync[s] \in Calls /\ Aimed(sync[s])
    BY <1>1 DEF IInv, TypeOK, Calls
  <2> DEFINE At(place) == [sync[s] EXCEPT !.at = place]
  <2>0. /\ ~Go(s, Rest)
        /\ \A place \in {"orphan", "insert"} : ~Go(s, At(place))
        /\ ~Go(s, [sync[s] EXCEPT !.at = "again", !.got = None])
    <3>1. \A r : Go(s, r) => sync'[s] = r
      BY <2>1 DEF Go
    <3>2. Rest.at # "work" /\ [sync[s] EXCEPT !.at = "again", !.got = None].at # "work"
          /\ \A place \in {"orphan", "insert"} : At(place).at # "work"
      BY <2>1 DEF Rest, Calls
    <3>3. QED
      BY <1>1, <3>1, <3>2
  <2>2. CASE LookUp(s)
    <3>1. PICK c \in Mine(sync[s].user) : Go(s, [sync[s] EXCEPT !.at = "work", !.got = c])
      <4>1. CASE Mine(sync[s].user) # {}
        BY <2>2, <4>1 DEF LookUp
      <4>2. CASE Mine(sync[s].user) = {}
        BY <2>0, <2>2, <4>2 DEF LookUp
      <4>3. QED
        BY <4>1, <4>2
    <3>2. sync'[s].got = c /\ sync'[s].user = sync[s].user
      BY <2>1, <3>1 DEF Go, Calls
    <3>3. QED
      BY <2>2, <3>1, <3>2 DEF LookUp, Mine
  <2>3. CASE FindOrphan(s)
    BY <1>1, <2>1, <2>3 DEF FindOrphan, Go, Calls
  <2>4. CASE Adopt(s)
    <3>1. owner' = [owner EXCEPT ![sync[s].got] = sync[s].user]
          /\ Go(s, [sync[s] EXCEPT !.at = "work"])
      BY <2>0, <2>4 DEF Adopt
    <3>2. sync'[s].got = sync[s].got /\ sync'[s].user = sync[s].user /\ sync[s].got \in Copies
      BY <2>1, <2>4, <3>1 DEF Adopt, Go, Calls, Aimed
    <3>3. QED
      BY <2>1, <3>1, <3>2
  <2>5. CASE InsertCourse(s)
    <3>1. PICK c \in Copies :
            /\ owner' = [owner EXCEPT ![c] = sync[s].user]
            /\ Go(s, [sync[s] EXCEPT !.at = "work", !.got = c])
      BY <2>0, <2>5 DEF InsertCourse
    <3>2. sync'[s].got = c /\ sync'[s].user = sync[s].user
      BY <2>1, <3>1 DEF Go, Calls
    <3>3. QED
      BY <2>1, <3>1, <3>2
  <2>6. CASE EndSync(s) \/ \E u \in Ids : StartSync(s, u)
    BY <1>1, <2>1, <2>6 DEF EndSync, StartSync, Go, Rest
  <2>7. ASSUME NEW t \in Syncs, Upsert(t) \/ EndSync(t) \/ \E u \in Ids : StartSync(t, u),
               t # s
        PROVE  FALSE
    <3>1. \E r : sync' = [sync EXCEPT ![t] = r]
      BY <2>7 DEF Upsert, LookUp, FindOrphan, Adopt, InsertCourse, EndSync, StartSync, Go
    <3>2. QED
      BY <1>1, <2>1, <2>7, <3>1
  <2>8. CASE UNCHANGED sync
    BY <1>1, <2>8
  <2>9. ASSUME NEW b \in Browsers, \/ Login(b) \/ Visit(b) \/ Logout(b) \/ Revoke(b)
                                   \/ Disconnect(b) \/ Forget(b) \/ SignIn(b)
        PROVE  UNCHANGED sync
    BY <2>9 DEF Login, Visit, Logout, Revoke, Disconnect, Forget, SignIn,
                Callback, Consent, Find, Save, Claim, FindSpare, Give, Welcome
  <2>10. QED
    BY <1>1, <2>2, <2>3, <2>4, <2>5, <2>6, <2>7, <2>8, <2>9
       DEF Next, vars, Upsert, Copy, AdminRevoke
<1>2. IInv /\ [Next]_vars =>
        [\A s \in Syncs : sync[s].at # "work" /\ sync'[s].at = "work" =>
           owner'[sync'[s].got] = sync'[s].user]_vars
  BY <1>1
<1>3. QED
  BY <1>2, Invariance, PTL DEF Spec, SyncTakesOwn
=============================================================================
