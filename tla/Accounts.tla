-------------------------------- MODULE Accounts --------------------------------
(***************************************************************************)
(* Who a request acts for and whose a course is: sign-in through Google    *)
(* (app/auth.py and the routes of app/main.py), the sessions that a        *)
(* version in the account revokes, and the course rows from before sign-in *)
(* existed, which a sync adopts (app/sync.py) and the owner of the shared  *)
(* Moodle token claims.                                                    *)
(*                                                                         *)
(* The users and courses tables are committed state; what a request or a   *)
(* sync has read of them is state of its own, and others run between its   *)
(* transactions.  A session is a signed cookie, so whoever holds a copy    *)
(* has the session.  One course of the source is modelled: its rows differ *)
(* by owner.                                                               *)
(***************************************************************************)
EXTENDS Integers, FiniteSets

CONSTANTS
  People,        \* normalized email addresses
  TokenOwner,    \* MOODLE_TOKEN_OWNER
  Ids,           \* account ids, and those among them that may be of old rows
  OldIds,
  Browsers,      \* browsers and other holders of a cookie
  Syncs,         \* processes that sync the course for some user
  Copies,        \* ids of rows of the course, and the rows without an owner
  OldCopies,
  None,
  MaxStarts      \* bound on the requests and syncs ever started

ASSUME RowsAssumption == OldIds \subseteq Ids /\ OldCopies \subseteq Copies
ASSUME BoundAssumption == MaxStarts \in Nat

VARIABLES
  account,   \* users
  owner,     \* courses.user_id; "absent" before the insert
  cookie,    \* the session each browser holds
  flow,      \* a browser's request and its locals
  sync,      \* a sync's place in _upsert_course and its locals
  starts     \* requests and syncs started so far

vars == <<account, owner, cookie, flow, sync, starts>>

Absent == "absent"   \* no such row yet
Unowned == "unowned" \* user_id IS NULL

Account == [who : People, lower : BOOLEAN, version : Nat, grant : BOOLEAN]
Cookie == [id : Ids, version : Nat]

\* What is absent is told from what is there.
ASSUME NoneAssumption ==
  /\ None \notin People \union Ids \union Copies
  /\ None \notin Account /\ None \notin Cookie
  /\ Absent \notin Ids /\ Unowned \notin Ids

Exists(i) == account[i] # None

\* current_user: the session's version is still the account's.
Live(c) == c # None /\ account[c.id].version = c.version

\* Mutant: only addresses stored in normal form are found.
FoundExactly(p) == {i \in Ids : Exists(i) /\ account[i].who = p /\ account[i].lower}

\* find_user: a row whose address is in normal form wins; otherwise any that
\* matches it without regard to case.
Found(p) ==
  LET matches == {i \in Ids : Exists(i) /\ account[i].who = p}
      exact == {i \in matches : account[i].lower}
  IN IF exact # {} THEN exact ELSE matches

\* The unique index on the address, for a row i that gets it in normal form.
Taken(p, i) == \E j \in Ids \ {i} : Exists(j) /\ account[j].who = p /\ account[j].lower

\* The rows of the course that are u's, and uq_courses_user_source.
Mine(u) == {c \in Copies : owner[c] = u}
Orphans == {c \in Copies : owner[c] = Unowned}
MayOwn(c, u) == Mine(u) \subseteq {c}

Idle == [at |-> "off", who |-> None, asked |-> FALSE, given |-> FALSE, mine |-> None,
         again |-> FALSE, version |-> 0, spare |-> None]
Rest == [at |-> "off", user |-> None, got |-> None]

\* Rows from before addresses were normalized, with sessions of theirs, and
\* courses from before sign-in existed.
Init ==
  /\ account \in [Ids -> {None} \union
       [who : People, lower : {FALSE}, version : {0}, grant : {FALSE}]]
  /\ {i \in Ids : Exists(i)} \subseteq OldIds
  /\ owner = [c \in Copies |-> IF c \in OldCopies THEN Unowned ELSE Absent]
  /\ \E c \in {None} \union [id : {i \in Ids : Exists(i)}, version : {0}] :
       cookie = [b \in Browsers |-> c]
  /\ flow = [b \in Browsers |-> Idle]
  /\ sync = [s \in Syncs |-> Rest]
  /\ starts = 0

Start == starts < MaxStarts /\ starts' = starts + 1

Step(b, f) == flow' = [flow EXCEPT ![b] = f]

-----------------------------------------------------------------------------
(* Sign-in: /login/google, /auth/callback, auth.sign_in *)

Login(b) ==
  /\ flow[b].at = "off"
  /\ Start
  /\ Step(b, [Idle EXCEPT !.at = "google"])
  /\ UNCHANGED <<account, owner, cookie, sync>>

\* The consent screen once more: the browser's session notes it, and the next
\* answer is taken as it is.
AskAgain(b) == Step(b, [Idle EXCEPT !.at = "google", !.asked = TRUE])

\* Google sends the browser back: cancelled, or with a code that stands for
\* person p, and for a grant or none.
Callback(b, p, given) ==
  /\ flow[b].at = "google"
  /\ \/ Step(b, Idle)
     \/ Step(b, [flow[b] EXCEPT !.at = "callback", !.who = p, !.given = given])
  /\ UNCHANGED <<account, owner, cookie, sync, starts>>

\* The consent screen is asked for when there is no grant, none is stored,
\* and it was not shown already.
Consent(b) ==
  /\ flow[b].at = "callback"
  /\ LET f == flow[b] IN
       IF ~f.given /\ ~f.asked /\ ~\E i \in Found(f.who) : account[i].grant
         THEN AskAgain(b)
         ELSE Step(b, [f EXCEPT !.at = "find"])
  /\ UNCHANGED <<account, owner, cookie, sync, starts>>

\* _upsert_user looks the account up ...
Find(b) ==
  /\ flow[b].at = "find"
  /\ \E i \in IF Found(flow[b].who) = {} THEN {None} ELSE Found(flow[b].who) :
       Step(b, [flow[b] EXCEPT !.at = "save", !.mine = i])
  /\ UNCHANGED <<account, owner, cookie, sync, starts>>

\* Mutant: a lost race is an error at once.
RetryNever(b) == Step(b, [flow[b] EXCEPT !.at = "refused"])

\* sign_in's except clause: roll back and upsert again, once.
Retry(b) ==
  IF flow[b].again
    THEN Step(b, [flow[b] EXCEPT !.at = "refused"])
    ELSE Step(b, [flow[b] EXCEPT !.at = "find", !.mine = None, !.again = TRUE])

\* ... and inserts it, or normalizes its address and stores the grant.  The
\* account is read again after the commit.
Save(b) ==
  /\ flow[b].at = "save"
  /\ LET f == flow[b]
         new == f.mine = None
         version == IF new THEN 0 ELSE account[f.mine].version
         grant == f.given \/ (~new /\ account[f.mine].grant)
     IN IF Taken(f.who, f.mine)
          THEN Retry(b) /\ UNCHANGED account
          ELSE \E i \in IF new THEN {j \in Ids : ~Exists(j)} ELSE {f.mine} :
                 /\ account' = [account EXCEPT ![i] =
                      [who |-> f.who, lower |-> TRUE, version |-> version, grant |-> grant]]
                 /\ Step(b, [f EXCEPT !.mine = i, !.version = version,
                      !.at = IF f.who = TokenOwner THEN "claim" ELSE "welcome"])
  /\ UNCHANGED <<owner, cookie, sync, starts>>

\* claim_unowned reads what the user has: with a row of the course, nothing
\* is claimed ...
Claim(b) ==
  /\ flow[b].at = "claim"
  /\ Step(b, [flow[b] EXCEPT !.at = IF Mine(flow[b].mine) # {} THEN "give" ELSE "spare"])
  /\ UNCHANGED <<account, owner, cookie, sync, starts>>

\* ... else it reads the rows that nobody owns ...
FindSpare(b) ==
  /\ flow[b].at = "spare"
  /\ \E c \in IF Orphans = {} THEN {None} ELSE Orphans :
       Step(b, [flow[b] EXCEPT !.at = "give", !.spare = c])
  /\ UNCHANGED <<account, owner, cookie, sync, starts>>

\* ... and gives one of them to the user, by its id alone.  A row of the same
\* course that a sync has meanwhile made the user's fails the request.
Give(b) ==
  /\ flow[b].at = "give"
  /\ LET f == flow[b] IN
       IF f.spare = None \/ MayOwn(f.spare, f.mine)
         THEN /\ owner' = IF f.spare = None THEN owner ELSE [owner EXCEPT ![f.spare] = f.mine]
              /\ Step(b, [f EXCEPT !.at = "welcome", !.version = account[f.mine].version])
         ELSE Step(b, Idle) /\ UNCHANGED owner
  /\ UNCHANGED <<account, cookie, sync, starts>>

\* The callback ends with a fresh session.  A first sync that it queued has
\* committed, after which the account is read again.
Welcome(b) ==
  /\ flow[b].at = "welcome"
  /\ \E v \in {flow[b].version}
               \union IF flow[b].given THEN {account[flow[b].mine].version} ELSE {} :
       cookie' = [cookie EXCEPT ![b] = [id |-> flow[b].mine, version |-> v]]
  /\ Step(b, Idle)
  /\ UNCHANGED <<account, owner, sync, starts>>

-----------------------------------------------------------------------------
(* Sessions *)

\* Somebody else gets at the cookie.
Copy(a, b) ==
  /\ cookie[a] # None /\ cookie[b] = None /\ flow[b].at = "off"
  /\ cookie' = [cookie EXCEPT ![b] = cookie[a]]
  /\ UNCHANGED <<account, owner, flow, sync, starts>>

\* A page: a session that is over is cleared.
Visit(b) ==
  /\ flow[b].at = "off" /\ cookie[b] # None /\ ~Live(cookie[b])
  /\ cookie' = [cookie EXCEPT ![b] = None]
  /\ UNCHANGED <<account, owner, flow, sync, starts>>

\* _revoke_user_sessions reads the account; only a live session goes on.
Logout(b) ==
  /\ flow[b].at = "off" /\ cookie[b] # None
  /\ IF Live(cookie[b])
       THEN /\ Start
            /\ Step(b, [Idle EXCEPT !.at = "revoke", !.mine = cookie[b].id,
                                    !.version = cookie[b].version])
            /\ UNCHANGED cookie
       ELSE cookie' = [cookie EXCEPT ![b] = None] /\ UNCHANGED <<flow, starts>>
  /\ UNCHANGED <<account, owner, sync>>

\* Mutant: the version that was read, plus one, is written.
NextVersionRead(i, seen) == seen + 1

\* Mutant: a sign error.
NextVersionDown(i, seen) == account[i].version - 1

\* revoke_sessions increments in the database.
NextVersion(i, seen) == account[i].version + 1

Revoke(b) ==
  /\ flow[b].at = "revoke"
  /\ LET f == flow[b] IN
       account' = [account EXCEPT ![f.mine].version = NextVersion(f.mine, f.version)]
  /\ cookie' = [cookie EXCEPT ![b] = None]
  /\ Step(b, Idle)
  /\ UNCHANGED <<owner, sync, starts>>

\* admin_cli revoke-sessions.
AdminRevoke(i) ==
  /\ Exists(i)
  /\ Start
  /\ account' = [account EXCEPT ![i].version = NextVersion(i, account[i].version)]
  /\ UNCHANGED <<owner, cookie, flow, sync>>

\* /settings/google/disconnect: the session is checked and the account read,
\* Google is asked to revoke, and the column is cleared if it was set when
\* it was read.
Disconnect(b) ==
  /\ flow[b].at = "off" /\ Live(cookie[b])
  /\ Start
  /\ Step(b, [Idle EXCEPT !.at = "forget", !.mine = cookie[b].id,
                          !.given = account[cookie[b].id].grant])
  /\ UNCHANGED <<account, owner, cookie, sync>>

Forget(b) ==
  /\ flow[b].at = "forget"
  /\ LET f == flow[b] IN
       account' = [account EXCEPT ![f.mine].grant = ~f.given /\ account[f.mine].grant]
  /\ Step(b, Idle)
  /\ UNCHANGED <<owner, cookie, sync, starts>>

-----------------------------------------------------------------------------
(* Courses: sync._upsert_course, and admin_cli *)

Go(s, r) == sync' = [sync EXCEPT ![s] = r]
Aside == UNCHANGED <<account, cookie, flow, starts>>

StartSync(s, u) ==
  /\ sync[s].at = "off" /\ Exists(u)
  /\ Start
  /\ Go(s, [Rest EXCEPT !.at = "mine", !.user = u])
  /\ UNCHANGED <<account, owner, cookie, flow>>

\* The row the user has already; it is looked for once more after an
\* adoption that came to nothing.
LookUp(s) ==
  /\ sync[s].at \in {"mine", "again"}
  /\ LET u == sync[s].user
         next == IF sync[s].at = "mine" THEN "orphan" ELSE "insert"
     IN IF Mine(u) # {}
          THEN \E c \in Mine(u) : Go(s, [sync[s] EXCEPT !.at = "work", !.got = c])
          ELSE Go(s, [sync[s] EXCEPT !.at = next])
  /\ UNCHANGED owner /\ Aside

\* _adopt_unowned finds a row without an owner ...
FindOrphan(s) ==
  /\ sync[s].at = "orphan"
  /\ IF Orphans = {}
       THEN Go(s, [sync[s] EXCEPT !.at = "again"])
       ELSE \E c \in Orphans : Go(s, [sync[s] EXCEPT !.at = "adopt", !.got = c])
  /\ UNCHANGED owner /\ Aside

\* Mutant: the UPDATE names the row by its id alone.
StillOrphanAssumed(c) == TRUE

StillOrphan(c) == owner[c] = Unowned

\* Mutant: the row count of the UPDATE is not looked at.
AdoptUncounted(s) ==
  /\ sync[s].at = "adopt"
  /\ LET c == sync[s].got
         u == sync[s].user
     IN /\ owner' = IF StillOrphan(c) THEN [owner EXCEPT ![c] = u] ELSE owner
        /\ Go(s, [sync[s] EXCEPT !.at = "work"])
  /\ Aside

\* ... and claims it, if it still has none.  A second row of the course for
\* the user fails this course's sync.
Adopt(s) ==
  /\ sync[s].at = "adopt"
  /\ LET c == sync[s].got
         u == sync[s].user
     IN IF ~StillOrphan(c)
          THEN Go(s, [sync[s] EXCEPT !.at = "again", !.got = None]) /\ UNCHANGED owner
        ELSE IF ~MayOwn(c, u)
          THEN Go(s, Rest) /\ UNCHANGED owner
        ELSE /\ owner' = [owner EXCEPT ![c] = u]
             /\ Go(s, [sync[s] EXCEPT !.at = "work"])
  /\ Aside

InsertCourse(s) ==
  /\ sync[s].at = "insert"
  /\ LET u == sync[s].user IN
       IF Mine(u) # {}
         THEN Go(s, Rest) /\ UNCHANGED owner
         ELSE \E c \in {d \in Copies : owner[d] = Absent} :
                /\ owner' = [owner EXCEPT ![c] = u]
                /\ Go(s, [sync[s] EXCEPT !.at = "work", !.got = c])
  /\ Aside

\* The rest of sync_course (module Course), to its end or its failure.
EndSync(s) ==
  /\ sync[s].at = "work"
  /\ Go(s, Rest)
  /\ UNCHANGED owner /\ Aside

-----------------------------------------------------------------------------
SignIn(b) ==
  \/ \E p \in People, given \in BOOLEAN : Callback(b, p, given)
  \/ Consent(b) \/ Find(b) \/ Save(b) \/ Claim(b) \/ FindSpare(b)
  \/ Give(b) \/ Welcome(b)

Upsert(s) == LookUp(s) \/ FindOrphan(s) \/ Adopt(s) \/ InsertCourse(s)

Next ==
  \/ \E b \in Browsers : Login(b) \/ SignIn(b) \/ Visit(b) \/ Logout(b) \/ Revoke(b)
                         \/ Disconnect(b) \/ Forget(b)
  \/ \E a, b \in Browsers : Copy(a, b)
  \/ \E i \in Ids : AdminRevoke(i)
  \/ \E s \in Syncs : Upsert(s) \/ EndSync(s) \/ \E u \in Ids : StartSync(s, u)

Spec == Init /\ [][Next]_vars

-----------------------------------------------------------------------------
(* Properties *)

\* The shape of users.* and courses.user_id, of a session, and of the locals
\* of the requests and syncs.
TypeOK ==
  /\ account \in [Ids -> Account \union {None}]
  /\ owner \in [Copies -> Ids \union {Absent, Unowned}]
  /\ cookie \in [Browsers -> Cookie \union {None}]
  /\ flow \in [Browsers ->
       [at : {"off", "google", "callback", "find", "save", "refused", "claim", "spare", "give",
              "welcome", "revoke", "forget"},
        who : People \union {None}, asked : BOOLEAN, given : BOOLEAN,
        mine : Ids \union {None}, again : BOOLEAN, version : Nat,
        spare : Copies \union {None}]]
  /\ sync \in [Syncs ->
       [at : {"off", "mine", "orphan", "adopt", "again", "insert", "work"},
        user : Ids \union {None}, got : Copies \union {None}]]
  /\ starts \in Nat

\* However many sign-ins of a person race, whatever the case of the address
\* that was stored: nobody gets a second account beside an older one.
AccountPerPerson ==
  \A i, j \in Ids :
    /\ i # j /\ Exists(i) /\ Exists(j) /\ account[i].who = account[j].who
    => {i, j} \subseteq OldIds

\* A sign-in that loses the race to insert or to normalize the account finds
\* the winner's row: the one retry of sign_in is enough.
RacersGetIn == \A b \in Browsers : flow[b].at # "refused"

\* A revocation ends every session of the account that was issued before it,
\* also when two revocations overlap and a sign-in comes between them ("must
\* land on N+2, not both write N+1").
SignedOutEverywhere ==
  [][\A b \in Browsers :
       flow[b].at = "revoke" /\ flow'[b].at # "revoke" =>
         \A a \in Browsers : cookie[a] # None /\ cookie[a].id = flow[b].mine
                             => ~Live(cookie[a])']_vars

\* A row of the course changes hands only from nobody to somebody, however
\* many syncs race to adopt it; only claim_unowned is not so careful.
AdoptedOnce ==
  [][\A c \in Copies : owner[c] \in Ids /\ owner'[c] # owner[c] =>
       \E b \in Browsers : flow[b].at = "give" /\ flow[b].spare = c]_vars

\* Every sync that is not refused gets a course row of its user's own to work
\* on at the moment it takes the row up.
SyncTakesOwn ==
  [][\A s \in Syncs : sync[s].at # "work" /\ sync'[s].at = "work" =>
       owner'[sync'[s].got] = sync'[s].user]_vars

\* A course that has an owner keeps it.  The code does not keep this.
OwnerKept == [][\A c \in Copies : owner[c] \in Ids => owner'[c] = owner[c]]_vars
=============================================================================
