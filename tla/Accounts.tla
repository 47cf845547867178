------------------------------ MODULE Accounts ------------------------------
(***************************************************************************)
(* The accounts of the web monitor: the servlets Login, Logout and         *)
(* EditAccount, monitor.jsp's check of the session and the web socket's    *)
(* check of each message, over one table of users and one pool of          *)
(* connections (src/monitor/).                                             *)
(*                                                                         *)
(* Every request is handled by a thread of its own, one SQL statement a    *)
(* step.  A browser makes one request at a time, its page in another tab   *)
(* sends messages meanwhile.                                               *)
(***************************************************************************)
EXTENDS Integers, Sequences, FiniteSets, SequencesExt

CONSTANTS
    Browsers,
    Names,        \* names that can be asked for
    Admin,        \* the user `admin'
    First,        \* the names that have an account at the beginning
    Passwords,
    FirstPassword,
    PoolSize,     \* connections of the pool
    MaxLogins,    \* bound: session keys given out
    MaxEdits,     \* bound: requests to EditAccount
    MaxPageMessages   \* bound: messages of the pages

ASSUME AccountsConstants ==
    /\ First \subseteq Names /\ IsFiniteSet(First) /\ Admin \in Names
    /\ FirstPassword \in Passwords

NoKey == 0
Nobody == [name |-> Admin, key |-> NoKey]

(* `gave' is the password the request has in it, `new' the one to set or   *)
(* the name to add.                                                        *)
NoRequest == [pc |-> "idle", name |-> Admin, gave |-> FirstPassword, new |-> FirstPassword]

VARIABLES
    users,     \* the rows of the table, in the order of their id
    http,      \* the attributes of every browser's HttpSession
    page,      \* what every browser's page was made with
    request,   \* the request every browser waits for
    pool,      \* connections that are free
    nextKey,   \* session keys given out
    edits, messages,
    overlap    \* whether two requests for one new name overlapped

accountsVars == <<users, http, page, request, pool, nextKey, edits, messages, overlap>>

AccountsInit ==
    /\ users = [k \in 1 .. Cardinality(First) |->
                  [name |-> SetToSeq(First)[k], password |-> FirstPassword, key |-> NoKey]]
    /\ http = [b \in Browsers |-> Nobody]
    /\ page = [b \in Browsers |-> Nobody]
    /\ request = [b \in Browsers |-> NoRequest]
    /\ pool = PoolSize
    /\ nextKey = 0 /\ edits = 0 /\ messages = 0
    /\ overlap = FALSE

HasRow(name, key) == \E k \in DOMAIN users : users[k].name = name /\ users[k].key = key
Matches(k, name, password) == users[k].name = name /\ users[k].password = password
Step(b, pc) == request' = [request EXCEPT ![b].pc = pc]

-----------------------------------------------------------------------------
(* Login *)

Login(b) ==
    /\ request[b].pc = "idle" /\ pool > 0
    /\ nextKey + Cardinality({c \in Browsers : request[c].pc = "check"}) < MaxLogins
    /\ pool' = pool - 1
    /\ \E n \in Names, p \in Passwords :
          request' = [request EXCEPT ![b] = [pc |-> "check", name |-> n, gave |-> p,
                                             new |-> FirstPassword]]
    /\ UNCHANGED <<users, http, page, nextKey, edits, messages, overlap>>

CheckUser(b) ==
    /\ request[b].pc = "check"
    /\ IF \E k \in DOMAIN users : Matches(k, request[b].name, request[b].gave)
       THEN /\ nextKey' = nextKey + 1
            /\ http' = [http EXCEPT ![b] = [name |-> request[b].name, key |-> nextKey + 1]]
            /\ Step(b, "stamp")
            /\ UNCHANGED pool
       ELSE /\ pool' = pool + 1
            /\ Step(b, "idle")
            /\ UNCHANGED <<nextKey, http>>
    /\ UNCHANGED <<users, page, edits, messages, overlap>>

(* The key is written where name and password still match, and the        *)
(* connection goes back.  The browser is sent to monitor.jsp.              *)
StampWhere(b, here) ==
    /\ request[b].pc = "stamp"
    /\ users' = [k \in DOMAIN users |->
                    IF k \in here THEN [users[k] EXCEPT !.key = http[b].key] ELSE users[k]]
    /\ pool' = pool + 1
    /\ Step(b, "open")
    /\ UNCHANGED <<http, page, nextKey, edits, messages, overlap>>

(* Mutant of Stamp: the row is found by its name. *)
StampName(b) == StampWhere(b, {k \in DOMAIN users : users[k].name = request[b].name})

Stamp(b) ==
    StampWhere(b, {k \in DOMAIN users : Matches(k, request[b].name, request[b].gave)})

(* monitor.jsp, after a login or loaded again: without a row the reading   *)
(* of the avatar throws, and the connection is not closed.                 *)
Open(b) ==
    /\ request[b].pc \in {"open", "idle"} /\ http[b] # Nobody
    /\ LET there == pool > 0 /\ HasRow(http[b].name, http[b].key)
       IN  /\ page' = IF there THEN [page EXCEPT ![b] = http[b]] ELSE page
           /\ pool' = IF there \/ pool = 0 THEN pool ELSE pool - 1
    /\ Step(b, "idle")
    /\ UNCHANGED <<users, http, nextKey, edits, messages, overlap>>

(* Logout, or the login page, invalidate the session. *)
Logout(b) ==
    /\ request[b].pc = "idle" /\ http[b] # Nobody
    /\ http' = [http EXCEPT ![b] = Nobody]
    /\ UNCHANGED <<users, page, request, pool, nextKey, edits, messages, overlap>>

-----------------------------------------------------------------------------
(* The web socket *)

(* Mutant of Accepts: the key is not compared. *)
AcceptsName(p) == \E k \in DOMAIN users : users[k].name = p.name

Accepts(p) == HasRow(p.name, p.key)

(* onMessage() takes a connection and does not give it back; without one   *)
(* it throws, after a while, and the answer is `Wrong Credentials'.        *)
Message(b) ==
    /\ page[b] # Nobody /\ messages < MaxPageMessages
    /\ messages' = messages + 1
    /\ pool' = IF pool > 0 THEN pool - 1 ELSE pool
    /\ UNCHANGED <<users, http, page, request, nextKey, edits, overlap>>

-----------------------------------------------------------------------------
(* EditAccount; no branch closes its connection *)

Edit(b) ==
    /\ request[b].pc = "idle" /\ pool > 0 /\ edits < MaxEdits
    /\ pool' = pool - 1
    /\ edits' = edits + 1
    /\ \E n \in Names, p, q \in Passwords, action \in {"password", "account"} :
          request' = [request EXCEPT ![b] = [pc |-> action, name |-> n, gave |-> p, new |-> q]]
    /\ UNCHANGED <<users, http, page, nextKey, messages, overlap>>

CheckPassword(b) ==
    /\ request[b].pc = "password"
    /\ Step(b, IF \E k \in DOMAIN users : Matches(k, request[b].name, request[b].gave)
               THEN "set" ELSE "idle")
    /\ UNCHANGED <<users, http, page, pool, nextKey, edits, messages, overlap>>

(* The password is set for the name, whatever it is by now. *)
SetPassword(b) ==
    /\ request[b].pc = "set"
    /\ users' = [k \in DOMAIN users |->
                    IF users[k].name = request[b].name
                    THEN [users[k] EXCEPT !.password = request[b].new] ELSE users[k]]
    /\ Step(b, "idle")
    /\ UNCHANGED <<http, page, pool, nextKey, edits, messages, overlap>>

CheckAdmin(b) ==
    /\ request[b].pc = "account"
    /\ Step(b, IF http[b].key # NoKey /\ HasRow(Admin, http[b].key) THEN "exists" ELSE "idle")
    /\ UNCHANGED <<users, http, page, pool, nextKey, edits, messages, overlap>>

CheckName(b) ==
    /\ request[b].pc = "exists"
    /\ IF \E k \in DOMAIN users : users[k].name = request[b].name
       THEN Step(b, "idle") /\ UNCHANGED overlap
       ELSE /\ Step(b, "insert")
            /\ overlap' = (overlap \/ \E c \in Browsers \ {b} :
                              request[c].pc = "insert" /\ request[c].name = request[b].name)
    /\ UNCHANGED <<users, http, page, pool, nextKey, edits, messages>>

Insert(b) ==
    /\ request[b].pc = "insert"
    /\ users' = Append(users, [name |-> request[b].name, password |-> request[b].new,
                               key |-> NoKey])
    /\ Step(b, "idle")
    /\ UNCHANGED <<http, page, pool, nextKey, edits, messages, overlap>>

AccountsNext ==
    \E b \in Browsers :
        \/ Login(b) \/ CheckUser(b) \/ Stamp(b) \/ Open(b) \/ Logout(b)
        \/ Message(b)
        \/ Edit(b) \/ CheckPassword(b) \/ SetPassword(b)
        \/ CheckAdmin(b) \/ CheckName(b) \/ Insert(b)

AccountsSpec == AccountsInit /\ [][AccountsNext]_accountsVars
-----------------------------------------------------------------------------
(* Properties *)

(* Of the pages of one user only those of the last login are accepted: two *)
(* browsers never are at the same time, unless the user has two accounts.  *)
LastLoginHolds ==
    ~overlap =>
        \A b, c \in Browsers :
            /\ page[b] # Nobody /\ page[c] # Nobody /\ page[b].name = page[c].name
            /\ Accepts(page[b]) /\ Accepts(page[c])
            => b = c \/ page[b].key = page[c].key

(* A key is written to a row only by a login that gave the password the    *)
(* row has at that moment: a password that was changed since the login     *)
(* checked it opens nothing.                                               *)
KeyForPassword ==
    \A k \in DOMAIN users :
        users'[k].key # users[k].key =>
            \E b \in Browsers : /\ request[b].pc = "stamp"
                                /\ request[b].gave = users[k].password

OldPasswordOpensNothing == [][KeyForPassword]_accountsVars
=============================================================================
