------------------------------ MODULE QueryAPI ------------------------------
(***************************************************************************)
(* The query API (cmd/api): logins and their tokens, the administration of *)
(* services and users in PostgreSQL, and searches of the ClickHouse table  *)
(* restricted to the services a user may see.                              *)
(*                                                                         *)
(* A client sends one request after another and each handler is one step   *)
(* per statement it sends to a database, so that the steps of concurrent   *)
(* requests interleave.  Emails are unique and users are never removed, so *)
(* an email stands for the user's id.  A log is a position in the table.   *)
(***************************************************************************)
EXTENDS Integers, Sequences, FiniteSets, FiniteSetsExt

CONSTANTS
    Client,         \* clients of the API, each with a token of its own
    Reader,         \* bound: the client that searches; the others administer
    Email,          \* the emails users are created with
    Service,        \* names of services
    Demo,           \* the service init.sql creates
    Lifetime,       \* jwtLifetime
    Window,         \* how far trace, volume and pattern queries look back
    Limit,          \* the limit of a page of listLogs
    MaxTime,        \* bound: time passes until then
    MaxLogs,        \* bound: rows in the log table
    Faults          \* subset of {"postgres", "clickhouse", "cut"}

ASSUME QueryAssumption ==
    /\ Demo \in Service
    /\ Reader \in Client
    /\ Lifetime \in Nat \ {0}
    /\ Window \in Nat
    /\ Limit \in Nat \ {0}
    /\ MaxTime \in Nat /\ MaxLogs \in Nat
    /\ Faults \subseteq {"postgres", "clickhouse", "cut"}

VARIABLES
    services,   \* the services table
    users,      \* the users table joined with user_services, by email; wanted
                \* is history, the services the administrator has asked for
    logs,       \* the ClickHouse table centilog.logs
    now,        \* the clock
    token,      \* the token a client holds, as far as its signature is good
    req,        \* the request a client is waiting for
    answer,     \* history: the rows of the last answer and who got it
    walk        \* the walk of the reader through the pages of a search

tables == <<services, users>>
qvars == <<tables, logs, now, token, req, answer, walk>>

Role == {"admin", "viewer"}
Account == [role : Role, granted : SUBSET Service, wanted : SUBSET Service]
NoUser == [role |-> "none", granted |-> {}, wanted |-> {}]
NoToken == [sub |-> "none", role |-> "none", exp |-> 0]
Token == [sub : Email, role : Role, exp : Nat]

\* The parameter service of listLogs: one service, or none given.
All == "all"
Row == [time : 0 .. MaxTime, service : Service]
Never == MaxTime + 1        \* no parameter before

NoWalk == [before |-> Never, seen |-> {}, base |-> {}, cuts |-> {}]
Idle == [pc |-> "idle"]
Reading == [pc : {"permit"}, by : Token, op : {"logs", "window"},
            service : Service \cup {All}]
Querying == [pc : {"query"}, by : Token, op : {"logs", "window"},
             allowed : SUBSET Service]
Creating == [pc : {"service"}, by : Token, name : Service]
Inserting == [pc : {"insert", "grant"}, email : Email, role : Role,
              names : Seq(Service), granted : SUBSET Service,
              wanted : SUBSET Service]
Request == {Idle} \cup Reading \cup Querying \cup Creating \cup Inserting

QueryTypeOK ==
    /\ services \subseteq Service
    /\ users \in [Email -> Account \cup {NoUser}]
    /\ logs \in Seq(Row)
    /\ now \in 0 .. MaxTime
    /\ token \in [Client -> Token \cup {NoToken}]
    /\ req \in [Client -> Request]
    /\ answer \in [by : Token \cup {NoToken}, rows : SUBSET DOMAIN logs]
    /\ walk \in [before : 0 .. Never, seen : SUBSET DOMAIN logs,
                 base : SUBSET DOMAIN logs, cuts : SUBSET (0 .. MaxTime)]

QueryInit ==
    /\ services = {Demo}
    /\ users = [e \in Email |-> NoUser]
    /\ logs = <<>>
    /\ now = 0
    /\ token = [c \in Client |-> NoToken]
    /\ req = [c \in Client |-> Idle]
    /\ answer = [by |-> NoToken, rows |-> {}]
    /\ walk = NoWalk

-----------------------------------------------------------------------------
(***************************************************************************)
(* Surroundings: the clock, the writer of the log table, restarts.         *)
(***************************************************************************)
Tick ==
    /\ now < MaxTime
    /\ now' = now + 1
    /\ UNCHANGED <<tables, logs, token, req, answer, walk>>

\* A row arrives; its timestamp is the log's own and may be an old one.
Store ==
    /\ Len(logs) < MaxLogs
    /\ \E t \in 0 .. now, s \in Service :
         logs' = Append(logs, [time |-> t, service |-> s])
    /\ UNCHANGED <<tables, now, token, req, answer, walk>>

\* runServer after the end of the previous process: open transactions are
\* rolled back; unless JWT_SECRET is set there is a new secret, and no token
\* is good any more.
Restart ==
    /\ req' = [c \in Client |-> Idle]
    /\ token' \in {token, [c \in Client |-> NoToken]}
    /\ UNCHANGED <<tables, logs, now, answer, walk>>

\* The command create-admin.
Taken(e) == \/ users[e] # NoUser
            \/ \E c \in Client : req[c].pc = "grant" /\ req[c].email = e

CreateAdmin(e) ==
    /\ ~Taken(e)
    /\ users' = [users EXCEPT ![e] = [role |-> "admin", granted |-> {}, wanted |-> {}]]
    /\ UNCHANGED <<services, logs, now, token, req, answer, walk>>

-----------------------------------------------------------------------------
(***************************************************************************)
(* Login and the middleware authenticate and requireAdmin.                 *)
(***************************************************************************)
Sign(e) == [sub |-> e, role |-> users[e].role, exp |-> now + Lifetime]

\* Mutant: an email nobody has is not noticed.
LoginUnknown(c, e) ==
    /\ req[c] = Idle
    /\ token' = [token EXCEPT ![c] = Sign(e)]
    /\ walk' = IF c = Reader THEN NoWalk ELSE walk
    /\ UNCHANGED <<tables, logs, now, req, answer>>

Login(c, e) ==
    /\ req[c] = Idle
    /\ users[e] # NoUser
    /\ token' = [token EXCEPT ![c] = Sign(e)]
    /\ walk' = IF c = Reader THEN NoWalk ELSE walk
    /\ UNCHANGED <<tables, logs, now, req, answer>>

\* Parse
Valid(t) == t # NoToken /\ t.exp > now

\* A request that is let through; the others are answered with 401 or 403
\* and leave everything as it is.
Enter(c, r) ==
    /\ req[c] = Idle
    /\ Valid(token[c])
    /\ req' = [req EXCEPT ![c] = r]
    /\ UNCHANGED <<tables, logs, now, token, answer, walk>>

Read(c) ==
    /\ c = Reader
    /\ \E op \in {"logs", "window"}, s \in Service \cup {All} :
         /\ op = "window" => s = All
         /\ Enter(c, [pc |-> "permit", by |-> token[c], op |-> op, service |-> s])

IsAdmin(t) == t.role = "admin"

AskService(c) ==
    /\ c # Reader /\ IsAdmin(token[c])
    /\ \E s \in Service :
         Enter(c, [pc |-> "service", by |-> token[c], name |-> s])

\* createUser: permissions are only assigned to viewers; the list of names
\* may hold a service twice or one that does not exist.
AskUser(c) ==
    /\ c # Reader /\ IsAdmin(token[c])
    /\ \E e \in Email, role \in Role, names \in {<<>>} \cup {<<s>> : s \in Service}
                                             \cup (Service \X Service) :
         /\ role = "admin" => names = <<>>
         /\ Enter(c, [pc |-> "insert", email |-> e, role |-> role,
                      names |-> names, granted |-> {},
                      wanted |-> {names[i] : i \in DOMAIN names}])

-----------------------------------------------------------------------------
(***************************************************************************)
(* Administration.                                                         *)
(***************************************************************************)
Done(c) == req' = [req EXCEPT ![c] = Idle]

\* 409 when the name exists.
CreateService(c) ==
    /\ req[c].pc = "service"
    /\ services' = services \cup {req[c].name}
    /\ Done(c)
    /\ UNCHANGED <<users, logs, now, token, answer, walk>>

\* Mutant: the user is inserted outside the transaction.
InsertUserCommits(c) ==
    /\ req[c].pc = "insert"
    /\ ~Taken(req[c].email)
    /\ users' = [users EXCEPT ![req[c].email] = [role |-> req[c].role, granted |-> {},
                                                  wanted |-> req[c].wanted]]
    /\ req' = [req EXCEPT ![c].pc = "grant"]
    /\ UNCHANGED <<services, logs, now, token, answer, walk>>

\* CreateUser in its transaction, seen by nobody before the commit.  A row
\* another transaction has inserted under the same email holds this one up.
InsertUser(c) ==
    /\ req[c].pc = "insert"
    /\ ~Taken(req[c].email)
    /\ req' = [req EXCEPT ![c].pc = "grant"]
    /\ UNCHANGED <<services, users, logs, now, token, answer, walk>>

\* 409, "user email already exists".
EmailExists(c) ==
    /\ req[c].pc = "insert"
    /\ users[req[c].email] # NoUser
    /\ Done(c)
    /\ UNCHANGED <<tables, logs, now, token, answer, walk>>

\* The next row of user_services; its service has to exist, its key to be new.
InsertService(c) ==
    LET r == req[c]
    IN  /\ r.pc = "grant"
        /\ r.names # <<>>
        /\ IF Head(r.names) \in services \ r.granted
           THEN req' = [req EXCEPT ![c] = [r EXCEPT !.names = Tail(@),
                                           !.granted = @ \cup {Head(r.names)}]]
           ELSE Done(c)                                 \* Rollback
        /\ UNCHANGED <<tables, logs, now, token, answer, walk>>

Commit(c) ==
    /\ req[c].pc = "grant"
    /\ req[c].names = <<>>
    /\ users' = [users EXCEPT ![req[c].email] =
                    [role |-> req[c].role, granted |-> req[c].granted,
                     wanted |-> req[c].wanted]]
    /\ Done(c)
    /\ UNCHANGED <<services, logs, now, token, answer, walk>>

\* PostgreSQL fails, or the client goes away and the request's context is
\* cancelled: the transaction is rolled back.
DatabaseFails(c) ==
    /\ "postgres" \in Faults
    /\ req[c].pc \in {"permit", "service", "insert", "grant"}
    /\ Done(c)
    /\ UNCHANGED <<tables, logs, now, token, answer, walk>>

-----------------------------------------------------------------------------
(***************************************************************************)
(* Reading: listLogs, trace, volumeStats and patternStats first load the   *)
(* services the user may see, then query the log table for those.          *)
(***************************************************************************)
ServicesForUser(t) == IF t.role = "admin" THEN services ELSE users[t.sub].granted

\* Mutant: a service that is asked for by name is not looked up.
PermitRequested(c) ==
    LET r == req[c]
        allowed == IF r.service = All THEN ServicesForUser(r.by) ELSE {r.service}
    IN  /\ r.pc = "permit"
        /\ req' = [req EXCEPT ![c] = [pc |-> "query", by |-> r.by, op |-> r.op,
                                      allowed |-> allowed]]
        /\ UNCHANGED <<tables, logs, now, token, answer, walk>>

\* A service that is asked for by name has to be among them (403).
Permit(c) ==
    LET r == req[c]
        visible == ServicesForUser(r.by)
        allowed == IF r.service = All THEN visible ELSE visible \cap {r.service}
    IN  /\ r.pc = "permit"
        /\ IF r.service = All \/ r.service \in visible
           THEN req' = [req EXCEPT ![c] = [pc |-> "query", by |-> r.by, op |-> r.op,
                                           allowed |-> allowed]]
           ELSE Done(c)
        /\ UNCHANGED <<tables, logs, now, token, answer, walk>>

RowsOf(allowed) == {i \in DOMAIN logs : logs[i].service \in allowed}

\* An answer of ClickHouse is read up to 16 MiB.  Of a longer one whose limit
\* falls on the end of a row the rest is missing without a trace.
Cut(R, M) == "cut" \in Faults /\ R # {} /\ R # M

\* Mutant: the rows of a page are the oldest ones.
FirstOldest(R, M) ==
    /\ \/ Cardinality(R) = Min({Limit, Cardinality(M)})
       \/ Cut(R, M) /\ Cardinality(R) < Limit
    /\ \A i \in R, j \in M \ R : logs[i].time <= logs[j].time

\* ORDER BY timestamp DESC LIMIT: among rows of one time any may be left out.
First(R, M) ==
    /\ \/ Cardinality(R) = Min({Limit, Cardinality(M)})
       \/ Cut(R, M) /\ Cardinality(R) < Limit
    /\ \A i \in R, j \in M \ R : logs[i].time >= logs[j].time

Answer(c, rows) ==
    /\ answer' = [by |-> req[c].by, rows |-> rows]
    /\ Done(c)
    /\ UNCHANGED <<tables, logs, now, token>>

\* listLogs.  A walk passes the time of the oldest row it has got as before
\* and starts anew when there are no more.
ListLogs(c) ==
    LET w == walk
        M == {i \in RowsOf(req[c].allowed) : logs[i].time < w.before}
    IN  /\ req[c].pc = "query" /\ req[c].op = "logs"
        /\ \E R \in SUBSET M :
             LET oldest == Min({logs[i].time : i \in R})
             IN  /\ First(R, M)
                 /\ Answer(c, R)
                 /\ walk' = IF R = {} THEN NoWalk
                            ELSE [before |-> oldest,
                                  seen |-> w.seen \cup R,
                                  base |-> IF w = NoWalk THEN M
                                           ELSE w.base \cap RowsOf(req[c].allowed),
                                  cuts |-> w.cuts \cup {oldest}]

\* trace, volumeStats and patternStats: everything of the last days or hours.
QueryWindow(c) ==
    /\ req[c].pc = "query" /\ req[c].op = "window"
    /\ LET M == {i \in RowsOf(req[c].allowed) : logs[i].time \in now - Window .. now}
       IN  \E R \in SUBSET M : (R = M \/ Cut(R, M)) /\ Answer(c, R)
    /\ UNCHANGED walk

\* 503, also for a row that is too long; or 200 without a body, if the limit of
\* 16 MiB falls into a row and what is left of it cannot be encoded.
QueryFails(c) ==
    /\ "clickhouse" \in Faults
    /\ req[c].pc = "query"
    /\ Done(c)
    /\ UNCHANGED <<tables, logs, now, token, answer, walk>>

-----------------------------------------------------------------------------
Serve(c) ==
    \/ \E e \in Email : Login(c, e)
    \/ Read(c) \/ AskService(c) \/ AskUser(c)
    \/ CreateService(c)
    \/ InsertUser(c) \/ EmailExists(c) \/ InsertService(c) \/ Commit(c)
    \/ DatabaseFails(c)
    \/ Permit(c) \/ ListLogs(c) \/ QueryWindow(c) \/ QueryFails(c)

QueryNext ==
    \/ Tick \/ Store \/ Restart
    \/ \E e \in Email : CreateAdmin(e)
    \/ \E c \in Client : Serve(c)

QuerySpec == QueryInit /\ [][QueryNext]_qvars

-----------------------------------------------------------------------------
(***************************************************************************)
(* Properties.                                                             *)
(***************************************************************************)

\* "Every query applies the requesting user's service permissions": the rows
\* of an answer belong to known services, and to those the tables permit to
\* the user the token was issued to unless that is an administrator.
ScopedRows ==
    \A i \in answer.rows :
        LET account == users[answer.by.sub]
        IN  /\ logs[i].service \in services
            /\ account.role = "admin" \/ logs[i].service \in account.granted

\* createUser creates a user with all the permissions that were asked for or
\* not at all, whatever fails and whatever another administrator does.
UserComplete == \A e \in Email : users[e].granted = users[e].wanted

\* Walking through a search page by page shows no row twice and leaves out,
\* of the rows that were there at the first page, only some with the same
\* timestamp as the last row of a page.
PagesMissOnlyTies ==
    /\ \A i \in walk.seen : logs[i].time >= walk.before
    /\ \A i \in walk.base \ walk.seen :
         logs[i].time >= walk.before => logs[i].time \in walk.cuts
=============================================================================
