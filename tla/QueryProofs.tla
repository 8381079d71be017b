---------------------------- MODULE QueryProofs -----------------------------
(***************************************************************************)
(* For every number of clients, users, services, rows and ticks and every  *)
(* page size: answers hold only rows the user may see, users are created   *)
(* with all their permissions or not at all, and a walk through the pages  *)
(* of a search misses only rows of equal times.                            *)
(***************************************************************************)
EXTENDS QueryAPI, SequenceTheorems, WellFoundedInduction, TLAPS

-----------------------------------------------------------------------------
(***************************************************************************)
(* Smallest times.                                                         *)
(***************************************************************************)

LEMMA SmallestExists ==
    ASSUME NEW T \in SUBSET Nat, T # {}
    PROVE  \E x \in T : \A y \in T : x <= y
<1> DEFINE R == OpToRel(<, Nat)
<1>1. IsWellFoundedOn(R, Nat)
  BY NatLessThanWellFounded
<1>2. R = {ss \in Nat \X Nat : ss[1] < ss[2]}
  BY DEF OpToRel
<1> HIDE DEF R
<1>3. PICK x \in T : \A y \in T : ~(<<y, x>> \in R)
  BY <1>1, WFMin
<1>4. ASSUME NEW y \in T PROVE x <= y
  <2>1. x \in Nat /\ y \in Nat
    OBVIOUS
  <2>2. <<y, x>> \notin R
    BY <1>3
  <2>3. ~(y < x)
    BY <1>2, <2>1, <2>2
  <2> QED
    BY <2>1, <2>3
<1> QED
  BY <1>4

LEMMA MinType ==
    ASSUME NEW T \in SUBSET Nat, T # {}
    PROVE  Min(T) \in T /\ \A y \in T : Min(T) <= y
BY SmallestExists DEF Min

-----------------------------------------------------------------------------
(***************************************************************************)
(* Requests.                                                               *)
(***************************************************************************)

LEMMA RequestShape ==
    ASSUME NEW r \in Request
    PROVE  /\ r.pc \in {"idle", "permit", "query", "service", "insert", "grant"}
           /\ r.pc = "permit" <=> r \in Reading
           /\ r.pc = "query" <=> r \in Querying
           /\ r.pc = "service" <=> r \in Creating
           /\ r.pc \in {"insert", "grant"} <=> r \in Inserting
           /\ r.pc = "idle" <=> r = Idle
<1>1. ASSUME r = Idle PROVE r.pc = "idle"
  BY <1>1 DEF Idle
<1>2. ASSUME r \in Reading PROVE r.pc = "permit"
  BY <1>2 DEF Reading
<1>3. ASSUME r \in Querying PROVE r.pc = "query"
  BY <1>3 DEF Querying
<1>4. ASSUME r \in Creating PROVE r.pc = "service"
  BY <1>4 DEF Creating
<1>5. ASSUME r \in Inserting PROVE r.pc \in {"insert", "grant"}
  BY <1>5 DEF Inserting
<1>6. r = Idle \/ r \in Reading \/ r \in Querying \/ r \in Creating \/ r \in Inserting
  BY DEF Request
<1> QED
  BY <1>1, <1>2, <1>3, <1>4, <1>5, <1>6

LEMMA NoneType == NoUser \notin Account /\ NoToken \notin Token
BY DEF NoUser, Account, NoToken, Token, Role

\* The names createUser is sent with.
LEMMA NamesType ==
    ASSUME NEW names \in {<<>>} \cup {<<s>> : s \in Service} \cup (Service \X Service)
    PROVE  names \in Seq(Service)
<1>1. CASE names = <<>>
  BY <1>1
<1>2. ASSUME NEW s \in Service, names = <<s>> PROVE names \in Seq(Service)
  BY <1>2
<1>3. ASSUME NEW s \in Service, NEW t \in Service, names = <<s, t>> PROVE names \in Seq(Service)
  BY <1>3
<1> QED
  BY <1>1, <1>2, <1>3

\* The services of a sequence of names.
NamesOf(names) == {names[i] : i \in DOMAIN names}

LEMMA NamesOfTail ==
    ASSUME NEW names \in Seq(Service), names # <<>>
    PROVE  /\ Head(names) \in Service
           /\ Tail(names) \in Seq(Service)
           /\ NamesOf(names) = {Head(names)} \cup NamesOf(Tail(names))
<1>1. /\ Len(names) \in Nat /\ Len(names) # 0 /\ DOMAIN names = 1 .. Len(names)
      /\ Head(names) = names[1] /\ Head(names) \in Service
      /\ Tail(names) \in Seq(Service) /\ Len(Tail(names)) = Len(names) - 1
      /\ DOMAIN Tail(names) = 1 .. Len(names) - 1
      /\ \A i \in 1 .. Len(names) - 1 : Tail(names)[i] = names[i + 1]
  BY HeadTailProperties, EmptySeq
<1>2. ASSUME NEW x \in NamesOf(names)
      PROVE  x \in {Head(names)} \cup NamesOf(Tail(names))
  <2>1. PICK i \in 1 .. Len(names) : x = names[i]
    BY <1>1 DEF NamesOf
  <2>2. CASE i = 1
    BY <1>1, <2>1, <2>2
  <2>3. CASE i # 1
    <3>1. i - 1 \in 1 .. Len(names) - 1 /\ (i - 1) + 1 = i
      BY <1>1, <2>3
    <3>2. Tail(names)[i - 1] = names[i]
      BY <1>1, <3>1
    <3> QED
      BY <1>1, <2>1, <3>1, <3>2 DEF NamesOf
  <2> QED
    BY <2>2, <2>3
<1>3. ASSUME NEW x \in {Head(names)} \cup NamesOf(Tail(names))
      PROVE  x \in NamesOf(names)
  <2>1. CASE x = Head(names)
    BY <1>1, <2>1 DEF NamesOf
  <2>2. CASE x \in NamesOf(Tail(names))
    <3>1. PICK i \in 1 .. Len(names) - 1 : x = names[i + 1]
      BY <1>1, <2>2 DEF NamesOf
    <3>2. i + 1 \in 1 .. Len(names)
      BY <1>1
    <3> QED
      BY <1>1, <3>1, <3>2 DEF NamesOf
  <2> QED
    BY <1>3, <2>1, <2>2
<1> QED
  BY <1>1, <1>2, <1>3

-----------------------------------------------------------------------------
(***************************************************************************)
(* Type correctness.                                                       *)
(***************************************************************************)

SetRequest(c, r) == req' = [req EXCEPT ![c] = r]

LEMMA IdleIsRequest == Idle \in Request
BY DEF Request

\* A handler's step replaces its own request by another one.
LEMMA ServeRequest ==
    ASSUME QueryTypeOK, NEW c \in Client, Serve(c)
    PROVE  UNCHANGED req \/ \E r \in Request : SetRequest(c, r)
<1>1. req \in [Client -> Request] /\ req[c] \in Request
  BY DEF QueryTypeOK
<1>2. ASSUME Valid(token[c]) PROVE token[c] \in Token
  BY <1>2 DEF Valid, QueryTypeOK
<1>3. CASE \E e \in Email : Login(c, e)
  BY <1>3 DEF Login
<1>4. CASE Read(c)
  <2>1. PICK op \in {"logs", "window"}, s \in Service \cup {All} :
          Enter(c, [pc |-> "permit", by |-> token[c], op |-> op, service |-> s])
    BY <1>4 DEF Read
  <2>2. [pc |-> "permit", by |-> token[c], op |-> op, service |-> s] \in Reading
    BY <1>2, <2>1 DEF Enter, Reading
  <2> QED
    BY <2>1, <2>2 DEF Enter, SetRequest, Request
<1>5. CASE AskService(c)
  <2>1. PICK s \in Service : Enter(c, [pc |-> "service", by |-> token[c], name |-> s])
    BY <1>5 DEF AskService
  <2>2. [pc |-> "service", by |-> token[c], name |-> s] \in Creating
    BY <1>2, <2>1 DEF Enter, Creating
  <2> QED
    BY <2>1, <2>2 DEF Enter, SetRequest, Request
<1>6. CASE AskUser(c)
  <2>1. PICK e \in Email, role \in Role,
             names \in {<<>>} \cup {<<s>> : s \in Service} \cup (Service \X Service) :
          Enter(c, [pc |-> "insert", email |-> e, role |-> role, names |-> names,
                    granted |-> {}, wanted |-> {names[i] : i \in DOMAIN names}])
    BY <1>6 DEF AskUser
  <2>2. names \in Seq(Service)
    BY NamesType
  <2>3. {names[i] : i \in DOMAIN names} \in SUBSET Service
    BY <2>2
  <2>4. [pc |-> "insert", email |-> e, role |-> role, names |-> names,
         granted |-> {}, wanted |-> {names[i] : i \in DOMAIN names}] \in Inserting
    BY <2>2, <2>3 DEF Inserting
  <2> QED
    BY <2>1, <2>4 DEF Enter, SetRequest, Request
<1>7. CASE InsertUser(c)
  <2>1. req[c] \in Inserting
    BY <1>1, <1>7, RequestShape DEF InsertUser
  <2>2. [req[c] EXCEPT !.pc = "grant"] \in Inserting
    BY <2>1 DEF Inserting
  <2>3. req' = [req EXCEPT ![c] = [req[c] EXCEPT !.pc = "grant"]]
    BY <1>1, <1>7 DEF InsertUser
  <2> QED
    BY <2>2, <2>3 DEF SetRequest, Request
<1>8. CASE InsertService(c)
  <2>1. req[c] \in Inserting /\ req[c].names # <<>>
    BY <1>1, <1>8, RequestShape DEF InsertService
  <2>2. req[c].names \in Seq(Service) /\ req[c].granted \in SUBSET Service
    BY <2>1 DEF Inserting
  <2>3. Head(req[c].names) \in Service /\ Tail(req[c].names) \in Seq(Service)
    BY <2>1, <2>2, NamesOfTail
  <2>4. [req[c] EXCEPT !.names = Tail(@), !.granted = @ \cup {Head(req[c].names)}] \in Inserting
    BY <2>1, <2>2, <2>3 DEF Inserting
  <2> QED
    BY <1>8, <2>4, IdleIsRequest DEF InsertService, SetRequest, Done, Request
<1>9. CASE Permit(c)
  <2> DEFINE r == req[c]
             visible == ServicesForUser(r.by)
             allowed == IF r.service = All THEN visible ELSE visible \cap {r.service}
  <2>1. r \in Reading
    BY <1>1, <1>9, RequestShape DEF Permit
  <2>2. r.by \in Token /\ r.op \in {"logs", "window"}
    BY <2>1 DEF Reading
  <2>3. visible \in SUBSET Service
    <3>1. users[r.by.sub] \in Account \cup {NoUser} /\ services \in SUBSET Service
      BY <2>2 DEF QueryTypeOK, Token
    <3>2. users[r.by.sub].granted \in SUBSET Service
      BY <3>1 DEF Account, NoUser
    <3> QED
      BY <3>1, <3>2 DEF ServicesForUser
  <2>4. [pc |-> "query", by |-> r.by, op |-> r.op, allowed |-> allowed] \in Querying
    BY <2>2, <2>3 DEF Querying
  <2> QED
    BY <1>9, <2>4, IdleIsRequest DEF Permit, SetRequest, Done, Request
<1>10. CASE Done(c)
  BY <1>10, IdleIsRequest DEF Done, SetRequest
<1> QED
  BY <1>3, <1>4, <1>5, <1>6, <1>7, <1>8, <1>9, <1>10
     DEF Serve, CreateService, EmailExists, Commit, DatabaseFails, ListLogs, QueryWindow,
         QueryFails, Answer

LEMMA LogsAppend ==
    ASSUME QueryTypeOK, Store
    PROVE  /\ logs' \in Seq(Row)
           /\ DOMAIN logs \subseteq DOMAIN logs'
           /\ \A i \in DOMAIN logs : logs'[i] = logs[i]
<1>1. PICK t \in 0 .. now, s \in Service : logs' = Append(logs, [time |-> t, service |-> s])
  BY DEF Store
<1>2. logs \in Seq(Row) /\ now \in 0 .. MaxTime /\ MaxTime \in Nat
  BY QueryAssumption DEF QueryTypeOK
<1>3. [time |-> t, service |-> s] \in Row
  BY <1>2 DEF Row
<1>4. /\ logs' \in Seq(Row)
      /\ Len(logs') = Len(logs) + 1
      /\ \A i \in 1 .. Len(logs) : logs'[i] = logs[i]
  BY <1>1, <1>2, <1>3, AppendProperties
<1>5. /\ Len(logs) \in Nat /\ DOMAIN logs = 1 .. Len(logs)
      /\ DOMAIN logs' = 1 .. Len(logs')
  BY <1>2, <1>4
<1> QED
  BY <1>4, <1>5

\* The log table only grows.
LogsKept ==
    /\ DOMAIN logs \subseteq DOMAIN logs'
    /\ \A i \in DOMAIN logs : logs'[i] = logs[i]

LEMMA LogsStep ==
    ASSUME QueryTypeOK, [QueryNext]_qvars
    PROVE  LogsKept /\ logs' \in Seq(Row)
<1>1. CASE Store
  BY <1>1, LogsAppend DEF LogsKept
<1>2. CASE UNCHANGED logs
  BY <1>2 DEF LogsKept, QueryTypeOK
<1> QED
  BY <1>1, <1>2 DEF QueryNext, Tick, Restart, CreateAdmin, Serve, Login, Read, AskService,
     AskUser, Enter, CreateService, InsertUser, EmailExists, InsertService, Commit,
     DatabaseFails, Permit, ListLogs, QueryWindow, QueryFails, Answer, qvars

\* A page: its rows, and the time of the oldest of them.
Matching(c) == {i \in RowsOf(req[c].allowed) : logs[i].time < walk.before}
OldestOf(R) == Min({logs[i].time : i \in R})

NextWalk(c, R) ==
    IF R = {} THEN NoWalk
    ELSE [before |-> OldestOf(R),
          seen |-> walk.seen \cup R,
          base |-> IF walk = NoWalk THEN Matching(c)
                   ELSE walk.base \cap RowsOf(req[c].allowed),
          cuts |-> walk.cuts \cup {OldestOf(R)}]

LEMMA PageOf ==
    ASSUME NEW c, ListLogs(c)
    PROVE  \E R \in SUBSET Matching(c) : /\ First(R, Matching(c))
                                         /\ Answer(c, R)
                                         /\ walk' = NextWalk(c, R)
BY DEF ListLogs, Matching, OldestOf, NextWalk

LEMMA LogRow ==
    ASSUME QueryTypeOK, NEW i \in DOMAIN logs
    PROVE  logs[i].time \in 0 .. MaxTime /\ logs[i].time \in Nat
<1>1. logs[i] \in Row
  BY DEF QueryTypeOK
<1> QED
  BY <1>1, QueryAssumption DEF Row

LEMMA OldestType ==
    ASSUME QueryTypeOK, NEW R \in SUBSET DOMAIN logs, R # {}
    PROVE  /\ OldestOf(R) \in 0 .. MaxTime
           /\ \E i \in R : logs[i].time = OldestOf(R)
           /\ \A i \in R : OldestOf(R) <= logs[i].time
<1> DEFINE T == {logs[i].time : i \in R}
<1>1. \A i \in DOMAIN logs : logs[i].time \in 0 .. MaxTime
  BY LogRow
<1>2. T \in SUBSET (0 .. MaxTime) /\ T \in SUBSET Nat /\ T # {}
  BY <1>1, QueryAssumption
<1>3. Min(T) \in T /\ \A y \in T : Min(T) <= y
  BY <1>2, MinType
<1> QED
  BY <1>2, <1>3 DEF OldestOf

LEMMA WalkStep ==
    ASSUME QueryTypeOK, [QueryNext]_qvars
    PROVE  \/ walk' = NoWalk
           \/ walk' = walk
           \/ \E c \in Client : ListLogs(c)
BY DEF QueryNext, Tick, Store, Restart, CreateAdmin, Serve, Login, Read, AskService,
   AskUser, Enter, CreateService, InsertUser, EmailExists, InsertService, Commit,
   DatabaseFails, Permit, QueryWindow, QueryFails, qvars

WalkOK(d) == [before : 0 .. Never, seen : SUBSET d, base : SUBSET d,
              cuts : SUBSET (0 .. MaxTime)]

LEMMA NextWalkType ==
    ASSUME QueryTypeOK, NEW c \in Client, NEW R \in SUBSET Matching(c)
    PROVE  NextWalk(c, R) \in WalkOK(DOMAIN logs)
<1>1. walk \in WalkOK(DOMAIN logs)
  BY DEF QueryTypeOK, WalkOK
<1>2. /\ R \in SUBSET DOMAIN logs /\ Matching(c) \in SUBSET DOMAIN logs
      /\ RowsOf(req[c].allowed) \in SUBSET DOMAIN logs
  BY DEF Matching, RowsOf
<1>3. Never \in 0 .. Never /\ 0 .. MaxTime \subseteq 0 .. Never
  BY QueryAssumption DEF Never
<1>4. CASE R = {}
  BY <1>3, <1>4 DEF NextWalk, NoWalk, WalkOK
<1>5. CASE R # {}
  <2>1. OldestOf(R) \in 0 .. MaxTime
    BY <1>2, <1>5, OldestType
  <2>2. /\ walk.seen \in SUBSET DOMAIN logs /\ walk.base \in SUBSET DOMAIN logs
        /\ walk.cuts \in SUBSET (0 .. MaxTime)
    BY <1>1 DEF WalkOK
  <2> QED
    BY <1>2, <1>3, <1>5, <2>1, <2>2 DEF NextWalk, WalkOK
<1> QED
  BY <1>4, <1>5

LEMMA WalkType ==
    ASSUME QueryTypeOK, [QueryNext]_qvars
    PROVE  walk' \in WalkOK(DOMAIN logs')
<1>1. walk \in WalkOK(DOMAIN logs)
  BY DEF QueryTypeOK, WalkOK
<1>2. DOMAIN logs \subseteq DOMAIN logs'
  BY LogsStep DEF LogsKept
<1>3. NoWalk \in WalkOK(DOMAIN logs)
  BY QueryAssumption DEF NoWalk, WalkOK, Never
<1>4. ASSUME NEW c \in Client, ListLogs(c) PROVE walk' \in WalkOK(DOMAIN logs)
  BY <1>4, PageOf, NextWalkType
<1>5. walk' \in WalkOK(DOMAIN logs)
  BY <1>1, <1>3, <1>4, WalkStep
<1> QED
  BY <1>2, <1>5 DEF WalkOK

LEMMA AnswerStep ==
    ASSUME QueryTypeOK, [QueryNext]_qvars
    PROVE  \/ answer' = answer
           \/ \E c \in Client : \E R \in SUBSET RowsOf(req[c].allowed) :
                req[c].pc = "query" /\ Answer(c, R)
<1>1. ASSUME NEW c \in Client, ListLogs(c)
      PROVE  \E R \in SUBSET RowsOf(req[c].allowed) : req[c].pc = "query" /\ Answer(c, R)
  <2>1. PICK R \in SUBSET Matching(c) : Answer(c, R)
    BY <1>1, PageOf
  <2>2. R \in SUBSET RowsOf(req[c].allowed)
    BY DEF Matching
  <2> QED
    BY <1>1, <2>1, <2>2 DEF ListLogs
<1>2. ASSUME NEW c \in Client, QueryWindow(c)
      PROVE  \E R \in SUBSET RowsOf(req[c].allowed) : req[c].pc = "query" /\ Answer(c, R)
  BY <1>2 DEF QueryWindow
<1>3. CASE UNCHANGED answer
  BY <1>3
<1> QED
  BY <1>1, <1>2, <1>3
     DEF QueryNext, Tick, Store, Restart, CreateAdmin, Serve, Login, Read, AskService,
     AskUser, Enter, CreateService, InsertUser, EmailExists, InsertService, Commit,
     DatabaseFails, Permit, QueryFails, qvars

LEMMA UsersStep ==
    ASSUME QueryTypeOK, [QueryNext]_qvars
    PROVE  \/ users' = users
           \/ \E e \in Email : CreateAdmin(e)
           \/ \E c \in Client : Commit(c)
BY DEF QueryNext, Tick, Store, Restart, Serve, Login, Read, AskService,
   AskUser, Enter, CreateService, InsertUser, EmailExists, InsertService,
   DatabaseFails, Permit, ListLogs, QueryWindow, QueryFails, Answer, qvars, tables

LEMMA TokenStep ==
    ASSUME QueryTypeOK, [QueryNext]_qvars
    PROVE  \/ token' = token
           \/ token' = [c \in Client |-> NoToken]
           \/ \E c \in Client, e \in Email : Login(c, e)
BY DEF QueryNext, Tick, Store, Restart, CreateAdmin, Serve, Read, AskService,
   AskUser, Enter, CreateService, InsertUser, EmailExists, InsertService, Commit,
   DatabaseFails, Permit, ListLogs, QueryWindow, QueryFails, Answer, qvars

LEMMA RequestStep ==
    ASSUME QueryTypeOK, [QueryNext]_qvars
    PROVE  \/ req' = req
           \/ req' = [c \in Client |-> Idle]
           \/ \E c \in Client, r \in Request : Serve(c) /\ SetRequest(c, r)
<1>1. ASSUME NEW c \in Client, Serve(c)
      PROVE  req' = req \/ \E r \in Request : SetRequest(c, r)
  BY <1>1, ServeRequest
<1> QED
  BY <1>1 DEF QueryNext, Tick, Store, Restart, CreateAdmin, qvars

LEMMA ServicesStep ==
    ASSUME QueryTypeOK, [QueryNext]_qvars
    PROVE  services \subseteq services' /\ services' \subseteq Service
<1>1. ASSUME NEW c \in Client, CreateService(c)
      PROVE  services \subseteq services' /\ services' \subseteq Service
  <2>1. req[c] \in Creating
    BY <1>1, RequestShape DEF CreateService, QueryTypeOK
  <2> QED
    BY <1>1, <2>1 DEF CreateService, Creating, QueryTypeOK
<1>2. CASE UNCHANGED services
  BY <1>2 DEF QueryTypeOK
<1> QED
  BY <1>1, <1>2 DEF QueryNext, Tick, Store, Restart, CreateAdmin, Serve, Login, Read,
     AskService, AskUser, Enter, InsertUser, EmailExists, InsertService, Commit,
     DatabaseFails, Permit, ListLogs, QueryWindow, QueryFails, Answer, qvars, tables

LEMMA QueryTypeStep ==
    ASSUME QueryTypeOK, [QueryNext]_qvars
    PROVE  QueryTypeOK'
<1>1. services' \subseteq Service /\ logs' \in Seq(Row)
  BY ServicesStep, LogsStep
<1>2. users' \in [Email -> Account \cup {NoUser}]
  <2>1. ASSUME NEW e \in Email, CreateAdmin(e) PROVE users' \in [Email -> Account \cup {NoUser}]
    <3>1. [role |-> "admin", granted |-> {}, wanted |-> {}] \in Account
      BY DEF Account, Role
    <3> QED
      BY <2>1, <3>1 DEF CreateAdmin, QueryTypeOK
  <2>2. ASSUME NEW c \in Client, Commit(c) PROVE users' \in [Email -> Account \cup {NoUser}]
    <3>1. req[c] \in Inserting
      BY <2>2, RequestShape DEF Commit, QueryTypeOK
    <3>2. [role |-> req[c].role, granted |-> req[c].granted, wanted |-> req[c].wanted] \in Account
      BY <3>1 DEF Inserting, Account
    <3> QED
      BY <2>2, <3>2 DEF Commit, QueryTypeOK
  <2> QED
    BY <2>1, <2>2, UsersStep DEF QueryTypeOK
<1>3. now' \in 0 .. MaxTime
  <2>1. CASE Tick
    BY <2>1, QueryAssumption DEF Tick, QueryTypeOK
  <2>2. CASE UNCHANGED now
    BY <2>2 DEF QueryTypeOK
  <2> QED
    BY <2>1, <2>2 DEF QueryNext, Store, Restart, CreateAdmin, Serve, Login, Read,
       AskService, AskUser, Enter, CreateService, InsertUser, EmailExists, InsertService, Commit,
       DatabaseFails, Permit, ListLogs, QueryWindow, QueryFails, Answer, qvars
<1>4. token' \in [Client -> Token \cup {NoToken}]
  <2>1. ASSUME NEW c \in Client, NEW e \in Email, Login(c, e)
        PROVE  token' \in [Client -> Token \cup {NoToken}]
    <3>1. users[e] \in Account
      BY <2>1 DEF Login, QueryTypeOK
    <3>2. now + Lifetime \in Nat
      BY QueryAssumption DEF QueryTypeOK
    <3>3. Sign(e) \in Token
      BY <3>1, <3>2 DEF Sign, Token, Account
    <3> QED
      BY <2>1, <3>3 DEF Login, QueryTypeOK
  <2> QED
    BY <2>1, TokenStep DEF QueryTypeOK
<1>5. req' \in [Client -> Request]
  BY RequestStep, IdleIsRequest DEF SetRequest, QueryTypeOK
<1>6. answer' \in [by : Token \cup {NoToken}, rows : SUBSET DOMAIN logs']
  <2>1. DOMAIN logs \subseteq DOMAIN logs'
    BY LogsStep DEF LogsKept
  <2>2. ASSUME NEW c \in Client, NEW R \in SUBSET RowsOf(req[c].allowed),
               req[c].pc = "query", Answer(c, R)
        PROVE  answer' \in [by : Token \cup {NoToken}, rows : SUBSET DOMAIN logs']
    <3>1. req[c] \in Querying
      BY <2>2, RequestShape DEF QueryTypeOK
    <3>2. req[c].by \in Token /\ R \in SUBSET DOMAIN logs'
      BY <2>1, <3>1 DEF Querying, RowsOf
    <3> QED
      BY <2>2, <3>2 DEF Answer
  <2>3. CASE answer' = answer
    BY <2>1, <2>3 DEF QueryTypeOK
  <2> QED
    BY <2>2, <2>3, AnswerStep
<1> QED
  BY <1>1, <1>2, <1>3, <1>4, <1>5, <1>6, WalkType DEF QueryTypeOK, WalkOK

\* The variables of the query API keep their types: tokens are issued only to
\* users there are, and a request goes through the phases of its handler.
THEOREM QueryTypeCorrect == QuerySpec => []QueryTypeOK
<1>1. QueryInit => QueryTypeOK
  <2> SUFFICES ASSUME QueryInit PROVE QueryTypeOK
    OBVIOUS
  <2>1. walk \in WalkOK(DOMAIN logs)
    BY QueryAssumption DEF QueryInit, NoWalk, WalkOK, Never
  <2>2. answer \in [by : Token \cup {NoToken}, rows : SUBSET DOMAIN logs]
    BY DEF QueryInit
  <2>3. services \subseteq Service /\ now \in 0 .. MaxTime /\ logs \in Seq(Row)
    BY QueryAssumption DEF QueryInit
  <2>4. req \in [Client -> Request]
    BY IdleIsRequest DEF QueryInit
  <2> QED
    BY <2>1, <2>2, <2>3, <2>4 DEF QueryInit, QueryTypeOK, WalkOK
<1>2. QueryTypeOK /\ [QueryNext]_qvars => QueryTypeOK'
  BY QueryTypeStep
<1> QED
  BY <1>1, <1>2, PTL DEF QuerySpec

-----------------------------------------------------------------------------
(***************************************************************************)
(* A walk through the pages of a search.  The property is inductive: a row *)
(* of the base that a page leaves out is no newer than the page's oldest.  *)
(***************************************************************************)

LEMMA NextPageMissesTies ==
    ASSUME QueryTypeOK, PagesMissOnlyTies, NEW c \in Client,
           NEW R \in SUBSET Matching(c), First(R, Matching(c)), R # {},
           walk' = NextWalk(c, R)
    PROVE  /\ \A i \in walk'.seen : logs[i].time >= walk'.before
           /\ \A i \in walk'.base \ walk'.seen :
                logs[i].time >= walk'.before => logs[i].time \in walk'.cuts
<1> DEFINE M == Matching(c)
           o == OldestOf(R)
<1>1. /\ M \in SUBSET DOMAIN logs /\ R \in SUBSET DOMAIN logs
      /\ walk.seen \in SUBSET DOMAIN logs /\ walk.base \in SUBSET DOMAIN logs
      /\ walk.before \in Int
  BY QueryAssumption DEF Matching, RowsOf, QueryTypeOK, Never
<1>2. \A i \in DOMAIN logs : logs[i].time \in Int
  BY LogRow
<1>3. /\ o \in Int
      /\ \E i \in R : logs[i].time = o
      /\ \A i \in R : o <= logs[i].time
  BY <1>1, OldestType
<1>4. R \subseteq M /\ \A i \in M : logs[i].time < walk.before
  BY DEF Matching
<1>5. /\ walk'.before = o /\ walk'.seen = walk.seen \cup R
      /\ walk'.base = IF walk = NoWalk THEN M ELSE walk.base \cap RowsOf(req[c].allowed)
      /\ walk'.cuts = walk.cuts \cup {o}
  BY DEF NextWalk
<1> HIDE DEF M, o
<1>6. o < walk.before
  BY <1>1, <1>2, <1>3, <1>4
<1>7. ASSUME NEW i \in walk'.seen PROVE logs[i].time >= walk'.before
  <2>1. CASE i \in R
    BY <1>1, <1>2, <1>3, <1>5, <2>1
  <2>2. CASE i \in walk.seen
    <3>1. logs[i].time >= walk.before
      BY <2>2 DEF PagesMissOnlyTies
    <3> QED
      BY <1>1, <1>2, <1>3, <1>5, <1>6, <2>2, <3>1
  <2> QED
    BY <1>5, <2>1, <2>2
<1>8. ASSUME NEW i \in M \ R, logs[i].time >= o PROVE logs[i].time = o
  <2>1. \A j \in R : logs[j].time >= logs[i].time
    BY <1>8 DEF First, M
  <2> QED
    BY <1>1, <1>2, <1>3, <1>8, <2>1
<1>9. ASSUME NEW i \in walk'.base \ walk'.seen, logs[i].time >= walk'.before
      PROVE  logs[i].time \in walk'.cuts
  <2>1. CASE i \in M
    BY <1>5, <1>8, <1>9, <2>1
  <2>2. CASE i \notin M
    <3>1. i \in walk.base /\ i \in RowsOf(req[c].allowed) /\ i \notin walk.seen
      BY <1>5, <1>9, <2>2
    <3>2. ~(logs[i].time < walk.before)
      BY <2>2, <3>1 DEF M, Matching
    <3>3. logs[i].time >= walk.before
      BY <1>1, <1>2, <3>1, <3>2
    <3> QED
      BY <1>5, <3>1, <3>3 DEF PagesMissOnlyTies
  <2> QED
    BY <2>1, <2>2
<1> QED
  BY <1>7, <1>9

LEMMA PagesStep ==
    ASSUME QueryTypeOK, PagesMissOnlyTies, [QueryNext]_qvars
    PROVE  PagesMissOnlyTies'
<1>1. LogsKept
  BY LogsStep
<1>2. walk' \in WalkOK(DOMAIN logs')
  BY WalkType
<1>3. CASE walk' = NoWalk
  BY <1>3 DEF PagesMissOnlyTies, NoWalk
<1>4. CASE walk' = walk
  <2>1. walk.seen \in SUBSET DOMAIN logs /\ walk.base \in SUBSET DOMAIN logs
    BY DEF QueryTypeOK
  <2> QED
    BY <1>1, <1>4, <2>1 DEF PagesMissOnlyTies, LogsKept
<1>5. ASSUME NEW c \in Client, ListLogs(c) PROVE PagesMissOnlyTies'
  <2>1. PICK R \in SUBSET Matching(c) : /\ First(R, Matching(c))
                                        /\ Answer(c, R)
                                        /\ walk' = NextWalk(c, R)
    BY <1>5, PageOf
  <2>2. logs' = logs
    BY <2>1 DEF Answer
  <2>3. CASE R = {}
    <3>1. walk' = NoWalk
      BY <2>1, <2>3 DEF NextWalk
    <3> QED
      BY <1>3, <3>1
  <2>4. CASE R # {}
    BY <2>1, <2>2, <2>4, NextPageMissesTies DEF PagesMissOnlyTies
  <2> QED
    BY <2>3, <2>4
<1> QED
  BY <1>3, <1>4, <1>5, WalkStep

\* Paging by the time of the last row shows no row twice and misses, of the
\* rows of the first page's search, only some of the very time a page ends at
\* (listLogs), whatever rows arrive between the pages.
THEOREM PagingMissesOnlyTies == QuerySpec => []PagesMissOnlyTies
<1>1. QueryInit => PagesMissOnlyTies
  BY DEF QueryInit, PagesMissOnlyTies, NoWalk
<1>2. QueryTypeOK /\ PagesMissOnlyTies /\ [QueryNext]_qvars => PagesMissOnlyTies'
  BY PagesStep
<1> QED
  BY <1>1, <1>2, QueryTypeCorrect, PTL DEF QuerySpec

-----------------------------------------------------------------------------
(***************************************************************************)
(* How a step changes a request.                                           *)
(***************************************************************************)

LEMMA RequestChange ==
    ASSUME QueryTypeOK, [QueryNext]_qvars, NEW d \in Client
    PROVE  \/ req'[d] = req[d]
           \/ req'[d] = Idle
           \/ Read(d) \/ AskService(d) \/ AskUser(d)
           \/ InsertUser(d) \/ InsertService(d) \/ Permit(d)
<1>1. req \in [Client -> Request]
  BY DEF QueryTypeOK
<1>2. ASSUME NEW c \in Client, Serve(c), c # d PROVE req'[d] = req[d]
  BY <1>1, <1>2, ServeRequest DEF SetRequest
<1>3. ASSUME Done(d) PROVE req'[d] = Idle
  BY <1>1, <1>3 DEF Done
<1>4. CASE Serve(d)
  BY <1>3, <1>4 DEF Serve, Login, CreateService, EmailExists, Commit, DatabaseFails,
     ListLogs, QueryWindow, QueryFails, Answer
<1>5. CASE Restart
  BY <1>5 DEF Restart
<1>6. CASE UNCHANGED req
  BY <1>6
<1> QED
  BY <1>2, <1>4, <1>5, <1>6 DEF QueryNext, Tick, Store, CreateAdmin, qvars

LEMMA ReadStep ==
    ASSUME QueryTypeOK, NEW c \in Client, Read(c)
    PROVE  /\ token[c] # NoToken /\ req'[c].by = token[c]
           /\ req'[c].pc = "permit" /\ UNCHANGED <<tables, token>>
<1>1. PICK op \in {"logs", "window"}, s \in Service \cup {All} :
        Enter(c, [pc |-> "permit", by |-> token[c], op |-> op, service |-> s])
  BY DEF Read
<1> QED
  BY <1>1 DEF Enter, Valid, QueryTypeOK

LEMMA AskServiceStep ==
    ASSUME QueryTypeOK, NEW c \in Client, AskService(c)
    PROVE  req'[c].pc = "service"
<1>1. PICK s \in Service : Enter(c, [pc |-> "service", by |-> token[c], name |-> s])
  BY DEF AskService
<1> QED
  BY <1>1 DEF Enter, QueryTypeOK

LEMMA AskUserStep ==
    ASSUME QueryTypeOK, NEW c \in Client, AskUser(c)
    PROVE  /\ req'[c].pc = "insert" /\ req'[c].granted = {}
           /\ req'[c].wanted = NamesOf(req'[c].names)
<1>1. PICK e \in Email, role \in Role,
           names \in {<<>>} \cup {<<s>> : s \in Service} \cup (Service \X Service) :
        Enter(c, [pc |-> "insert", email |-> e, role |-> role, names |-> names,
                  granted |-> {}, wanted |-> {names[i] : i \in DOMAIN names}])
  BY DEF AskUser
<1> QED
  BY <1>1 DEF Enter, NamesOf, QueryTypeOK

LEMMA InsertUserStep ==
    ASSUME QueryTypeOK, NEW c \in Client, InsertUser(c)
    PROVE  /\ req[c].pc = "insert" /\ ~Taken(req[c].email)
           /\ req' = [req EXCEPT ![c] = req'[c]]
           /\ req'[c].pc = "grant"
           /\ req'[c].email = req[c].email /\ req'[c].names = req[c].names
           /\ req'[c].granted = req[c].granted /\ req'[c].wanted = req[c].wanted
           /\ UNCHANGED <<services, users>>
<1>1. req \in [Client -> Request] /\ req[c] \in Inserting
  BY RequestShape DEF InsertUser, QueryTypeOK
<1>2. req' = [req EXCEPT ![c] = [req[c] EXCEPT !.pc = "grant"]]
  BY <1>1 DEF InsertUser
<1> QED
  BY <1>1, <1>2 DEF InsertUser, Inserting

LEMMA InsertServiceStep ==
    ASSUME QueryTypeOK, NEW c \in Client, InsertService(c), req'[c] # Idle
    PROVE  /\ req[c].pc = "grant" /\ req'[c].pc = "grant"
           /\ req[c].names \in Seq(Service) /\ req[c].names # <<>>
           /\ Head(req[c].names) \in services
           /\ req'[c].email = req[c].email
           /\ req'[c].names = Tail(req[c].names)
           /\ req'[c].granted = req[c].granted \cup {Head(req[c].names)}
           /\ req'[c].wanted = req[c].wanted
           /\ UNCHANGED <<services, users>>
<1>1. req \in [Client -> Request] /\ req[c] \in Inserting
  BY RequestShape DEF InsertService, QueryTypeOK
<1>2. ~Done(c)
  BY <1>1 DEF Done
<1>3. /\ Head(req[c].names) \in services
      /\ req' = [req EXCEPT ![c] = [req[c] EXCEPT !.names = Tail(@),
                                    !.granted = @ \cup {Head(req[c].names)}]]
  BY <1>2 DEF InsertService
<1> QED
  BY <1>1, <1>3 DEF InsertService, Inserting, tables

LEMMA PermitStep ==
    ASSUME QueryTypeOK, NEW c \in Client, Permit(c), req'[c] # Idle
    PROVE  /\ req[c].pc = "permit" /\ req'[c].pc = "query"
           /\ req'[c].by = req[c].by
           /\ req'[c].allowed \subseteq ServicesForUser(req[c].by)
           /\ UNCHANGED tables
<1>1. req \in [Client -> Request]
  BY DEF QueryTypeOK
<1>2. ~Done(c)
  BY <1>1 DEF Done
<1> QED
  BY <1>1, <1>2 DEF Permit

-----------------------------------------------------------------------------
(***************************************************************************)
(* Users are only added.  A transaction that has inserted a user holds the *)
(* email until it ends.                                                    *)
(***************************************************************************)

GrantInv ==
    \A c \in Client : req[c].pc = "grant" =>
        /\ users[req[c].email] = NoUser
        /\ \A d \in Client : req[d].pc = "grant" /\ req[d].email = req[c].email => d = c

\* What createUser has still to grant, and has granted, is what it was asked.
UserInv ==
    /\ \A e \in Email : /\ users[e].granted = users[e].wanted
                        /\ users[e].granted \subseteq services
    /\ \A c \in Client : req[c].pc \in {"insert", "grant"} =>
         /\ req[c].granted \cup NamesOf(req[c].names) = req[c].wanted
         /\ req[c].granted \subseteq services

\* Tokens and permissions are those of a user in the table.
Issued(t) == users[t.sub] # NoUser /\ users[t.sub].role = t.role

MaySee(t, S) ==
    /\ Issued(t)
    /\ S \subseteq services
    /\ t.role = "admin" \/ S \subseteq users[t.sub].granted

ServicesOf(rows) == {logs[i].service : i \in rows}

PermInv ==
    /\ \A c \in Client : token[c] # NoToken => Issued(token[c])
    /\ \A c \in Client : req[c].pc = "permit" => Issued(req[c].by)
    /\ \A c \in Client : req[c].pc = "query" => MaySee(req[c].by, req[c].allowed)
    /\ answer.rows # {} =>
         answer.by \in Token /\ MaySee(answer.by, ServicesOf(answer.rows))

LEMMA GrantChange ==
    ASSUME QueryTypeOK, [QueryNext]_qvars, NEW c \in Client, req'[c].pc = "grant"
    PROVE  /\ req'[c].email = req[c].email
           /\ req[c].pc = "grant" \/ InsertUser(c)
<1>1. Idle.pc = "idle"
  BY DEF Idle
<1>2. req'[c] # Idle
  BY <1>1
<1>3. ~Read(c) /\ ~AskService(c) /\ ~AskUser(c)
  BY ReadStep, AskServiceStep, AskUserStep
<1>4. CASE InsertUser(c)
  BY <1>4, InsertUserStep
<1>5. CASE InsertService(c)
  BY <1>2, <1>5, InsertServiceStep
<1>6. ~Permit(c)
  BY <1>2, PermitStep
<1> QED
  BY <1>2, <1>3, <1>4, <1>5, <1>6, RequestChange

LEMMA CommitStep ==
    ASSUME QueryTypeOK, NEW c \in Client, Commit(c)
    PROVE  /\ req[c].pc = "grant" /\ req'[c].pc = "idle" /\ req[c].email \in Email
           /\ users' = [users EXCEPT ![req[c].email] =
                          [role |-> req[c].role, granted |-> req[c].granted,
                           wanted |-> req[c].wanted]]
<1>1. req \in [Client -> Request] /\ req[c] \in Inserting
  BY RequestShape DEF Commit, QueryTypeOK
<1> QED
  BY <1>1 DEF Commit, Done, Idle, Inserting

\* Services and users are never changed or removed.
TablesKept ==
    /\ services \subseteq services'
    /\ \A e \in Email : users[e] # NoUser => users'[e] = users[e]

LEMMA TablesStep ==
    ASSUME QueryTypeOK, GrantInv, [QueryNext]_qvars
    PROVE  TablesKept
<1>1. users \in [Email -> Account \cup {NoUser}]
  BY DEF QueryTypeOK
<1>2. ASSUME NEW e \in Email, CreateAdmin(e), NEW f \in Email, users[f] # NoUser
      PROVE  users'[f] = users[f]
  BY <1>1, <1>2 DEF CreateAdmin, Taken
<1>3. ASSUME NEW c \in Client, Commit(c), NEW f \in Email, users[f] # NoUser
      PROVE  users'[f] = users[f]
  <2>1. users[req[c].email] = NoUser
    BY <1>3, CommitStep DEF GrantInv
  <2> QED
    BY <1>1, <1>3, <2>1, CommitStep
<1>4. \A f \in Email : users[f] # NoUser => users'[f] = users[f]
  BY <1>2, <1>3, UsersStep
<1> QED
  BY <1>4, ServicesStep DEF TablesKept

LEMMA GrantStep ==
    ASSUME QueryTypeOK, GrantInv, [QueryNext]_qvars
    PROVE  GrantInv'
<1>1. users \in [Email -> Account \cup {NoUser}]
  BY DEF QueryTypeOK
<1>2. ASSUME NEW c \in Client, req'[c].pc = "grant"
      PROVE  users'[req'[c].email] = NoUser
  <2>1. CASE InsertUser(c)
    BY <2>1, InsertUserStep DEF Taken
  <2>2. CASE req[c].pc = "grant"
    <3>1. req'[c].email = req[c].email /\ users[req[c].email] = NoUser
      BY <1>2, <2>2, GrantChange DEF GrantInv
    <3>2. ASSUME NEW e \in Email, CreateAdmin(e) PROVE users'[req[c].email] = NoUser
      <4>1. e # req[c].email
        BY <2>2, <3>2 DEF CreateAdmin, Taken
      <4> QED
        BY <1>1, <3>1, <3>2, <4>1 DEF CreateAdmin
    <3>3. ASSUME NEW d \in Client, Commit(d) PROVE users'[req[c].email] = NoUser
      <4>1. d # c /\ req[d].pc = "grant"
        BY <1>2, <3>3, CommitStep
      <4>2. req[d].email # req[c].email
        BY <2>2, <4>1 DEF GrantInv
      <4>3. req[c].email \in Email
        BY <2>2, RequestShape DEF QueryTypeOK, Inserting
      <4> QED
        BY <1>1, <3>1, <3>3, <4>2, <4>3, CommitStep
    <3> QED
      BY <3>1, <3>2, <3>3, UsersStep
  <2> QED
    BY <1>2, <2>1, <2>2, GrantChange
<1>3. ASSUME NEW c \in Client, NEW d \in Client, InsertUser(c),
             req'[d].pc = "grant", req'[d].email = req'[c].email
      PROVE  d = c
  <2>1. SUFFICES ASSUME d # c PROVE FALSE
    OBVIOUS
  <2>2. req'[d] = req[d]
    BY <1>3, <2>1, InsertUserStep DEF QueryTypeOK
  <2> QED
    BY <1>3, <2>2, InsertUserStep DEF Taken
<1>4. ASSUME NEW c \in Client, NEW d \in Client, req'[c].pc = "grant",
             req'[d].pc = "grant", req'[d].email = req'[c].email
      PROVE  d = c
  <2>1. CASE InsertUser(c)
    BY <1>3, <1>4, <2>1
  <2>2. CASE InsertUser(d)
    BY <1>3, <1>4, <2>2
  <2>3. CASE req[c].pc = "grant" /\ req[d].pc = "grant"
    BY <1>4, <2>3, GrantChange DEF GrantInv
  <2> QED
    BY <1>4, <2>1, <2>2, <2>3, GrantChange
<1> QED
  BY <1>2, <1>4 DEF GrantInv

-----------------------------------------------------------------------------
(***************************************************************************)
(* Users are complete.                                                     *)
(***************************************************************************)

LEMMA UserStep ==
    ASSUME QueryTypeOK, UserInv, [QueryNext]_qvars
    PROVE  UserInv'
<1>1. /\ users \in [Email -> Account \cup {NoUser}]
      /\ services \subseteq services'
  BY ServicesStep DEF QueryTypeOK
<1>2. ASSUME NEW e \in Email
      PROVE  users'[e].granted = users'[e].wanted /\ users'[e].granted \subseteq services'
  <2>1. CASE users' = users
    BY <1>1, <2>1 DEF UserInv
  <2>2. ASSUME NEW f \in Email, CreateAdmin(f)
        PROVE  users'[e].granted = users'[e].wanted /\ users'[e].granted \subseteq services'
    <3>1. users' = [users EXCEPT ![f] = [role |-> "admin", granted |-> {}, wanted |-> {}]]
      BY <2>2 DEF CreateAdmin
    <3> QED
      BY <1>1, <3>1 DEF UserInv
  <2>3. ASSUME NEW c \in Client, Commit(c)
        PROVE  users'[e].granted = users'[e].wanted /\ users'[e].granted \subseteq services'
    <3>1. /\ req[c].granted \cup NamesOf(req[c].names) = req[c].wanted
          /\ req[c].granted \subseteq services
      BY <2>3, CommitStep DEF UserInv
    <3>2. NamesOf(req[c].names) = {}
      BY <2>3 DEF Commit, NamesOf
    <3>3. req[c].granted = req[c].wanted
      BY <3>1, <3>2
    <3> DEFINE account == [role |-> req[c].role, granted |-> req[c].granted,
                            wanted |-> req[c].wanted]
    <3>4. users'[e] = users[e] \/ users'[e] = account
      BY <1>1, <2>3, CommitStep
    <3>5. account.granted = req[c].granted /\ account.wanted = req[c].wanted
      OBVIOUS
    <3> HIDE DEF account
    <3>6. users[e].granted = users[e].wanted /\ users[e].granted \subseteq services
      BY DEF UserInv
    <3>7. CASE users'[e] = users[e]
      BY <1>1, <3>6, <3>7
    <3>8. CASE users'[e] = account
      BY <1>1, <3>1, <3>3, <3>5, <3>8
    <3> QED
      BY <3>4, <3>7, <3>8
  <2> QED
    BY <2>1, <2>2, <2>3, UsersStep
<1>3. ASSUME NEW c \in Client, req'[c].pc \in {"insert", "grant"}
      PROVE  /\ req'[c].granted \cup NamesOf(req'[c].names) = req'[c].wanted
             /\ req'[c].granted \subseteq services'
  <2>1. req'[c] # Idle
    BY <1>3 DEF Idle
  <2>2. CASE req'[c] = req[c]
    BY <1>1, <1>3, <2>2 DEF UserInv
  <2>3. CASE AskUser(c)
    BY <2>3, AskUserStep
  <2>4. CASE InsertUser(c)
    BY <2>4, InsertUserStep DEF UserInv
  <2>5. CASE InsertService(c)
    <3>1. /\ req[c].granted \cup NamesOf(req[c].names) = req[c].wanted
          /\ req[c].granted \subseteq services
      BY <2>1, <2>5, InsertServiceStep DEF UserInv
    <3>2. NamesOf(req[c].names) = {Head(req[c].names)} \cup NamesOf(Tail(req[c].names))
      BY <2>1, <2>5, InsertServiceStep, NamesOfTail
    <3> QED
      BY <1>1, <2>1, <2>5, <3>1, <3>2, InsertServiceStep
  <2>6. ~Read(c) /\ ~AskService(c) /\ ~Permit(c)
    BY <1>3, <2>1, ReadStep, AskServiceStep, PermitStep
  <2> QED
    BY <2>1, <2>2, <2>3, <2>4, <2>5, <2>6, RequestChange
<1> QED
  BY <1>2, <1>3 DEF UserInv

LEMMA QueryInitially ==
    ASSUME QueryInit
    PROVE  GrantInv /\ UserInv /\ PermInv
<1>1. Idle.pc = "idle" /\ NoUser.granted = {} /\ NoUser.wanted = {}
  BY DEF Idle, NoUser
<1> QED
  BY <1>1 DEF QueryInit, GrantInv, UserInv, PermInv

\* createUser creates a user with all the permissions it was asked for or not
\* at all, for any number of concurrent requests, with the database failing
\* or the process restarting at any statement.
THEOREM UsersCreatedWhole == QuerySpec => []UserComplete
<1>1. QueryInit => UserInv
  BY QueryInitially
<1>2. QueryTypeOK /\ UserInv /\ [QueryNext]_qvars => UserInv'
  BY UserStep
<1>3. UserInv => UserComplete
  BY DEF UserInv, UserComplete
<1> QED
  BY <1>1, <1>2, <1>3, QueryTypeCorrect, PTL DEF QuerySpec

-----------------------------------------------------------------------------
(***************************************************************************)
(* Permissions.  What a token and a request hold was read from the tables  *)
(* some steps ago; it is still true as the tables only grow.               *)
(***************************************************************************)

LEMMA IssuedKept ==
    ASSUME TablesKept, NEW t \in Token, Issued(t)
    PROVE  Issued(t)' /\ users'[t.sub] = users[t.sub]
<1>1. t.sub \in Email
  BY DEF Token
<1>2. users'[t.sub] = users[t.sub]
  BY <1>1 DEF TablesKept, Issued
<1> QED
  BY <1>2 DEF Issued

LEMMA MaySeeKept ==
    ASSUME TablesKept, NEW t \in Token, NEW S, MaySee(t, S)
    PROVE  /\ users'[t.sub] # NoUser /\ users'[t.sub].role = t.role
           /\ S \subseteq services'
           /\ t.role = "admin" \/ S \subseteq users'[t.sub].granted
<1>1. Issued(t)' /\ users'[t.sub] = users[t.sub]
  BY IssuedKept DEF MaySee
<1> QED
  BY <1>1 DEF MaySee, Issued, TablesKept

\* ServicesForUser returns what the user may see.
LEMMA PermittedMaySee ==
    ASSUME QueryTypeOK, UserInv, NEW t \in Token, Issued(t)
    PROVE  MaySee(t, ServicesForUser(t))
<1>1. t.sub \in Email
  BY DEF Token
<1>2. users[t.sub].granted \subseteq services
  BY <1>1 DEF UserInv
<1> QED
  BY <1>2 DEF ServicesForUser, MaySee

LEMMA TokensIssued ==
    ASSUME QueryTypeOK, PermInv, TablesKept, [QueryNext]_qvars, NEW c \in Client,
           token'[c] # NoToken
    PROVE  Issued(token[c])'
<1>1. token \in [Client -> Token \cup {NoToken}]
  BY DEF QueryTypeOK
<1>2. CASE token'[c] = token[c]
  <2>1. token[c] \in Token /\ Issued(token[c])
    BY <1>1, <1>2 DEF PermInv
  <2>2. users'[token[c].sub] = users[token[c].sub]
    BY <2>1, IssuedKept
  <2> QED
    BY <1>2, <2>1, <2>2 DEF Issued
<1>3. ASSUME NEW d \in Client, NEW e \in Email, Login(d, e) PROVE Issued(token[c])'
  <2>1. CASE c # d
    <3>1. token'[c] = token[c]
      BY <1>1, <1>3, <2>1 DEF Login
    <3> QED
      BY <1>2, <3>1
  <2>2. CASE c = d
    <3>1. token'[c] = Sign(e) /\ users' = users /\ users[e] # NoUser
      BY <1>1, <1>3, <2>2 DEF Login, tables
    <3>2. token'[c].sub = e /\ token'[c].role = users[e].role
      BY <3>1 DEF Sign
    <3> QED
      BY <3>1, <3>2 DEF Issued
  <2> QED
    BY <2>1, <2>2
<1> QED
  BY <1>2, <1>3, TokenStep

LEMMA RequestsPermitted ==
    ASSUME QueryTypeOK, UserInv, PermInv, TablesKept, [QueryNext]_qvars, NEW c \in Client
    PROVE  /\ req'[c].pc = "permit" => Issued(req[c].by)'
           /\ req'[c].pc = "query" => MaySee(req[c].by, req[c].allowed)'
<1>1. req[c] \in Request /\ token[c] \in Token \cup {NoToken}
  BY DEF QueryTypeOK
<1>2. ASSUME req[c].pc \in {"permit", "query"} PROVE req[c].by \in Token
  BY <1>1, <1>2, RequestShape DEF Reading, Querying
<1>3. ASSUME req'[c].pc = "permit" PROVE Issued(req[c].by)'
  <2>1. req'[c] # Idle
    BY <1>3 DEF Idle
  <2>2. CASE req'[c] = req[c]
    <3>1. req[c].by \in Token /\ Issued(req[c].by)
      BY <1>2, <1>3, <2>2 DEF PermInv
    <3>2. users'[req[c].by.sub] = users[req[c].by.sub]
      BY <3>1, IssuedKept
    <3> QED
      BY <2>2, <3>1, <3>2 DEF Issued
  <2>3. CASE Read(c)
    <3>1. token[c] # NoToken /\ req'[c].by = token[c] /\ users' = users
      BY <2>3, ReadStep DEF tables
    <3>2. Issued(token[c])
      BY <3>1 DEF PermInv
    <3> QED
      BY <3>1, <3>2 DEF Issued
  <2>4. ~AskService(c) /\ ~AskUser(c) /\ ~InsertUser(c) /\ ~InsertService(c) /\ ~Permit(c)
    BY <1>3, <2>1, AskServiceStep, AskUserStep, InsertUserStep, InsertServiceStep, PermitStep
  <2> QED
    BY <2>1, <2>2, <2>3, <2>4, RequestChange
<1>4. ASSUME req'[c].pc = "query" PROVE MaySee(req[c].by, req[c].allowed)'
  <2>1. req'[c] # Idle
    BY <1>4 DEF Idle
  <2>2. CASE req'[c] = req[c]
    <3>1. req[c].by \in Token /\ MaySee(req[c].by, req[c].allowed)
      BY <1>2, <1>4, <2>2 DEF PermInv
    <3> QED
      BY <2>2, <3>1, MaySeeKept DEF MaySee, Issued
  <2>3. CASE Permit(c)
    <3>1. /\ req[c].pc = "permit" /\ req'[c].by = req[c].by
          /\ req'[c].allowed \subseteq ServicesForUser(req[c].by)
          /\ users' = users /\ services' = services
      BY <2>1, <2>3, PermitStep DEF tables
    <3>2. MaySee(req[c].by, ServicesForUser(req[c].by))
      BY <1>2, <3>1, PermittedMaySee DEF PermInv
    <3> QED
      BY <3>1, <3>2 DEF MaySee, Issued
  <2>4. ~Read(c) /\ ~AskService(c) /\ ~AskUser(c) /\ ~InsertUser(c) /\ ~InsertService(c)
    BY <1>4, <2>1, ReadStep, AskServiceStep, AskUserStep, InsertUserStep, InsertServiceStep
  <2> QED
    BY <2>1, <2>2, <2>3, <2>4, RequestChange
<1> QED
  BY <1>3, <1>4

LEMMA AnswerPermitted ==
    ASSUME QueryTypeOK, PermInv, TablesKept, [QueryNext]_qvars, answer'.rows # {}
    PROVE  answer'.by \in Token /\ MaySee(answer.by, ServicesOf(answer.rows))'
<1>1. CASE answer' = answer
  <2>1. answer.rows \in SUBSET DOMAIN logs
    BY DEF QueryTypeOK
  <2>2. answer.by \in Token /\ MaySee(answer.by, ServicesOf(answer.rows))
    BY <1>1 DEF PermInv
  <2>3. \A i \in answer.rows : logs'[i] = logs[i]
    BY <2>1, LogsStep DEF LogsKept
  <2>4. ServicesOf(answer.rows)' = ServicesOf(answer.rows)
    BY <1>1, <2>3 DEF ServicesOf
  <2> QED
    BY <1>1, <2>2, <2>4, MaySeeKept DEF MaySee, Issued
<1>2. ASSUME NEW c \in Client, NEW R \in SUBSET RowsOf(req[c].allowed),
             req[c].pc = "query", Answer(c, R)
      PROVE  answer'.by \in Token /\ MaySee(answer.by, ServicesOf(answer.rows))'
  <2>1. /\ answer'.by = req[c].by /\ answer'.rows = R
        /\ users' = users /\ services' = services /\ logs' = logs
    BY <1>2 DEF Answer, tables
  <2>2. req[c].by \in Token /\ MaySee(req[c].by, req[c].allowed)
    BY <1>2, RequestShape DEF PermInv, QueryTypeOK, Querying
  <2>3. ServicesOf(R) \subseteq req[c].allowed
    BY DEF ServicesOf, RowsOf
  <2> QED
    BY <2>1, <2>2, <2>3 DEF MaySee, Issued, ServicesOf
<1> QED
  BY <1>1, <1>2, AnswerStep

LEMMA PermStep ==
    ASSUME QueryTypeOK, GrantInv, UserInv, PermInv, [QueryNext]_qvars
    PROVE  PermInv'
<1>1. TablesKept
  BY TablesStep
<1> QED
  BY <1>1, TokensIssued, RequestsPermitted, AnswerPermitted DEF PermInv

\* The rows of an answer are of services the requesting user may see, for any
\* interleaving of searches with logins and administration: the permissions
\* are read one statement before the log table, and a token outlives many.
THEOREM AnswersStayInScope == QuerySpec => []ScopedRows
<1>1. QueryInit => GrantInv /\ UserInv /\ PermInv
  BY QueryInitially
<1>2. /\ QueryTypeOK /\ GrantInv /\ UserInv /\ PermInv
      /\ [QueryNext]_qvars
      => GrantInv' /\ UserInv' /\ PermInv'
  BY GrantStep, UserStep, PermStep
<1>3. PermInv => ScopedRows
  BY DEF PermInv, ScopedRows, MaySee, Issued, ServicesOf
<1> QED
  BY <1>1, <1>2, <1>3, QueryTypeCorrect, PTL DEF QuerySpec

\* No handler changes or removes a service or a user there is (createService,
\* createUser and create-admin only insert): a permission read before another
\* request's commit is not stale when it is used after it.
THEOREM TablesOnlyGrow == QuerySpec => [][TablesKept]_qvars
<1>1. QueryInit => GrantInv
  BY QueryInitially
<1>2. QueryTypeOK /\ GrantInv /\ [QueryNext]_qvars => GrantInv'
  BY GrantStep
<1>3. QueryTypeOK /\ GrantInv /\ [QueryNext]_qvars => TablesKept
  BY TablesStep
<1> QED
  BY <1>1, <1>2, <1>3, QueryTypeCorrect, PTL DEF QuerySpec
=============================================================================
