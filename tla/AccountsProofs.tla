--------------------------- MODULE AccountsProofs ---------------------------
(***************************************************************************)
(* Proofs about module Accounts, for every set of connections, names and   *)
(* passwords and any number of rows and requests.                          *)
(***************************************************************************)
EXTENDS Accounts, TLAPS

(* The types the argument needs. *)
Types ==
  /\ users \in [Id -> Row \cup {Absent}]
  /\ last_id \in Id
  /\ name_to_uid \in [Name -> Id \cup {0}]
  /\ uid_to_username \in [Id -> Name \cup {Absent}]
  /\ at \in [Conn -> Places]
  /\ job \in [Conn -> Job]
  /\ session \in [Conn -> [id : Id \cup {0}, name : Name \cup {Absent},
                           role : Role \cup {Absent}]]
  /\ held \in [Id -> SUBSET Identity]
  /\ had \in [Id -> SUBSET Name]

(* The name of a row is among the names it had. *)
RowsHad == \A i \in Id : Exists(i) => users[i].name \in had[i]

(* An id that was never given out never had a name. *)
FreshIds == \A i \in Id : i > last_id => had[i] = {}

(* A name and an id that a handler is about to put into a cache or a       *)
(* session belong together; an update has an id.                           *)
JobsHad ==
  \A c \in Conn :
    /\ at[c] = "updating" => job[c].id \in Id
    /\ at[c] \in {"entering", "caching", "renaming"} =>
         /\ job[c].id \in Id
         /\ job[c].name \in Name
         /\ job[c].name \in had[job[c].id]

(* What caches and sessions hold. *)
NamesHad == \A n \in Name : name_to_uid[n] # 0 => n \in had[name_to_uid[n]]
UidsHad == \A i \in Id : uid_to_username[i] # Absent => uid_to_username[i] \in had[i]
SessionsHad == \A c \in Conn : logged_in(c) => session[c].name \in had[session[c].id]

(* The inductive invariant of the names.  Those of the caches alone are    *)
(* not inductive: what a handler read from the table before it fills a     *)
(* cache must still be a name of that id, and an insert must not meet an   *)
(* id already cached.                                                      *)
AccountsInv == /\ Types
               /\ RowsHad /\ FreshIds /\ JobsHad
               /\ NamesHad /\ UidsHad /\ SessionsHad

-----------------------------------------------------------------------------
(* No step takes a name away from an id's history. *)
HadGrows == \A i \in Id : had[i] \subseteq had'[i]

(* The names an id had, after a step on the table. *)
LEMMA HadStays == ASSUME held' = held PROVE had' = had
BY DEF had

LEMMA HadMoves ==
  ASSUME held \in [Id -> SUBSET Identity], NEW i \in Id, NEW S \in SUBSET Identity,
         held' = [held EXCEPT ![i] = S]
  PROVE  /\ held' \in [Id -> SUBSET Identity]
         /\ had' = [had EXCEPT ![i] = {h.name : h \in S}]
<1>1. held' \in [Id -> SUBSET Identity]
  OBVIOUS
<1>2. ASSUME NEW k \in Id
      PROVE had'[k] = [had EXCEPT ![i] = {h.name : h \in S}][k]
  <2>1. CASE k = i
    BY <2>1 DEF had
  <2>2. CASE k # i
    BY <2>2 DEF had
  <2> QED
    BY <2>1, <2>2
<1>3. DOMAIN had' = Id /\ DOMAIN [had EXCEPT ![i] = {h.name : h \in S}] = Id
  BY DEF had
<1>4. had' = [k \in Id |-> had'[k]]
  BY <1>3 DEF had
<1>5. [had EXCEPT ![i] = {h.name : h \in S}]
        = [k \in Id |-> [had EXCEPT ![i] = {h.name : h \in S}][k]]
  BY DEF had
<1> QED
  BY <1>1, <1>2, <1>4, <1>5

(* The invariant holds initially. *)
LEMMA InitInv == Init => AccountsInv
<1> SUFFICES ASSUME Init PROVE AccountsInv
  OBVIOUS
<1> USE AccountsAssumption DEF Init
<1>1. 1 \in Id
  BY DEF Id
<1>2. Types
  <2>1. held \in [Id -> SUBSET Identity]
    BY <1>1 DEF Identity, Role
  <2>2. had \in [Id -> SUBSET Name]
    BY <2>1 DEF had, Identity
  <2> QED
    BY <1>1, <2>1, <2>2 DEF Types, Row, Role, Places, Job, NoJob, NoSession, Id
<1>3. RowsHad /\ FreshIds
  <2>1. had[1] = {Root}
    BY <1>1 DEF had
  <2>2. \A i \in Id : i > 1 => had[i] = {}
    BY DEF had, Id
  <2> QED
    BY <1>1, <2>1, <2>2 DEF RowsHad, FreshIds, Exists, Id
<1>4. JobsHad /\ NamesHad /\ UidsHad /\ SessionsHad
  BY DEF JobsHad, NamesHad, UidsHad, SessionsHad, logged_in, NoSession
<1> QED
  BY <1>2, <1>3, <1>4 DEF AccountsInv

(* An insert gives a fresh id its first name. *)
LEMMA InsertKeeps ==
  ASSUME AccountsInv, NEW n \in Name, NEW p \in Pw, NEW r \in Role, Insert(n, p, r)
  PROVE /\ last_id' \in Id /\ n \in had'[last_id']
        /\ users' \in [Id -> Row \cup {Absent}]
        /\ held' \in [Id -> SUBSET Identity] /\ had' \in [Id -> SUBSET Name]
        /\ HadGrows /\ RowsHad' /\ FreshIds'
<1> USE AccountsAssumption DEF Insert
<1>1. last_id' \in Id /\ last_id' = last_id + 1 /\ last_id' > last_id
  BY DEF AccountsInv, Types, Id
<1>2. users' = [users EXCEPT ![last_id'] = [name |-> n, pw |-> p, role |-> r]]
  BY <1>1
<1>3. held' \in [Id -> SUBSET Identity] /\ had' = [had EXCEPT ![last_id'] = {n}]
  <2> DEFINE S == {[name |-> n, role |-> r]}
  <2>1. S \in SUBSET Identity /\ {h.name : h \in S} = {n}
    BY DEF Identity
  <2>2. held' = [held EXCEPT ![last_id'] = S]
    BY <1>1
  <2>3. held \in [Id -> SUBSET Identity]
    BY DEF AccountsInv, Types
  <2> HIDE DEF S
  <2> QED
    BY <1>1, <2>1, <2>2, <2>3, HadMoves
<1>4. users' \in [Id -> Row \cup {Absent}]
  BY <1>1, <1>2 DEF AccountsInv, Types, Row
<1>5. had' \in [Id -> SUBSET Name]
  BY <1>1, <1>3 DEF AccountsInv, Types
<1>6. HadGrows
  BY <1>1, <1>3 DEF AccountsInv, Types, FreshIds, HadGrows
<1>7. RowsHad'
  BY <1>1, <1>2, <1>3 DEF AccountsInv, Types, RowsHad, Exists
<1>8. FreshIds'
  <2>1. ASSUME NEW i \in Id, i > last_id' PROVE had'[i] = {}
    <3>1. i > last_id /\ i # last_id'
      BY <1>1, <2>1 DEF AccountsInv, Types, Id
    <3>2. had[i] = {}
      BY <3>1 DEF AccountsInv, FreshIds
    <3> QED
      BY <1>3, <3>1, <3>2 DEF AccountsInv, Types
  <2> QED
    BY <2>1 DEF FreshIds
<1>9. n \in had'[last_id']
  BY <1>1, <1>3 DEF AccountsInv, Types
<1> QED
  BY <1>1, <1>3, <1>4, <1>5, <1>6, <1>7, <1>8, <1>9

(* What was a name of an id stays one while the caches stand. *)
LEMMA CachesKeep ==
  ASSUME AccountsInv, HadGrows, UNCHANGED caches
  PROVE NamesHad' /\ UidsHad'
BY DEF AccountsInv, Types, HadGrows, caches, NamesHad, UidsHad, Id

LEMMA SessionsKeep ==
  ASSUME AccountsInv, HadGrows, UNCHANGED session
  PROVE SessionsHad'
BY DEF AccountsInv, Types, HadGrows, SessionsHad, logged_in, Id

(* A handler moves to a place with a job that may stand there. *)
LEMMA GotoKeeps ==
  ASSUME AccountsInv, HadGrows, NEW c \in Conn, NEW place \in Places, NEW j \in Job,
         Goto(c, place, j),
         place = "updating" => j.id \in Id,
         place \in {"entering", "caching", "renaming"} =>
           j.id \in Id /\ j.name \in Name /\ j.name \in had'[j.id]
  PROVE at' \in [Conn -> Places] /\ job' \in [Conn -> Job] /\ JobsHad'
<1>1. at' \in [Conn -> Places] /\ job' \in [Conn -> Job]
  BY DEF Goto, AccountsInv, Types
<1>2. ASSUME NEW d \in Conn, at'[d] \in {"entering", "caching", "renaming"}
      PROVE job'[d].id \in Id /\ job'[d].name \in Name /\ job'[d].name \in had'[job'[d].id]
  <2>1. CASE d = c
    BY <1>2, <2>1 DEF Goto, AccountsInv, Types
  <2>2. CASE d # c
    <3>1. at'[d] = at[d] /\ job'[d] = job[d]
      BY <2>2 DEF Goto, AccountsInv, Types
    <3>2. job[d].id \in Id /\ job[d].name \in Name /\ job[d].name \in had[job[d].id]
      BY <1>2, <3>1 DEF AccountsInv, JobsHad
    <3> QED
      BY <3>1, <3>2 DEF HadGrows
  <2> QED
    BY <2>1, <2>2
<1>3. ASSUME NEW d \in Conn, at'[d] = "updating" PROVE job'[d].id \in Id
  BY <1>3 DEF Goto, AccountsInv, Types, JobsHad
<1>4. JobsHad'
  BY <1>2, <1>3 DEF JobsHad
<1> QED
  BY <1>1, <1>4

(* NoJob may stand anywhere a handler ends. *)
LEMMA NoJobTypes == NoJob \in Job /\ "reading" \in Places
BY DEF NoJob, Job, Places

(* Steps that leave the table alone. *)
LEMMA TableKeeps ==
  ASSUME AccountsInv, UNCHANGED table
  PROVE /\ users' \in [Id -> Row \cup {Absent}] /\ last_id' \in Id
        /\ held' \in [Id -> SUBSET Identity] /\ had' \in [Id -> SUBSET Name]
        /\ HadGrows /\ RowsHad' /\ FreshIds' /\ had' = had
<1>1. held' = held /\ had' = had
  BY HadStays DEF table
<1> QED
  BY <1>1 DEF AccountsInv, Types, table, HadGrows, RowsHad, FreshIds, Exists

-----------------------------------------------------------------------------
(* LOGIN. *)
LEMMA AuthenticateInv ==
  ASSUME AccountsInv, NEW c \in Conn, NEW n \in Name, NEW p \in Pw, NEW r \in Role,
         Authenticate(c, n, p, r)
  PROVE AccountsInv'
<1> DEFINE J(i) == [NoJob EXCEPT !.id = i, !.name = n, !.role = r]
<1>1. ASSUME NEW i \in Id PROVE J(i) \in Job /\ J(i).id = i /\ J(i).name = n
  BY <1>1 DEF NoJob, Job
<1>2. /\ users' \in [Id -> Row \cup {Absent}] /\ last_id' \in Id
      /\ held' \in [Id -> SUBSET Identity] /\ had' \in [Id -> SUBSET Name]
      /\ HadGrows /\ RowsHad' /\ FreshIds'
      /\ \E i \in Id : n \in had'[i] /\ Goto(c, "entering", J(i))
  <2>1. CASE UNCHANGED table /\ \E i \in IdsNamed(n) : Goto(c, "entering", J(i))
    <3>1. PICK i \in IdsNamed(n) : Goto(c, "entering", J(i))
      BY <2>1
    <3>2. i \in Id /\ n \in had'[i]
      BY <2>1, <3>1, TableKeeps DEF IdsNamed, AccountsInv, RowsHad
    <3> QED
      BY <2>1, <3>1, <3>2, TableKeeps
  <2>2. CASE Insert(n, p, r) /\ Goto(c, "entering", J(last_id'))
    BY <2>2, InsertKeeps
  <2> QED
    BY <2>1, <2>2 DEF Authenticate
<1>3. PICK i \in Id : n \in had'[i] /\ Goto(c, "entering", J(i))
  BY <1>2
<1>4. at' \in [Conn -> Places] /\ job' \in [Conn -> Job] /\ JobsHad'
  <2>1. "entering" \in Places
    BY DEF Places
  <2> QED
    BY <1>1, <1>2, <1>3, <2>1, GotoKeeps
<1>5. UNCHANGED caches /\ UNCHANGED session
  BY DEF Authenticate
<1>6. NamesHad' /\ UidsHad' /\ SessionsHad'
  BY <1>2, <1>5, CachesKeep, SessionsKeep
<1>7. Types'
  BY <1>2, <1>4, <1>5 DEF AccountsInv, Types, caches
<1> QED
  BY <1>2, <1>4, <1>6, <1>7 DEF AccountsInv

LEMMA EnterTablesInv ==
  ASSUME AccountsInv, NEW c \in Conn, EnterTables(c)
  PROVE AccountsInv'
<1> DEFINE i == job[c].id
           n == job[c].name
<1>1. i \in Id /\ n \in Name /\ n \in had[i]
  BY DEF EnterTables, AccountsInv, JobsHad
<1>2. UNCHANGED table
  BY DEF EnterTables
<1>3. /\ users' \in [Id -> Row \cup {Absent}] /\ last_id' \in Id
      /\ held' \in [Id -> SUBSET Identity] /\ had' \in [Id -> SUBSET Name]
      /\ HadGrows /\ RowsHad' /\ FreshIds' /\ had' = had
  BY <1>2, TableKeeps
<1>4. at' \in [Conn -> Places] /\ job' \in [Conn -> Job] /\ JobsHad'
  BY <1>3, GotoKeeps, NoJobTypes DEF EnterTables
<1>5. name_to_uid' \in [Name -> Id \cup {0}] /\ NamesHad'
  BY <1>1, <1>3 DEF EnterTables, AccountsInv, Types, NamesHad
<1>6. uid_to_username' \in [Id -> Name \cup {Absent}] /\ UidsHad'
  BY <1>1, <1>3 DEF EnterTables, AccountsInv, Types, UidsHad
<1>7. /\ session' \in [Conn -> [id : Id \cup {0}, name : Name \cup {Absent},
                             role : Role \cup {Absent}]]
      /\ SessionsHad'
  <2> DEFINE s == [id |-> job[c].id, name |-> job[c].name, role |-> job[c].role]
  <2>1. session' = [session EXCEPT ![c] = s]
    BY DEF EnterTables
  <2>2. s \in [id : Id \cup {0}, name : Name \cup {Absent}, role : Role \cup {Absent}]
    BY <1>1 DEF AccountsInv, Types, Job
  <2> QED
    BY <1>1, <1>3, <2>1, <2>2 DEF AccountsInv, Types, SessionsHad, logged_in
<1>8. Types'
  BY <1>3, <1>4, <1>5, <1>6, <1>7 DEF Types
<1> QED
  BY <1>3, <1>4, <1>5, <1>6, <1>7, <1>8 DEF AccountsInv

(* A session ends. *)
LEMMA LeaveInv ==
  ASSUME AccountsInv, NEW c \in Conn, Leave(c)
  PROVE AccountsInv'
<1>1. UNCHANGED table /\ UNCHANGED caches /\ UNCHANGED <<at, job>>
  BY DEF Leave
<1>2. session' = [session EXCEPT ![c] = NoSession]
  BY DEF Leave
<1>3. /\ users' \in [Id -> Row \cup {Absent}] /\ last_id' \in Id
      /\ held' \in [Id -> SUBSET Identity] /\ had' \in [Id -> SUBSET Name]
      /\ HadGrows /\ RowsHad' /\ FreshIds' /\ had' = had
  BY <1>1, TableKeeps
<1>4. SessionsHad'
  BY <1>2, <1>3 DEF AccountsInv, Types, SessionsHad, logged_in, NoSession
<1>5. Types'
  BY <1>1, <1>2, <1>3 DEF AccountsInv, Types, NoSession, caches, Role
<1>6. JobsHad' /\ NamesHad' /\ UidsHad'
  BY <1>1, <1>3, CachesKeep DEF AccountsInv, JobsHad
<1> QED
  BY <1>3, <1>4, <1>5, <1>6 DEF AccountsInv

-----------------------------------------------------------------------------
(* A step that changes neither the table nor the caches nor a session, and *)
(* leads its handler to a place with a job that may stand there.           *)
LEMMA MoveInv ==
  ASSUME AccountsInv, NEW c \in Conn, NEW place \in Places, NEW j \in Job,
         Goto(c, place, j), UNCHANGED table, UNCHANGED caches, UNCHANGED session,
         place = "updating" => j.id \in Id,
         place \in {"entering", "caching", "renaming"} =>
           j.id \in Id /\ j.name \in Name /\ j.name \in had[j.id]
  PROVE AccountsInv'
<1>1. /\ users' \in [Id -> Row \cup {Absent}] /\ last_id' \in Id
      /\ held' \in [Id -> SUBSET Identity] /\ had' \in [Id -> SUBSET Name]
      /\ HadGrows /\ RowsHad' /\ FreshIds' /\ had' = had
  BY TableKeeps
<1>2. at' \in [Conn -> Places] /\ job' \in [Conn -> Job] /\ JobsHad'
  BY <1>1, GotoKeeps
<1>3. NamesHad' /\ UidsHad' /\ SessionsHad'
  BY <1>1, CachesKeep, SessionsKeep
<1>4. Types'
  BY <1>1, <1>2 DEF AccountsInv, Types, caches
<1> QED
  BY <1>1, <1>2, <1>3, <1>4 DEF AccountsInv

(* DATA: resolving the addressee. *)
LEMMA LookUpInv ==
  ASSUME AccountsInv, NEW c \in Conn, NEW n \in Name, LookUp(c, n)
  PROVE AccountsInv'
<1>1. CASE name_to_uid[n] # 0
  <2> DEFINE j == [NoJob EXCEPT !.id = name_to_uid[n], !.name = n]
  <2>1. j \in Job /\ "delivering" \in Places
    BY DEF AccountsInv, Types, Job, NoJob, Places
  <2>2. Goto(c, "delivering", j) /\ UNCHANGED table /\ UNCHANGED caches /\ UNCHANGED session
    BY <1>1 DEF LookUp
  <2> QED
    BY <2>1, <2>2, MoveInv
<1>2. CASE name_to_uid[n] = 0
  <2> DEFINE j == [NoJob EXCEPT !.name = n]
  <2>1. j \in Job /\ "querying" \in Places
    BY DEF Job, NoJob, Places
  <2>2. Goto(c, "querying", j) /\ UNCHANGED table /\ UNCHANGED caches /\ UNCHANGED session
    BY <1>2 DEF LookUp
  <2> QED
    BY <2>1, <2>2, MoveInv
<1> QED
  BY <1>1, <1>2

LEMMA QueryInv ==
  ASSUME AccountsInv, NEW c \in Conn, user_id_by_username(c)
  PROVE AccountsInv'
<1>1. UNCHANGED table /\ UNCHANGED caches /\ UNCHANGED session
  BY DEF user_id_by_username
<1>2. CASE IdsNamed(job[c].name) = {}
  BY <1>1, <1>2, MoveInv, NoJobTypes DEF user_id_by_username
<1>3. CASE IdsNamed(job[c].name) # {}
  <2>1. PICK i \in IdsNamed(job[c].name) : Goto(c, "caching", [job[c] EXCEPT !.id = i])
    BY <1>3 DEF user_id_by_username
  <2> DEFINE j == [job[c] EXCEPT !.id = i]
  <2>2. i \in Id /\ users[i] \in Row /\ users[i].name = job[c].name
    BY <2>1 DEF IdsNamed, Exists, AccountsInv, Types
  <2>3. job[c].name \in had[i]
    BY <2>1, <2>2 DEF IdsNamed, AccountsInv, RowsHad
  <2>4. j \in Job /\ j.id = i /\ j.name = job[c].name /\ "caching" \in Places
    BY <2>2 DEF AccountsInv, Types, Job, Places
  <2>5. j.name \in Name
    BY <2>2, <2>4 DEF Row
  <2> QED
    BY <1>1, <2>1, <2>2, <2>3, <2>4, <2>5, MoveInv
<1> QED
  BY <1>2, <1>3

LEMMA CacheUidInv ==
  ASSUME AccountsInv, NEW c \in Conn, CacheUid(c)
  PROVE AccountsInv'
<1>1. job[c].id \in Id /\ job[c].name \in Name /\ job[c].name \in had[job[c].id]
  BY DEF CacheUid, AccountsInv, JobsHad
<1>2. UNCHANGED table /\ UNCHANGED session /\ uid_to_username' = uid_to_username
  BY DEF CacheUid
<1>3. /\ users' \in [Id -> Row \cup {Absent}] /\ last_id' \in Id
      /\ held' \in [Id -> SUBSET Identity] /\ had' \in [Id -> SUBSET Name]
      /\ HadGrows /\ RowsHad' /\ FreshIds' /\ had' = had
  BY <1>2, TableKeeps
<1>4. at' \in [Conn -> Places] /\ job' \in [Conn -> Job] /\ JobsHad'
  <2>1. job[c] \in Job /\ "delivering" \in Places
    BY DEF AccountsInv, Types, Places
  <2> QED
    BY <1>3, <2>1, GotoKeeps DEF CacheUid
<1>5. name_to_uid' \in [Name -> Id \cup {0}] /\ NamesHad'
  BY <1>1, <1>3 DEF CacheUid, AccountsInv, Types, NamesHad
<1>6. UidsHad' /\ SessionsHad'
  BY <1>2, <1>3, SessionsKeep DEF AccountsInv, UidsHad
<1>7. Types'
  BY <1>2, <1>3, <1>4, <1>5 DEF AccountsInv, Types
<1> QED
  BY <1>3, <1>4, <1>5, <1>6, <1>7 DEF AccountsInv

-----------------------------------------------------------------------------
(* CONTROL of the users table. *)
LEMMA AddInv ==
  ASSUME AccountsInv, NEW c \in Conn, NEW n \in Name, NEW p \in Pw, NEW r \in Role,
         user_table_add(c, n, p, r)
  PROVE AccountsInv'
<1>1. Insert(n, p, r) /\ UNCHANGED caches /\ UNCHANGED session /\ UNCHANGED <<at, job>>
  BY DEF user_table_add
<1>2. /\ users' \in [Id -> Row \cup {Absent}] /\ last_id' \in Id
      /\ held' \in [Id -> SUBSET Identity] /\ had' \in [Id -> SUBSET Name]
      /\ HadGrows /\ RowsHad' /\ FreshIds'
  BY <1>1, InsertKeeps
<1>3. NamesHad' /\ UidsHad' /\ SessionsHad'
  BY <1>1, <1>2, CachesKeep, SessionsKeep
<1>4. JobsHad'
  BY <1>1, <1>2 DEF AccountsInv, JobsHad, HadGrows
<1>5. Types'
  BY <1>1, <1>2 DEF AccountsInv, Types, caches
<1> QED
  BY <1>2, <1>3, <1>4, <1>5 DEF AccountsInv

LEMMA BeginUpdateInv ==
  ASSUME AccountsInv, NEW c \in Conn, NEW i \in Id, NEW n \in Name \cup {Absent},
         NEW p \in Pw \cup {Absent}, NEW r \in Role \cup {Absent},
         user_table_update(c, i, n, p, r)
  PROVE AccountsInv'
<1> DEFINE j == [id |-> i, name |-> n, old |-> users[i].name, pw |-> p, role |-> r]
<1>1. users[i] \in Row
  BY DEF user_table_update, Exists, AccountsInv, Types
<1>2. j \in Job /\ "updating" \in Places
  BY <1>1 DEF Job, Row, Places
<1> QED
  BY <1>2, MoveInv DEF user_table_update

LEMMA UpdateInv ==
  ASSUME AccountsInv, NEW c \in Conn, admin_update_user(c)
  PROVE AccountsInv'
<1> DEFINE j == job[c]
<1>1. j \in Job
  BY DEF AccountsInv, Types
<1>2. users' = [users EXCEPT ![j.id] = Updated(j)] /\ last_id' = last_id
  BY DEF admin_update_user
<1>3. j.id \in Id
  BY DEF admin_update_user, AccountsInv, JobsHad
<1>4. ASSUME j.id \in Id, Exists(j.id) PROVE Updated(j) \in Row
  <2>1. users[j.id] \in Row
    BY <1>4 DEF Exists, AccountsInv, Types
  <2> QED
    BY <1>1, <2>1 DEF Updated, Row, Job
<1>5. ASSUME j.id \in Id, ~Exists(j.id) PROVE Updated(j) = users[j.id]
  BY <1>5 DEF Updated, NameDone
<1>6. users' \in [Id -> Row \cup {Absent}] /\ last_id' \in Id
  BY <1>2, <1>4, <1>5 DEF Exists, AccountsInv, Types
<1>7. /\ held' \in [Id -> SUBSET Identity] /\ had' \in [Id -> SUBSET Name]
      /\ Exists(j.id) => had' = [had EXCEPT ![j.id] = had[j.id] \cup {Updated(j).name}]
      /\ ~Exists(j.id) => had' = had
  <2>0. held \in [Id -> SUBSET Identity] /\ had \in [Id -> SUBSET Name]
    BY DEF AccountsInv, Types
  <2>1. CASE Exists(j.id)
    <3> DEFINE w == WhoIs(Updated(j))
               S == held[j.id] \cup {w}
    <3>1. held' = [held EXCEPT ![j.id] = S]
      BY <2>1 DEF admin_update_user
    <3>2. w \in Identity /\ w.name = Updated(j).name /\ w.name \in Name
      BY <1>3, <1>4, <2>1 DEF WhoIs, Identity, Row
    <3> HIDE DEF w
    <3>3. S \in SUBSET Identity
      BY <1>3, <2>0, <3>2
    <3>4. {h.name : h \in S} = had[j.id] \cup {w.name}
      BY <1>3 DEF had
    <3> HIDE DEF S
    <3>5. held' \in [Id -> SUBSET Identity] /\ had' = [had EXCEPT ![j.id] = {h.name : h \in S}]
      BY <1>3, <2>0, <3>1, <3>3, HadMoves
    <3> QED
      BY <1>3, <2>0, <2>1, <3>2, <3>4, <3>5
  <2>2. CASE ~Exists(j.id)
    <3>1. held' = held
      BY <2>0, <2>2 DEF admin_update_user
    <3> QED
      BY <2>0, <2>2, <3>1, HadStays
  <2> QED
    BY <2>1, <2>2
<1>8. HadGrows
  BY <1>3, <1>7 DEF HadGrows, AccountsInv, Types
<1>9. RowsHad'
  <2>1. ASSUME NEW i \in Id, users'[i] # Absent PROVE users'[i].name \in had'[i]
    <3>1. CASE i # j.id
      BY <1>2, <1>3, <1>7, <2>1, <3>1 DEF AccountsInv, Types, RowsHad, Exists
    <3>2. CASE i = j.id /\ Exists(i)
      BY <1>2, <1>3, <1>7, <3>2 DEF AccountsInv, Types
    <3>3. CASE i = j.id /\ ~Exists(i)
      BY <1>2, <1>5, <2>1, <3>3 DEF AccountsInv, Types, Exists
    <3> QED
      BY <3>1, <3>2, <3>3
  <2> QED
    BY <2>1 DEF RowsHad, Exists
<1>10. FreshIds'
  <2>1. ASSUME NEW i \in Id, i > last_id' PROVE had'[i] = {}
    <3>1. had[i] = {}
      BY <1>2, <2>1 DEF AccountsInv, FreshIds
    <3>2. ~Exists(i)
      BY <3>1 DEF AccountsInv, RowsHad
    <3> QED
      BY <1>3, <1>7, <3>1, <3>2 DEF AccountsInv, Types
  <2> QED
    BY <2>1 DEF FreshIds
<1>11. at' \in [Conn -> Places] /\ job' \in [Conn -> Job] /\ JobsHad'
  <2>1. CASE Recaches(j)
    <3>1. NameDone(j) /\ j.name # Absent
      BY <2>1 DEF Recaches, RoleDone, PwDone
    <3>3. Updated(j).name = j.name
      BY <3>1 DEF Updated
    <3>4. j.name \in Name /\ j.name \in had'[j.id]
      BY <1>1, <1>3, <1>7, <3>1, <3>3 DEF NameDone, Job, AccountsInv, Types
    <3>5. Goto(c, "renaming", j) /\ "renaming" \in Places
      BY <2>1 DEF admin_update_user, Places
    <3> QED
      BY <1>1, <1>3, <1>8, <3>4, <3>5, GotoKeeps
  <2>2. CASE ~Recaches(j)
    BY <1>8, <2>2, GotoKeeps, NoJobTypes DEF admin_update_user
  <2> QED
    BY <2>1, <2>2
<1>12. UNCHANGED caches /\ UNCHANGED session
  BY DEF admin_update_user
<1>13. NamesHad' /\ UidsHad' /\ SessionsHad'
  BY <1>8, <1>12, CachesKeep, SessionsKeep
<1>14. Types'
  BY <1>6, <1>7, <1>11, <1>12 DEF AccountsInv, Types, caches
<1> QED
  BY <1>9, <1>10, <1>11, <1>13, <1>14 DEF AccountsInv

LEMMA RenameInv ==
  ASSUME AccountsInv, NEW c \in Conn, Rename(c)
  PROVE AccountsInv'
<1> DEFINE j == job[c]
<1>1. j.id \in Id /\ j.name \in Name /\ j.name \in had[j.id]
  BY DEF Rename, AccountsInv, JobsHad
<1>2. UNCHANGED table /\ UNCHANGED session
  BY DEF Rename
<1>3. /\ users' \in [Id -> Row \cup {Absent}] /\ last_id' \in Id
      /\ held' \in [Id -> SUBSET Identity] /\ had' \in [Id -> SUBSET Name]
      /\ HadGrows /\ RowsHad' /\ FreshIds' /\ had' = had
  BY <1>2, TableKeeps
<1>4. at' \in [Conn -> Places] /\ job' \in [Conn -> Job] /\ JobsHad'
  BY <1>3, GotoKeeps, NoJobTypes DEF Rename
<1>5. name_to_uid' = [name_to_uid EXCEPT ![j.old] = 0, ![j.name] = j.id]
  BY DEF Rename, Renamed
<1>6. name_to_uid' \in [Name -> Id \cup {0}] /\ NamesHad'
  BY <1>1, <1>3, <1>5 DEF AccountsInv, Types, NamesHad
<1>7. uid_to_username' \in [Id -> Name \cup {Absent}] /\ UidsHad'
  BY <1>1, <1>3 DEF Rename, AccountsInv, Types, UidsHad
<1>8. SessionsHad'
  BY <1>2, <1>3, SessionsKeep
<1>9. Types'
  BY <1>2, <1>3, <1>4, <1>6, <1>7 DEF AccountsInv, Types
<1> QED
  BY <1>3, <1>4, <1>6, <1>7, <1>8, <1>9 DEF AccountsInv

LEMMA BeginDeleteInv ==
  ASSUME AccountsInv, NEW c \in Conn, NEW i \in Id, user_table_delete(c, i)
  PROVE AccountsInv'
<1> DEFINE j == [NoJob EXCEPT !.id = i, !.old = users[i].name]
<1>1. users[i] \in Row
  BY DEF user_table_delete, Exists, AccountsInv, Types
<1>2. j \in Job /\ "kicking" \in Places
  BY <1>1 DEF Job, NoJob, Row, Places
<1> QED
  BY <1>2, MoveInv DEF user_table_delete

LEMMA KickSessionsInv ==
  ASSUME AccountsInv, NEW c \in Conn, admin_kick_uid_sessions(c)
  PROVE AccountsInv'
<1>1. job[c] \in Job /\ "erasing" \in Places
  BY DEF AccountsInv, Types, Places
<1> QED
  BY <1>1, MoveInv DEF admin_kick_uid_sessions

LEMMA EraseInv ==
  ASSUME AccountsInv, NEW c \in Conn, EraseCaches(c)
  PROVE AccountsInv'
<1>1. UNCHANGED table /\ UNCHANGED session
  BY DEF EraseCaches
<1>2. /\ users' \in [Id -> Row \cup {Absent}] /\ last_id' \in Id
      /\ held' \in [Id -> SUBSET Identity] /\ had' \in [Id -> SUBSET Name]
      /\ HadGrows /\ RowsHad' /\ FreshIds' /\ had' = had
  BY <1>1, TableKeeps
<1>3. at' \in [Conn -> Places] /\ job' \in [Conn -> Job] /\ JobsHad'
  <2>1. job[c] \in Job /\ "dropping" \in Places
    BY DEF AccountsInv, Types, Places
  <2> QED
    BY <1>2, <2>1, GotoKeeps DEF EraseCaches
<1>4. name_to_uid' \in [Name -> Id \cup {0}] /\ NamesHad'
  BY <1>2 DEF EraseCaches, AccountsInv, Types, NamesHad
<1>5. uid_to_username' \in [Id -> Name \cup {Absent}] /\ UidsHad'
  BY <1>2 DEF EraseCaches, AccountsInv, Types, UidsHad
<1>6. SessionsHad'
  BY <1>1, <1>2, SessionsKeep
<1>7. Types'
  BY <1>1, <1>2, <1>3, <1>4, <1>5 DEF AccountsInv, Types
<1> QED
  BY <1>2, <1>3, <1>4, <1>5, <1>6, <1>7 DEF AccountsInv

LEMMA DropInv ==
  ASSUME AccountsInv, NEW c \in Conn, admin_delete_user(c)
  PROVE AccountsInv'
<1>1. UNCHANGED <<last_id, held, had>> /\ UNCHANGED caches /\ UNCHANGED session
  BY HadStays DEF admin_delete_user
<1>2. users' = [users EXCEPT ![job[c].id] = Absent]
  BY DEF admin_delete_user
<1>3. HadGrows
  BY <1>1 DEF HadGrows
<1>4. at' \in [Conn -> Places] /\ job' \in [Conn -> Job] /\ JobsHad'
  BY <1>3, GotoKeeps, NoJobTypes DEF admin_delete_user
<1>5. RowsHad'
  BY <1>1, <1>2 DEF AccountsInv, Types, RowsHad, Exists
<1>6. FreshIds' /\ NamesHad' /\ UidsHad' /\ SessionsHad'
  BY <1>1, <1>3, CachesKeep, SessionsKeep DEF AccountsInv, FreshIds
<1>7. Types'
  BY <1>1, <1>2, <1>4 DEF AccountsInv, Types, caches
<1> QED
  BY <1>4, <1>5, <1>6, <1>7 DEF AccountsInv

-----------------------------------------------------------------------------
(* Every step keeps the invariant. *)
LEMMA NextInv == AccountsInv /\ [Next]_vars => AccountsInv'
<1> SUFFICES ASSUME AccountsInv, [Next]_vars PROVE AccountsInv'
  OBVIOUS
<1>1. CASE UNCHANGED vars
  BY <1>1, HadStays DEF AccountsInv, Types, RowsHad, FreshIds, JobsHad, NamesHad, UidsHad,
                        SessionsHad, Exists, logged_in, vars
<1>2. ASSUME NEW c \in Conn, Request(c) PROVE AccountsInv'
  <2>1. ASSUME NEW x \in IP, CheckIp(c, x) PROVE AccountsInv'
    <3>1. "authenticating" \in Places
      BY DEF Places
    <3> QED
      BY <2>1, <3>1, MoveInv, NoJobTypes DEF CheckIp
  <2>2. ASSUME ListChanges(c) PROVE AccountsInv'
    BY <2>2, HadStays DEF ListChanges, AccountsInv, Types, RowsHad, FreshIds, JobsHad,
       NamesHad, UidsHad, SessionsHad, Exists, logged_in, table, caches
  <2> QED
    BY <1>2, <2>1, <2>2, AddInv, LookUpInv, BeginDeleteInv, BeginUpdateInv
       DEF Request, allowlist_add, allowlist_update, allowlist_delete
<1>3. ASSUME NEW c \in Conn, Continue(c) PROVE AccountsInv'
  <2>1. CASE Deliver(c)
    BY <2>1, MoveInv, NoJobTypes DEF Deliver
  <2>2. CASE StatementFails(c)
    BY <2>2, MoveInv, NoJobTypes DEF StatementFails
  <2>3. CASE Refuse(c)
    BY <2>3, MoveInv, NoJobTypes DEF Refuse
  <2> QED
    BY <1>3, <2>1, <2>2, <2>3, AuthenticateInv, EnterTablesInv, QueryInv, CacheUidInv, UpdateInv,
       RenameInv, KickSessionsInv, EraseInv, DropInv DEF Continue
<1> QED
  BY <1>1, <1>2, <1>3, LeaveInv DEF Next

-----------------------------------------------------------------------------
(* The allowlist.                                                          *)

(* Only a LOGIN of a connection that is not logged in is authenticated. *)
LoginsOnce == \A c \in Conn : at[c] \in {"authenticating", "entering"} => ~logged_in(c)

AccessInv == AccountsInv /\ ip \in [Conn -> IP \cup {Absent}] /\ LoginsOnce /\ OnlyListedEnter

(* A handler of a connection that is past the allowlist moves on. *)
LEMMA AccessKept ==
  ASSUME AccessInv, NEW c \in Conn, NEW place \in Places, NEW j, Goto(c, place, j),
         logged_in(c) \/ at[c] # "reading",
         place \notin {"authenticating", "entering"},
         UNCHANGED session, UNCHANGED access
  PROVE LoginsOnce' /\ OnlyListedEnter'
<1>1. ASSUME NEW d \in Conn PROVE at'[d] = IF d = c THEN place ELSE at[d]
  BY DEF Goto, AccessInv, AccountsInv, Types
<1>2. LoginsOnce'
  BY <1>1 DEF AccessInv, LoginsOnce, logged_in
<1>3. OnlyListedEnter'
  BY <1>1 DEF AccessInv, OnlyListedEnter, logged_in, access
<1> QED
  BY <1>2, <1>3

(* The steps of LOGIN. *)
LEMMA LoginAccess ==
  ASSUME AccessInv, NEW c \in Conn,
         \/ \E x \in IP : CheckIp(c, x)
         \/ \E n \in Name, p \in Pw, r \in Role : Authenticate(c, n, p, r)
         \/ Refuse(c) \/ EnterTables(c) \/ Leave(c)
  PROVE ip' \in [Conn -> IP \cup {Absent}] /\ LoginsOnce' /\ OnlyListedEnter'
<1> USE AccountsAssumption DEF AccessInv, AccountsInv, Types, LoginsOnce, OnlyListedEnter,
                               logged_in, access
<1>1. ASSUME NEW x \in IP, CheckIp(c, x)
      PROVE ip' \in [Conn -> IP \cup {Absent}] /\ LoginsOnce' /\ OnlyListedEnter'
  BY <1>1 DEF CheckIp, Goto, ip_whitelisted
<1>2. ASSUME NEW n \in Name, NEW p \in Pw, NEW r \in Role, Authenticate(c, n, p, r)
      PROVE ip' \in [Conn -> IP \cup {Absent}] /\ LoginsOnce' /\ OnlyListedEnter'
  <2>1. PICK j : Goto(c, "entering", j)
    BY <1>2 DEF Authenticate
  <2>2. at[c] = "authenticating" /\ UNCHANGED session /\ UNCHANGED access
    BY <1>2 DEF Authenticate
  <2> QED
    BY <2>1, <2>2 DEF Goto
<1>3. CASE Refuse(c)
  BY <1>3 DEF Refuse, Goto
<1>4. CASE EnterTables(c)
  <2>1. at' = [at EXCEPT ![c] = "reading"] /\ at[c] = "entering" /\ UNCHANGED access
    BY <1>4 DEF EnterTables, Goto
  <2>2. \A d \in Conn : d # c => session'[d] = session[d]
    BY <1>4 DEF EnterTables
  <2> QED
    BY <2>1, <2>2
<1>5. CASE Leave(c)
  BY <1>5 DEF Leave, Handling, NoSession
<1> QED
  BY <1>1, <1>2, <1>3, <1>4, <1>5

(* The steps that change the list. *)
LEMMA ListAccess ==
  ASSUME AccessInv, NEW c \in Conn, NEW x \in IP,
         \/ allowlist_add(c, x) \/ allowlist_delete(c, x)
         \/ \E y \in IP : allowlist_update(c, x, y)
  PROVE ip' \in [Conn -> IP \cup {Absent}] /\ LoginsOnce' /\ OnlyListedEnter'
<1>1. UNCHANGED <<at, session, ip>>
  BY DEF allowlist_add, allowlist_delete, allowlist_update, ListChanges
<1>2. \A d \in Conn : ip[d] \in allowlist \/ d \in delisted =>
                      ip[d] \in allowlist' \/ d \in delisted'
  BY DEF allowlist_add, allowlist_delete, allowlist_update, admin_insert_allowlist,
         admin_update_allowlist, admin_delete_allowlist, From
<1> QED
  BY <1>1, <1>2 DEF AccessInv, LoginsOnce, OnlyListedEnter, logged_in

LEMMA AccessStep == AccessInv /\ [Next]_vars => AccessInv'
<1> SUFFICES ASSUME AccessInv, [Next]_vars PROVE AccessInv'
  OBVIOUS
<1> DEFINE Goal == ip' \in [Conn -> IP \cup {Absent}] /\ LoginsOnce' /\ OnlyListedEnter'
<1>1. AccountsInv'
  BY NextInv DEF AccessInv
<1>2. CASE UNCHANGED vars
  BY <1>1, <1>2 DEF AccessInv, LoginsOnce, OnlyListedEnter, logged_in, vars
<1>3. ASSUME NEW c \in Conn, NEW place \in Places, NEW j, Goto(c, place, j),
             logged_in(c) \/ at[c] # "reading",
             place \notin {"authenticating", "entering"},
             UNCHANGED session, UNCHANGED access
      PROVE Goal
  BY <1>3, AccessKept DEF AccessInv, access
<1>4. /\ "reading" \in Places /\ "querying" \in Places /\ "caching" \in Places
      /\ "delivering" \in Places /\ "updating" \in Places /\ "renaming" \in Places
      /\ "kicking" \in Places /\ "erasing" \in Places /\ "dropping" \in Places
  BY DEF Places
<1>5. ASSUME NEW c \in Conn, Request(c) PROVE Goal
  <2>1. ASSUME NEW x \in IP,
               \/ CheckIp(c, x) \/ allowlist_add(c, x) \/ allowlist_delete(c, x)
               \/ \E y \in IP : allowlist_update(c, x, y)
        PROVE Goal
    BY <2>1, LoginAccess, ListAccess
  <2>2. ASSUME NEW n \in Name, NEW p \in Pw, NEW r \in Role, user_table_add(c, n, p, r)
        PROVE Goal
    BY <2>2 DEF user_table_add, AccessInv, LoginsOnce, OnlyListedEnter, logged_in, access
  <2>3. ASSUME NEW n \in Name, LookUp(c, n) PROVE Goal
    BY <1>3, <1>4, <2>3 DEF LookUp, Handling
  <2>4. ASSUME NEW i \in Id, user_table_delete(c, i) PROVE Goal
    BY <1>3, <1>4, <2>4 DEF user_table_delete, Controls, Handling
  <2>5. ASSUME NEW i \in Id, NEW n \in Name \cup {Absent}, NEW p \in Pw \cup {Absent},
               NEW r \in Role \cup {Absent}, user_table_update(c, i, n, p, r)
        PROVE Goal
    BY <1>3, <1>4, <2>5 DEF user_table_update, Controls, Handling
  <2> QED
    BY <1>5, <2>1, <2>2, <2>3, <2>4, <2>5 DEF Request
<1>6. ASSUME NEW c \in Conn, Continue(c) PROVE Goal
  <2>1. CASE (\E n \in Name, p \in Pw, r \in Role : Authenticate(c, n, p, r))
             \/ Refuse(c) \/ EnterTables(c)
    BY <2>1, LoginAccess
  <2>2. CASE user_id_by_username(c)
    BY <1>3, <1>4, <2>2 DEF user_id_by_username
  <2>3. CASE CacheUid(c) \/ Deliver(c) \/ Rename(c) \/ StatementFails(c)
    BY <1>3, <1>4, <2>3 DEF CacheUid, Deliver, Rename, StatementFails
  <2>4. CASE admin_update_user(c)
    BY <1>3, <1>4, <2>4 DEF admin_update_user
  <2>5. CASE admin_kick_uid_sessions(c) \/ EraseCaches(c) \/ admin_delete_user(c)
    BY <1>3, <1>4, <2>5 DEF admin_kick_uid_sessions, EraseCaches, admin_delete_user
  <2> QED
    BY <1>6, <2>1, <2>2, <2>3, <2>4, <2>5 DEF Continue
<1>7. Goal
  BY <1>2, <1>5, <1>6, LoginAccess DEF Next, AccessInv
<1> QED
  BY <1>1, <1>7 DEF AccessInv

(* However logins and changes of the allowlist interleave, whoever is      *)
(* logged in or being authenticated came from an address that is on the    *)
(* list or was when it passed try_authenticate's check.                    *)
THEOREM ListGuardsTheDoor == Spec => []OnlyListedEnter
<1>1. Init => AccessInv
  BY InitInv DEF Init, AccessInv, LoginsOnce, OnlyListedEnter, logged_in, NoSession
<1>2. AccessInv => OnlyListedEnter
  BY DEF AccessInv
<1> QED
  BY <1>1, <1>2, AccessStep, PTL DEF Spec

-----------------------------------------------------------------------------
(* Names and roles.                                                        *)

(* The row of an account, a login that has been accepted and a session     *)
(* have a name and a role that the account had together at one time.       *)
RowsHeld == \A i \in Id : Exists(i) => WhoIs(users[i]) \in held[i]

JobsHeld == \A c \in Conn : at[c] = "entering" => WhoIs(job[c]) \in held[job[c].id]

SessionsHeld ==
  \A c \in Conn : /\ session[c].role \in Role
                  /\ logged_in(c) => WhoIs(session[c]) \in held[session[c].id]

Held == RowsHeld /\ JobsHeld /\ SessionsHeld

HeldGrows == \A i \in Id : held[i] \subseteq held'[i]

LEMMA InitHeld == Init => Held
<1> SUFFICES ASSUME Init PROVE Held
  OBVIOUS
<1>1. 1 \in Id
  BY AccountsAssumption DEF Id
<1>2. RowsHeld
  BY <1>1 DEF Init, RowsHeld, Exists, WhoIs
<1>3. JobsHeld /\ SessionsHeld
  BY DEF Init, JobsHeld, SessionsHeld, logged_in, NoSession, Role
<1> QED
  BY <1>2, <1>3 DEF Held

LEMMA InsertHolds ==
  ASSUME AccountsInv, RowsHeld, NEW n \in Name, NEW p \in Pw, NEW r \in Role, Insert(n, p, r)
  PROVE  /\ last_id' \in Id /\ [name |-> n, role |-> r] \in held'[last_id']
         /\ HeldGrows /\ RowsHeld'
<1> DEFINE row == [name |-> n, pw |-> p, role |-> r]
           who == [name |-> n, role |-> r]
<1>1. last_id' \in Id /\ last_id' = last_id + 1 /\ last_id' > last_id
  <2>1. last_id' \in Id
    BY InsertKeeps
  <2> QED
    BY <2>1 DEF Insert, AccountsInv, Types, Id
<1>2. users' = [users EXCEPT ![last_id'] = row] /\ held' = [held EXCEPT ![last_id'] = {who}]
  BY <1>1 DEF Insert
<1>3. held[last_id'] = {}
  <2>1. had[last_id'] = {}
    BY <1>1 DEF AccountsInv, FreshIds
  <2> QED
    BY <1>1, <2>1 DEF had
<1>4. WhoIs(row) = who
  BY DEF WhoIs
<1> HIDE DEF row, who
<1>5. HeldGrows /\ who \in held'[last_id']
  BY <1>1, <1>2, <1>3 DEF HeldGrows, AccountsInv, Types
<1>6. RowsHeld'
  <2> SUFFICES ASSUME NEW i \in Id, users'[i] # Absent PROVE WhoIs(users'[i]) \in held'[i]
    BY DEF RowsHeld, Exists, WhoIs
  <2>1. CASE i = last_id'
    BY <1>1, <1>2, <1>4, <1>5, <2>1 DEF AccountsInv, Types
  <2>2. CASE i # last_id'
    BY <1>1, <1>2, <2>2 DEF AccountsInv, Types, RowsHeld, Exists
  <2> QED
    BY <2>1, <2>2
<1> QED
  BY <1>1, <1>5, <1>6 DEF who

LEMMA UpdateHolds ==
  ASSUME AccountsInv, RowsHeld, NEW c \in Conn, admin_update_user(c)
  PROVE  HeldGrows /\ RowsHeld'
<1> DEFINE j == job[c]
           S == IF Exists(j.id) THEN held[j.id] \cup {WhoIs(Updated(j))} ELSE held[j.id]
<1>0. held \in [Id -> SUBSET Identity] /\ users \in [Id -> Row \cup {Absent}] /\ j.id \in Id
  BY DEF AccountsInv, Types, JobsHad, admin_update_user
<1>1. users' = [users EXCEPT ![j.id] = Updated(j)] /\ held' = [held EXCEPT ![j.id] = S]
  BY DEF admin_update_user
<1>2. held[j.id] \subseteq S /\ (Exists(j.id) => WhoIs(Updated(j)) \in S)
  OBVIOUS
<1>3. ~Exists(j.id) => Updated(j) = Absent
  BY DEF Updated, NameDone, Exists
<1> HIDE DEF S, j
<1>4. HeldGrows
  BY <1>0, <1>1, <1>2 DEF HeldGrows
<1>5. RowsHeld'
  <2> SUFFICES ASSUME NEW i \in Id, users'[i] # Absent PROVE WhoIs(users'[i]) \in held'[i]
    BY DEF RowsHeld, Exists, WhoIs
  <2>1. CASE i = j.id
    BY <1>0, <1>1, <1>2, <1>3, <2>1
  <2>2. CASE i # j.id
    BY <1>0, <1>1, <2>2 DEF RowsHeld, Exists
  <2> QED
    BY <2>1, <2>2
<1> QED
  BY <1>4, <1>5

(* A handler goes on, into the tables only with a name and a role that its *)
(* account had.                                                            *)
LEMMA HeldKept ==
  ASSUME AccountsInv, JobsHeld, SessionsHeld, HeldGrows, UNCHANGED session,
         NEW c \in Conn, NEW place, NEW j, Goto(c, place, j),
         place = "entering" => WhoIs(j) \in held'[j.id]
  PROVE  JobsHeld' /\ SessionsHeld'
<1>0. at \in [Conn -> Places] /\ job \in [Conn -> Job]
  BY DEF AccountsInv, Types
<1>1. ASSUME NEW d \in Conn, at'[d] = "entering" PROVE WhoIs(job'[d]) \in held'[job'[d].id]
  <2>1. CASE d = c
    BY <1>0, <1>1, <2>1 DEF Goto
  <2>2. CASE d # c
    <3>1. at[d] = "entering" /\ job'[d] = job[d]
      BY <1>0, <1>1, <2>2 DEF Goto
    <3>2. job[d].id \in Id
      BY <3>1 DEF AccountsInv, JobsHad
    <3> QED
      BY <3>1, <3>2 DEF JobsHeld, HeldGrows
  <2> QED
    BY <2>1, <2>2
<1>2. ASSUME NEW d \in Conn, logged_in(d)' PROVE WhoIs(session'[d]) \in held'[session'[d].id]
  <2>1. session'[d] = session[d] /\ session[d].id \in Id
    BY <1>2 DEF logged_in, AccountsInv, Types
  <2> QED
    BY <1>2, <2>1 DEF SessionsHeld, HeldGrows, logged_in
<1>3. JobsHeld'
  BY <1>1 DEF JobsHeld, WhoIs
<1>4. SessionsHeld'
  BY <1>2 DEF SessionsHeld, WhoIs
<1> QED
  BY <1>3, <1>4

LEMMA HeldStep == AccountsInv /\ Held /\ [Next]_vars => Held'
<1> SUFFICES ASSUME AccountsInv, Held, [Next]_vars PROVE Held'
  OBVIOUS
<1>1. ASSUME UNCHANGED <<users, held>> PROVE HeldGrows /\ RowsHeld'
  BY <1>1 DEF Held, RowsHeld, HeldGrows, Exists
<1>2. ASSUME HeldGrows, RowsHeld', NEW c \in Conn, NEW place, NEW j, Goto(c, place, j),
             place = "entering" => WhoIs(j) \in held'[j.id], UNCHANGED session
      PROVE  Held'
  BY <1>2, HeldKept DEF Held
<1>3. ASSUME UNCHANGED <<users, held, session>>, NEW c \in Conn, NEW place, NEW j,
             Goto(c, place, j), place # "entering"
      PROVE  Held'
  BY <1>1, <1>2, <1>3
<1>4. ASSUME HeldGrows, RowsHeld', UNCHANGED <<at, job, session>> PROVE Held'
  <2>1. ASSUME NEW d \in Conn, at[d] = "entering" PROVE WhoIs(job[d]) \in held'[job[d].id]
    BY <1>4, <2>1 DEF Held, JobsHeld, HeldGrows, AccountsInv, JobsHad
  <2>2. ASSUME NEW d \in Conn, logged_in(d) PROVE WhoIs(session[d]) \in held'[session[d].id]
    <3>1. session[d].id \in Id
      BY <2>2 DEF logged_in, AccountsInv, Types
    <3> QED
      BY <1>4, <2>2, <3>1 DEF Held, SessionsHeld, HeldGrows
  <2>3. JobsHeld'
    BY <1>4, <2>1 DEF JobsHeld
  <2>4. SessionsHeld'
    BY <1>4, <2>2 DEF Held, SessionsHeld, logged_in
  <2> QED
    BY <1>4, <2>3, <2>4 DEF Held
<1>5. CASE UNCHANGED vars
  BY <1>1, <1>4, <1>5 DEF vars
<1>6. ASSUME NEW c \in Conn, Request(c) PROVE Held'
  <2>1. ASSUME NEW x \in IP, CheckIp(c, x) PROVE Held'
    BY <1>3, <2>1 DEF CheckIp, table
  <2>2. ASSUME ListChanges(c) PROVE Held'
    BY <1>1, <1>4, <2>2 DEF ListChanges, table
  <2>3. ASSUME NEW n \in Name, NEW p \in Pw, NEW r \in Role, user_table_add(c, n, p, r)
        PROVE  Held'
    <3>1. Insert(n, p, r) /\ UNCHANGED <<at, job, session>>
      BY <2>3 DEF user_table_add
    <3> QED
      BY <1>4, <3>1, InsertHolds DEF Held
  <2>4. ASSUME NEW n \in Name, LookUp(c, n) PROVE Held'
    BY <1>3, <2>4 DEF LookUp, table
  <2>5. ASSUME NEW i \in Id, user_table_delete(c, i) PROVE Held'
    BY <1>3, <2>5 DEF user_table_delete, table
  <2>6. ASSUME NEW i \in Id, NEW n \in Name \cup {Absent}, NEW p \in Pw \cup {Absent},
               NEW r \in Role \cup {Absent}, user_table_update(c, i, n, p, r)
        PROVE  Held'
    BY <1>3, <2>6 DEF user_table_update, table
  <2> QED
    BY <1>6, <2>1, <2>2, <2>3, <2>4, <2>5, <2>6
       DEF Request, allowlist_add, allowlist_update, allowlist_delete
<1>7. ASSUME NEW c \in Conn, NEW n \in Name, NEW p \in Pw, NEW r \in Role,
             Authenticate(c, n, p, r)
      PROVE  Held'
  <2> DEFINE J(i) == [NoJob EXCEPT !.id = i, !.name = n, !.role = r]
             who == [name |-> n, role |-> r]
  <2>1. \A i : J(i).id = i /\ WhoIs(J(i)) = who
    BY DEF NoJob, WhoIs
  <2>2. UNCHANGED session
    BY <1>7 DEF Authenticate
  <2>3. \/ \E i \in IdsNamed(n) : users[i].role = r /\ Goto(c, "entering", J(i)) /\ UNCHANGED table
        \/ Insert(n, p, r) /\ Goto(c, "entering", J(last_id'))
    BY <1>7 DEF Authenticate
  <2> HIDE DEF J
  <2>4. ASSUME NEW i \in IdsNamed(n), users[i].role = r, Goto(c, "entering", J(i)), UNCHANGED table
        PROVE  Held'
    <3>1. WhoIs(users[i]) = who /\ WhoIs(users[i]) \in held[i]
      BY <2>4 DEF Held, RowsHeld, IdsNamed, WhoIs
    <3>2. UNCHANGED <<users, held>>
      BY <2>4 DEF table
    <3>3. WhoIs(J(i)) \in held'[J(i).id]
      BY <2>1, <3>1, <3>2
    <3> QED
      BY <1>1, <1>2, <2>2, <2>4, <3>2, <3>3
  <2>5. ASSUME Insert(n, p, r), Goto(c, "entering", J(last_id')) PROVE Held'
    <3>1. who \in held'[last_id'] /\ HeldGrows /\ RowsHeld'
      BY <2>5, InsertHolds DEF Held
    <3>2. WhoIs(J(last_id')) \in held'[J(last_id').id]
      BY <2>1, <3>1
    <3> QED
      BY <1>2, <2>2, <2>5, <3>1, <3>2
  <2> QED
    BY <2>3, <2>4, <2>5
<1>8. ASSUME NEW c \in Conn, EnterTables(c) PROVE Held'
  <2> DEFINE s == [id |-> job[c].id, name |-> job[c].name, role |-> job[c].role]
  <2>0. /\ at \in [Conn -> Places] /\ held \in [Id -> SUBSET Identity]
        /\ session \in [Conn -> [id : Id \cup {0}, name : Name \cup {Absent},
                                 role : Role \cup {Absent}]]
    BY DEF AccountsInv, Types
  <2>1. /\ at[c] = "entering" /\ UNCHANGED <<users, held>>
        /\ session' = [session EXCEPT ![c] = s] /\ Goto(c, "reading", NoJob)
    BY <1>8 DEF EnterTables, table
  <2>2. job[c].id \in Id /\ WhoIs(job[c]) \in held[job[c].id]
    BY <2>1 DEF AccountsInv, JobsHad, Held, JobsHeld
  <2>3. s.id = job[c].id /\ WhoIs(s) = WhoIs(job[c]) /\ s.role = WhoIs(job[c]).role
    BY DEF WhoIs
  <2>4. s.role \in Role
    BY <2>0, <2>2, <2>3 DEF Identity
  <2> HIDE DEF s
  <2>5. ASSUME NEW d \in Conn
        PROVE  session'[d].role \in Role
               /\ (session'[d].id # 0 => WhoIs(session'[d]) \in held'[session'[d].id])
    <3>1. CASE d = c
      BY <2>0, <2>1, <2>2, <2>3, <2>4, <3>1
    <3>2. CASE d # c
      BY <2>0, <2>1, <3>2 DEF Held, SessionsHeld, logged_in
    <3> QED
      BY <3>1, <3>2
  <2>6. SessionsHeld'
    BY <2>5 DEF SessionsHeld, logged_in, WhoIs
  <2>7. JobsHeld'
    <3>1. ASSUME NEW d \in Conn, at'[d] = "entering" PROVE at[d] = "entering" /\ job'[d] = job[d]
      BY <2>0, <2>1, <3>1 DEF Goto, AccountsInv, Types
    <3> QED
      BY <2>1, <3>1 DEF Held, JobsHeld, WhoIs
  <2> QED
    BY <1>1, <2>1, <2>6, <2>7 DEF Held
<1>9. ASSUME NEW c \in Conn, Leave(c) PROVE Held'
  <2>0. session \in [Conn -> [id : Id \cup {0}, name : Name \cup {Absent},
                              role : Role \cup {Absent}]]
    BY DEF AccountsInv, Types
  <2>1. session' = [session EXCEPT ![c] = NoSession] /\ UNCHANGED <<at, job, users, held>>
    BY <1>9 DEF Leave, table
  <2>2. NoSession.role \in Role /\ NoSession.id = 0
    BY DEF NoSession, Role
  <2>3. ASSUME NEW d \in Conn
        PROVE  session'[d].role \in Role
               /\ (session'[d].id # 0 => WhoIs(session'[d]) \in held'[session'[d].id])
    <3>1. CASE d = c
      BY <2>0, <2>1, <2>2, <3>1
    <3>2. CASE d # c
      BY <2>0, <2>1, <3>2 DEF Held, SessionsHeld, logged_in
    <3> QED
      BY <3>1, <3>2
  <2>4. SessionsHeld'
    BY <2>3 DEF SessionsHeld, logged_in, WhoIs
  <2>5. JobsHeld'
    BY <2>1 DEF Held, JobsHeld
  <2> QED
    BY <1>1, <2>1, <2>4, <2>5 DEF Held
<1>10. ASSUME NEW c \in Conn, Continue(c) PROVE Held'
  <2>1. CASE Refuse(c) \/ Deliver(c) \/ Rename(c) \/ StatementFails(c) \/ CacheUid(c)
    BY <1>3, <2>1 DEF Refuse, Deliver, Rename, StatementFails, CacheUid, table
  <2>2. CASE user_id_by_username(c)
    BY <1>3, <2>2 DEF user_id_by_username, table
  <2>3. CASE admin_kick_uid_sessions(c) \/ EraseCaches(c)
    BY <1>3, <2>3 DEF admin_kick_uid_sessions, EraseCaches, table
  <2>4. CASE admin_update_user(c)
    <3>1. HeldGrows /\ RowsHeld'
      BY <2>4, UpdateHolds DEF Held
    <3> QED
      BY <1>2, <2>4, <3>1 DEF admin_update_user
  <2>5. CASE admin_delete_user(c)
    <3>1. users' = [users EXCEPT ![job[c].id] = Absent] /\ held' = held
      BY <2>5 DEF admin_delete_user
    <3>2. HeldGrows /\ RowsHeld'
      BY <3>1 DEF HeldGrows, Held, RowsHeld, Exists, AccountsInv, Types
    <3> QED
      BY <1>2, <2>5, <3>2 DEF admin_delete_user
  <2> QED
    BY <1>7, <1>8, <1>10, <2>1, <2>2, <2>3, <2>4, <2>5 DEF Continue
<1> QED
  BY <1>5, <1>6, <1>9, <1>10 DEF Next

(* Whatever handlers overlap and wherever a database statement fails, a    *)
(* name that name_to_uid_ or uid_to_username_ holds for an id is a name    *)
(* the row of that id had at some time, and username_ and is_admin_ of a   *)
(* session are a name and a role that its row had together.                *)
THEOREM NamesAndRolesAreTheirs == Spec => []WasTheirs
<1>1. Init => AccountsInv /\ Held
  BY InitInv, InitHeld
<1>2. AccountsInv /\ Held /\ [Next]_vars => (AccountsInv /\ Held)'
  BY NextInv, HeldStep
<1>3. AccountsInv /\ Held => WasTheirs
  BY DEF AccountsInv, WasTheirs, NamesHad, UidsHad, Held, SessionsHeld
<1> QED
  BY <1>1, <1>2, <1>3, PTL DEF Spec

-----------------------------------------------------------------------------
(* The remaining types.                                                    *)

Lists == allowlist \subseteq IP /\ kicked \subseteq Conn /\ late \subseteq Conn
         /\ delisted \subseteq Conn /\ reqs \in Nat

Marks == torn \subseteq Id /\ overlap \in BOOLEAN

TypesInv == AccessInv /\ Lists /\ Marks /\ Held

LEMMA ListsStep == Lists /\ [Next]_vars => Lists'
<1> SUFFICES ASSUME Lists, [Next]_vars PROVE Lists'
  OBVIOUS
<1> USE DEF Lists, access, count
<1>1. CASE UNCHANGED vars
  BY <1>1 DEF vars
<1>2. ASSUME NEW c \in Conn, Request(c) PROVE Lists'
  <2>1. Starts => reqs' \in Nat
    BY DEF Starts
  <2>2. ASSUME NEW x \in IP, CheckIp(c, x) PROVE Lists'
    BY <2>1, <2>2 DEF CheckIp
  <2>3. ASSUME NEW x \in IP, allowlist_add(c, x) \/ allowlist_delete(c, x) PROVE Lists'
    BY <2>1, <2>3 DEF allowlist_add, allowlist_delete, ListChanges,
       admin_insert_allowlist, admin_delete_allowlist, From
  <2>4. ASSUME NEW x \in IP, NEW y \in IP, allowlist_update(c, x, y) PROVE Lists'
    BY <2>1, <2>4 DEF allowlist_update, ListChanges, admin_update_allowlist, From
  <2>5. ASSUME NEW n \in Name, NEW p \in Pw, NEW r \in Role, user_table_add(c, n, p, r)
        PROVE Lists'
    BY <2>1, <2>5 DEF user_table_add
  <2>6. ASSUME NEW n \in Name, LookUp(c, n) PROVE Lists'
    BY <2>1, <2>6 DEF LookUp
  <2>7. ASSUME NEW i \in Id, user_table_delete(c, i) PROVE Lists'
    BY <2>1, <2>7 DEF user_table_delete
  <2>8. ASSUME NEW i \in Id, NEW n \in Name \cup {Absent}, NEW p \in Pw \cup {Absent},
               NEW r \in Role \cup {Absent}, user_table_update(c, i, n, p, r)
        PROVE Lists'
    BY <2>1, <2>8 DEF user_table_update
  <2> QED
    BY <1>2, <2>2, <2>3, <2>4, <2>5, <2>6, <2>7, <2>8 DEF Request
<1>3. ASSUME NEW c \in Conn, Continue(c) \/ Leave(c) PROVE Lists'
  <2>1. ASSUME NEW n \in Name, NEW p \in Pw, NEW r \in Role, Authenticate(c, n, p, r)
        PROVE Lists'
    BY <2>1 DEF Authenticate
  <2>2. CASE Refuse(c) \/ EnterTables(c) \/ Leave(c)
    BY <2>2 DEF Refuse, EnterTables, Leave
  <2>3. CASE user_id_by_username(c) \/ CacheUid(c) \/ Deliver(c) \/ StatementFails(c)
    BY <2>3 DEF user_id_by_username, CacheUid, Deliver, StatementFails
  <2>4. CASE admin_update_user(c) \/ Rename(c)
    BY <2>4 DEF admin_update_user, Rename
  <2>5. CASE admin_kick_uid_sessions(c) \/ EraseCaches(c) \/ admin_delete_user(c)
    BY <2>5 DEF admin_kick_uid_sessions, EraseCaches, admin_delete_user, Victims
  <2> QED
    BY <1>3, <2>1, <2>2, <2>3, <2>4, <2>5 DEF Continue
<1> QED
  BY <1>1, <1>2, <1>3 DEF Next

LEMMA MarksStep == AccountsInv /\ Marks /\ [Next]_vars => Marks'
<1> SUFFICES ASSUME AccountsInv, Marks, [Next]_vars PROVE Marks'
  OBVIOUS
<1>1. overlap' \in BOOLEAN \/ UNCHANGED overlap
  <2>1. Starts => overlap' \in BOOLEAN
    BY DEF Starts
  <2> QED
    BY <2>1 DEF Next, Request, Continue, vars, count, CheckIp, Authenticate, Refuse,
       EnterTables, Leave, LookUp, user_id_by_username, CacheUid, Deliver, user_table_add,
       user_table_update, admin_update_user, Rename, user_table_delete,
       admin_kick_uid_sessions, EraseCaches, admin_delete_user, StatementFails,
       ListChanges, allowlist_add, allowlist_update, allowlist_delete
<1>2. torn' \subseteq Id
  <2>1. ASSUME NEW c \in Conn, admin_update_user(c) PROVE torn' \subseteq Id
    <3>1. job[c].id \in Id
      BY <2>1 DEF admin_update_user, AccountsInv, JobsHad
    <3>2. torn' = torn \/ torn' = torn \cup {job[c].id}
      BY <2>1 DEF admin_update_user
    <3> QED
      BY <3>1, <3>2 DEF Marks
  <2> QED
    BY <2>1 DEF Marks, Next, Request, Continue, vars, CheckIp, Authenticate, Refuse,
       EnterTables, Leave, LookUp, user_id_by_username, CacheUid, Deliver, user_table_add,
       user_table_update, Rename, user_table_delete,
       admin_kick_uid_sessions, EraseCaches, admin_delete_user, StatementFails,
       ListChanges, allowlist_add, allowlist_update, allowlist_delete
<1> QED
  BY <1>1, <1>2 DEF Marks

(* Tables, caches, sessions and what a handler remembers keep their types, *)
(* through every interleaving of the handlers.                             *)
THEOREM AccountsTypes == Spec => []TypeOK
<1>1. Init => TypesInv
  <2> SUFFICES ASSUME Init PROVE TypesInv
    OBVIOUS
  <2>1. AccessInv
    BY InitInv DEF Init, AccessInv, LoginsOnce, OnlyListedEnter, logged_in, NoSession
  <2>2. Lists /\ Marks /\ Held
    BY AccountsAssumption, InitHeld DEF Init, Lists, Marks
  <2> QED
    BY <2>1, <2>2 DEF TypesInv
<1>2. TypesInv /\ [Next]_vars => TypesInv'
  BY AccessStep, ListsStep, MarksStep, HeldStep DEF TypesInv, AccessInv
<1>3. TypesInv => TypeOK
  <2> SUFFICES ASSUME TypesInv PROVE TypeOK
    OBVIOUS
  <2>1. session \in [Conn -> Session]
    BY DEF TypesInv, AccessInv, AccountsInv, Types, Held, SessionsHeld, Session
  <2> QED
    BY <2>1 DEF TypesInv, AccessInv, AccountsInv, Types, Lists, Marks, TypeOK
<1> QED
  BY <1>1, <1>2, <1>3, PTL DEF Spec

-----------------------------------------------------------------------------
(* Deletion.                                                               *)

(* OnlyLateSurvive is not inductive: it says nothing of an account whose   *)
(* row still stands, although the handler that deletes it has already      *)
(* listed the sessions to kick.  From that moment on every session of the  *)
(* account must be kicked or late.                                         *)
Settled ==
  \A c \in Conn, i \in Id : session[c].id = i /\ BeingDeleted(i) => c \in kicked \cup late

Deletes(d, i) == at[d] \in {"erasing", "dropping"} /\ job[d].id = i

(* A row disappears only with the deletion of its account. *)
LEMMA RowsStay ==
  ASSUME AccountsInv, [Next]_vars, NEW i \in Id, Exists(i)
  PROVE  Exists(i)' \/ \E c \in Conn : admin_delete_user(c) /\ job[c].id = i
<1>0. users \in [Id -> Row \cup {Absent}] /\ job \in [Conn -> Job] /\ Absent \notin Row
  BY AccountsAssumption DEF AccountsInv, Types, Row, Role
<1>1. ASSUME users' = users PROVE Exists(i)'
  BY <1>1 DEF Exists
<1>2. ASSUME NEW n \in Name, NEW p \in Pw, NEW r \in Role, Insert(n, p, r) PROVE Exists(i)'
  <2>1. users' \in [Id -> Row \cup {Absent}] /\ last_id' \in Id /\ last_id' = last_id + 1
    BY <1>2, InsertKeeps DEF Insert
  <2>2. users' = [users EXCEPT ![last_id'] = [name |-> n, pw |-> p, role |-> r]]
        /\ [name |-> n, pw |-> p, role |-> r] \in Row
    BY <1>2, <2>1 DEF Insert, Row
  <2> QED
    BY <1>0, <2>1, <2>2 DEF Exists
<1>3. ASSUME NEW c \in Conn, admin_update_user(c) PROVE Exists(i)'
  <2> DEFINE j == job[c]
  <2>1. users' = [users EXCEPT ![j.id] = Updated(j)] /\ j \in Job
    BY <1>0, <1>3 DEF admin_update_user
  <2>2. ASSUME j.id = i PROVE Updated(j) \in Row
    <3>1. users[j.id] \in Row
      BY <1>0, <2>2 DEF Exists
    <3> QED
      BY <2>1, <3>1 DEF Updated, Row, Job
  <2> QED
    BY <1>0, <2>1, <2>2 DEF Exists
<1>4. ASSUME NEW c \in Conn, admin_delete_user(c), job[c].id # i PROVE Exists(i)'
  BY <1>0, <1>4 DEF admin_delete_user, Exists
<1>5. ASSUME NEW c \in Conn, NEW n \in Name, NEW p \in Pw, NEW r \in Role,
             Authenticate(c, n, p, r) \/ user_table_add(c, n, p, r)
      PROVE  Exists(i)'
  <2>1. users' = users \/ Insert(n, p, r)
    BY <1>5 DEF Authenticate, user_table_add, table
  <2> QED
    BY <1>1, <1>2, <2>1
<1>6. ASSUME NEW c \in Conn, Request(c) PROVE Exists(i)'
  <2>1. CASE \E n \in Name, p \in Pw, r \in Role : user_table_add(c, n, p, r)
    BY <1>5, <2>1
  <2>2. CASE ~ \E n \in Name, p \in Pw, r \in Role : user_table_add(c, n, p, r)
    <3>1. users' = users
      BY <1>6, <2>2 DEF Request, CheckIp, allowlist_add, allowlist_delete, allowlist_update, ListChanges,
                        LookUp, user_table_delete, user_table_update, table
    <3> QED
      BY <1>1, <3>1
  <2> QED
    BY <2>1, <2>2
<1>7. ASSUME NEW c \in Conn, Continue(c), ~(admin_delete_user(c) /\ job[c].id = i) PROVE Exists(i)'
  <2>1. CASE Refuse(c) \/ EnterTables(c) \/ user_id_by_username(c) \/ CacheUid(c) \/ Deliver(c) \/ Rename(c)
             \/ admin_kick_uid_sessions(c) \/ EraseCaches(c) \/ StatementFails(c)
    <3>1. users' = users
      BY <2>1 DEF Refuse, EnterTables, user_id_by_username, CacheUid, Deliver, Rename,
                  admin_kick_uid_sessions, EraseCaches, StatementFails, table
    <3> QED
      BY <1>1, <3>1
  <2> QED
    BY <1>3, <1>4, <1>5, <1>7, <2>1 DEF Continue
<1>8. CASE UNCHANGED vars \/ \E c \in Conn : Leave(c)
  BY <1>1, <1>8 DEF vars, Leave, table
<1> QED
  BY <1>6, <1>7, <1>8 DEF Next

(* A handler becomes one that deletes when it kicks the sessions. *)
LEMMA DeletersKick ==
  ASSUME AccountsInv, [Next]_vars, NEW d \in Conn, NEW i \in Id, Deletes(d, i)'
  PROVE  Deletes(d, i) \/ (admin_kick_uid_sessions(d) /\ job[d].id = i)
<1>0. at \in [Conn -> Places] /\ job \in [Conn -> Job]
  BY DEF AccountsInv, Types
<1>1. ASSUME at' = at, job' = job PROVE Deletes(d, i)
  BY <1>1 DEF Deletes
<1>2. ASSUME NEW c \in Conn, NEW place, NEW j, Goto(c, place, j), place \notin {"erasing", "dropping"}
      PROVE  Deletes(d, i)
  BY <1>0, <1>2 DEF Goto, Deletes
<1>3. ASSUME NEW c \in Conn, NEW place, Goto(c, place, job[c]), at[c] = "erasing" PROVE Deletes(d, i)
  BY <1>0, <1>3 DEF Goto, Deletes
<1>4. ASSUME NEW c \in Conn, NEW place, Goto(c, place, job[c])
      PROVE  Deletes(d, i) \/ (c = d /\ job[d].id = i)
  BY <1>0, <1>4 DEF Goto, Deletes
<1>5. ASSUME NEW c \in Conn, Request(c) PROVE Deletes(d, i)
  <2>1. ASSUME NEW n \in Name, LookUp(c, n) PROVE Deletes(d, i)
    BY <1>2, <2>1 DEF LookUp
  <2>2. ASSUME NEW x \in IP, CheckIp(c, x) PROVE Deletes(d, i)
    BY <1>2, <2>2 DEF CheckIp
  <2>3. ASSUME NEW k \in Id, user_table_delete(c, k) PROVE Deletes(d, i)
    BY <1>2, <2>3 DEF user_table_delete
  <2>4. ASSUME NEW k \in Id, NEW n \in Name \cup {Absent}, NEW p \in Pw \cup {Absent},
               NEW r \in Role \cup {Absent}, user_table_update(c, k, n, p, r)
        PROVE  Deletes(d, i)
    BY <1>2, <2>4 DEF user_table_update
  <2>5. ASSUME NEW n \in Name, NEW p \in Pw, NEW r \in Role, user_table_add(c, n, p, r)
        PROVE  Deletes(d, i)
    BY <1>1, <2>5 DEF user_table_add
  <2>6. ASSUME ListChanges(c) PROVE Deletes(d, i)
    BY <1>1, <2>6 DEF ListChanges
  <2> QED
    BY <1>5, <2>1, <2>2, <2>3, <2>4, <2>5, <2>6 DEF Request, allowlist_add, allowlist_update, allowlist_delete
<1>6. ASSUME NEW c \in Conn, Continue(c) PROVE Deletes(d, i) \/ (admin_kick_uid_sessions(d) /\ job[d].id = i)
  <2>1. ASSUME NEW n \in Name, NEW p \in Pw, NEW r \in Role, Authenticate(c, n, p, r) PROVE Deletes(d, i)
    <3> DEFINE J(k) == [NoJob EXCEPT !.id = k, !.name = n, !.role = r]
    <3>1. Goto(c, "entering", J(last_id')) \/ \E k \in IdsNamed(n) : Goto(c, "entering", J(k))
      BY <2>1 DEF Authenticate
    <3> HIDE DEF J
    <3> QED
      BY <1>2, <3>1
  <2>2. CASE Refuse(c) \/ EnterTables(c) \/ Deliver(c) \/ Rename(c) \/ StatementFails(c) \/ admin_delete_user(c)
    BY <1>2, <2>2 DEF Refuse, EnterTables, Deliver, Rename, StatementFails, admin_delete_user
  <2>3. CASE user_id_by_username(c) \/ CacheUid(c) \/ admin_update_user(c)
    <3>1. \E place \in {"reading", "caching", "delivering", "renaming"}, j \in {NoJob, job[c]} \cup
             {[job[c] EXCEPT !.id = k] : k \in Id} : Goto(c, place, j)
      BY <2>3 DEF user_id_by_username, CacheUid, admin_update_user, IdsNamed
    <3> QED
      BY <1>2, <3>1
  <2>4. CASE EraseCaches(c)
    BY <1>3, <2>4 DEF EraseCaches
  <2>5. CASE admin_kick_uid_sessions(c)
    BY <1>4, <2>5 DEF admin_kick_uid_sessions
  <2> QED
    BY <1>6, <2>1, <2>2, <2>3, <2>4, <2>5 DEF Continue
<1>7. CASE UNCHANGED vars \/ \E c \in Conn : Leave(c)
  BY <1>1, <1>7 DEF vars, Leave
<1> QED
  BY <1>5, <1>6, <1>7 DEF Next

LEMMA DeletionBegins ==
  ASSUME AccountsInv, [Next]_vars, NEW i \in Id, BeingDeleted(i)'
  PROVE  BeingDeleted(i) \/ \E c \in Conn : admin_kick_uid_sessions(c) /\ job[c].id = i
<1>1. CASE ~Exists(i)'
  <2>1. ASSUME Exists(i) PROVE \E c \in Conn : admin_delete_user(c) /\ job[c].id = i
    BY <1>1, <2>1, RowsStay
  <2> QED
    BY <2>1 DEF BeingDeleted, admin_delete_user
<1>2. ASSUME NEW d \in Conn, Deletes(d, i)'
      PROVE  BeingDeleted(i) \/ \E c \in Conn : admin_kick_uid_sessions(c) /\ job[c].id = i
  BY <1>2, DeletersKick DEF BeingDeleted, Deletes
<1>3. ~Exists(i)' \/ \E d \in Conn : Deletes(d, i)'
  BY DEF BeingDeleted, Deletes
<1> QED
  BY <1>1, <1>2, <1>3

(* What may happen to a session and to the marks on it. *)
LEMMA SessionMoves ==
  ASSUME AccountsInv, [Next]_vars, NEW c \in Conn
  PROVE  \/ /\ session'[c] = session[c]
            /\ c \in kicked => c \in kicked'
            /\ c \in late => c \in late'
         \/ EnterTables(c)
         \/ session'[c] = NoSession
<1>0. session \in [Conn -> [id : Id \cup {0}, name : Name \cup {Absent}, role : Role \cup {Absent}]]
  BY DEF AccountsInv, Types
<1>1. ASSUME NEW d \in Conn, EnterTables(d), d # c
      PROVE  session'[c] = session[c] /\ kicked' = kicked /\ (c \in late => c \in late')
  BY <1>0, <1>1 DEF EnterTables
<1>2. ASSUME NEW d \in Conn, Leave(d)
      PROVE  session'[c] = NoSession \/ (session'[c] = session[c] /\ (c \in kicked => c \in kicked')
                                         /\ (c \in late => c \in late'))
  BY <1>0, <1>2 DEF Leave
<1>3. ASSUME NEW d \in Conn, Request(d) PROVE UNCHANGED <<session, kicked, late>>
  BY <1>3 DEF Request, CheckIp, allowlist_add, allowlist_delete, allowlist_update, ListChanges,
              LookUp, user_table_delete, user_table_update, user_table_add
<1>4. ASSUME NEW d \in Conn, Continue(d), ~EnterTables(d)
      PROVE  session' = session /\ late' = late /\ kicked \subseteq kicked'
  <2>1. CASE admin_kick_uid_sessions(d)
    BY <2>1 DEF admin_kick_uid_sessions
  <2>2. CASE ~admin_kick_uid_sessions(d)
    BY <1>4, <2>2 DEF Continue, Refuse, Authenticate, user_id_by_username, CacheUid, Deliver,
                admin_update_user, Rename, EraseCaches, admin_delete_user, StatementFails
  <2> QED
    BY <2>1, <2>2
<1>5. CASE UNCHANGED vars
  BY <1>5 DEF vars
<1> QED
  BY <1>1, <1>2, <1>3, <1>4, <1>5 DEF Next

LEMMA SettledStep == ASSUME AccountsInv, Settled, [Next]_vars PROVE Settled'
<1> SUFFICES ASSUME NEW c \in Conn, NEW i \in Id, session'[c].id = i, BeingDeleted(i)'
             PROVE  c \in kicked' \cup late'
  BY DEF Settled
<1>0. session \in [Conn -> [id : Id \cup {0}, name : Name \cup {Absent}, role : Role \cup {Absent}]]
  BY DEF AccountsInv, Types
<1>1. BeingDeleted(i) \/ \E d \in Conn : admin_kick_uid_sessions(d) /\ job[d].id = i
  BY DeletionBegins
<1>2. CASE EnterTables(c)
  <2>1. i = job[c].id /\ ~ \E d \in Conn : admin_kick_uid_sessions(d)
    <3>1. i = job[c].id
      BY <1>0, <1>2 DEF EnterTables
    <3>2. ASSUME NEW d \in Conn, admin_kick_uid_sessions(d) PROVE FALSE
      <4>1. at \in [Conn -> Places] /\ at[c] = "entering" /\ at[d] = "kicking"
        BY <1>2, <3>2 DEF AccountsInv, Types, EnterTables, admin_kick_uid_sessions
      <4>2. at' = [at EXCEPT ![c] = "reading"] /\ at' = [at EXCEPT ![d] = "erasing"]
        BY <1>2, <3>2 DEF EnterTables, admin_kick_uid_sessions, Goto
      <4> QED
        BY <4>1, <4>2
    <3> QED
      BY <3>1, <3>2
  <2> QED
    BY <1>1, <1>2, <2>1 DEF EnterTables
<1>3. CASE session'[c] = session[c] /\ (c \in kicked => c \in kicked') /\ (c \in late => c \in late')
  <2>1. CASE BeingDeleted(i)
    BY <1>3, <2>1 DEF Settled
  <2>2. ASSUME NEW d \in Conn, admin_kick_uid_sessions(d), job[d].id = i PROVE c \in kicked'
    BY <1>3, <2>2 DEF admin_kick_uid_sessions, Victims
  <2> QED
    BY <1>1, <2>1, <2>2
<1>4. session'[c] # NoSession
  BY DEF NoSession, Id
<1> QED
  BY <1>2, <1>3, <1>4, SessionMoves

(* Whatever overlaps, a session that outlives its account was kicked by    *)
(* user_table_delete, unless its login entered the tables after the        *)
(* sessions to kick had been listed.                                       *)
THEOREM OnlyLateLoginsSurvive == Spec => []OnlyLateSurvive
<1>1. Init => AccountsInv /\ Settled
  BY InitInv DEF Init, Settled, NoSession, Id
<1>2. AccountsInv /\ Settled /\ [Next]_vars => (AccountsInv /\ Settled)'
  BY NextInv, SettledStep
<1>3. AccountsInv /\ Settled => OnlyLateSurvive
  BY DEF AccountsInv, Types, Settled, OnlyLateSurvive, BeingDeleted, logged_in
<1> QED
  BY <1>1, <1>2, <1>3, PTL DEF Spec

-----------------------------------------------------------------------------
(* The caches.                                                             *)

(* CachesAgree speaks of the moments between requests.  The inductive      *)
(* invariant says what holds within one, at each place of each handler, as *)
(* long as no two requests have overlapped: at most one handler is busy;   *)
(* a cache agrees with the table but for the entries that a rename is      *)
(* about to replace; and what the handler has read is still so.            *)
Alone == ~overlap => \A c, d \in Conn : at[c] # "reading" /\ at[d] # "reading" => c = d

RowNamed(u, i, n) == i \in Id /\ u[i] # Absent /\ u[i].name = n

(* An entry is right, or belongs to an account that an update has torn. *)
Fits(u, t, i, n) == i \in t \/ RowNamed(u, i, n)

NamesAgree ==
  \A n \in Name : name_to_uid[n] # 0 =>
    \/ Fits(users, torn, name_to_uid[n], n)
    \/ \E c \in Conn : at[c] = "renaming" /\ job[c].id = name_to_uid[n] /\ job[c].old = n

UidsAgree ==
  \A i \in Id : uid_to_username[i] # Absent =>
    \/ Fits(users, torn, i, uid_to_username[i])
    \/ \E c \in Conn : at[c] = "renaming" /\ job[c].id = i

JobAgrees(c) ==
  /\ at[c] \in {"entering", "caching", "renaming"} => RowNamed(users, job[c].id, job[c].name)
  /\ at[c] \in {"updating", "kicking", "erasing"} => RowNamed(users, job[c].id, job[c].old)
  /\ at[c] = "dropping" /\ job[c].id \notin torn =>
       /\ uid_to_username[job[c].id] = Absent
       /\ \A n \in Name : name_to_uid[n] # job[c].id

Agreement == NamesAgree /\ UidsAgree /\ \A c \in Conn : JobAgrees(c)
Agreed == ~overlap => Agreement

(* Only the handler of c is, or is about to be, busy. *)
Others(c) == \A d \in Conn \ {c} : at[d] = "reading"

LEMMA MarksMove ==
  ASSUME [Next]_vars
  PROVE  /\ ~overlap' => ~overlap
         /\ ~overlap' => \A c \in Conn : Request(c) => Quiet
<1>1. ASSUME NEW c \in Conn, Request(c) PROVE Starts
  BY <1>1 DEF Request, CheckIp, allowlist_add, allowlist_delete, allowlist_update, ListChanges,
              LookUp, user_table_delete, user_table_update, user_table_add
<1>2. ASSUME NEW c \in Conn, Continue(c) PROVE overlap' = overlap
  <2>1. CASE admin_update_user(c)
    BY <2>1 DEF admin_update_user, count
  <2>2. CASE Refuse(c) \/ EnterTables(c) \/ CacheUid(c) \/ Deliver(c) \/ Rename(c) \/ StatementFails(c)
    BY <2>2 DEF Refuse, EnterTables, CacheUid, Deliver, Rename, StatementFails, count
  <2>3. CASE admin_kick_uid_sessions(c) \/ EraseCaches(c) \/ admin_delete_user(c)
    BY <2>3 DEF admin_kick_uid_sessions, EraseCaches, admin_delete_user, count
  <2>4. CASE user_id_by_username(c)
    BY <2>4 DEF user_id_by_username, count
  <2>5. ASSUME NEW n \in Name, NEW p \in Pw, NEW r \in Role, Authenticate(c, n, p, r)
        PROVE  overlap' = overlap
    BY <2>5 DEF Authenticate, count
  <2> QED
    BY <1>2, <2>1, <2>2, <2>3, <2>4, <2>5 DEF Continue
<1>3. ASSUME UNCHANGED vars \/ \E c \in Conn : Leave(c) PROVE overlap' = overlap
  BY <1>3 DEF vars, Leave, count
<1>4. \A c \in Conn : Request(c) => (~overlap' => ~overlap /\ Quiet)
  BY <1>1 DEF Starts
<1> QED
  BY <1>1, <1>2, <1>3, <1>4 DEF Next

(* A handler that goes on is busy; it moves no other. *)
LEMMA OthersStay ==
  ASSUME AccountsInv, NEW c \in Conn, Request(c) \/ Continue(c), Others(c)
  PROVE  Others(c)'
<1>0. at \in [Conn -> Places]
  BY DEF AccountsInv, Types
<1>1. ASSUME NEW place, NEW j, Goto(c, place, j) PROVE Others(c)'
  BY <1>0, <1>1 DEF Goto, Others
<1>2. ASSUME at' = at PROVE Others(c)'
  BY <1>2 DEF Others
<1>3. CASE Request(c)
  <2>1. ASSUME NEW n \in Name, LookUp(c, n) PROVE Others(c)'
    BY <1>1, <2>1 DEF LookUp
  <2>2. ASSUME NEW x \in IP, CheckIp(c, x) PROVE Others(c)'
    BY <1>1, <2>2 DEF CheckIp
  <2>3. ASSUME NEW k \in Id, user_table_delete(c, k) PROVE Others(c)'
    BY <1>1, <2>3 DEF user_table_delete
  <2>4. ASSUME NEW k \in Id, NEW n \in Name \cup {Absent}, NEW p \in Pw \cup {Absent},
               NEW r \in Role \cup {Absent}, user_table_update(c, k, n, p, r)
        PROVE  Others(c)'
    BY <1>1, <2>4 DEF user_table_update
  <2>5. ASSUME NEW n \in Name, NEW p \in Pw, NEW r \in Role, user_table_add(c, n, p, r)
        PROVE  Others(c)'
    BY <1>2, <2>5 DEF user_table_add
  <2>6. ASSUME ListChanges(c) PROVE Others(c)'
    BY <1>2, <2>6 DEF ListChanges
  <2> QED
    BY <1>3, <2>1, <2>2, <2>3, <2>4, <2>5, <2>6 DEF Request, allowlist_add, allowlist_update, allowlist_delete
<1>4. CASE Continue(c)
  <2>1. ASSUME NEW n \in Name, NEW p \in Pw, NEW r \in Role, Authenticate(c, n, p, r) PROVE Others(c)'
    <3> DEFINE J(k) == [NoJob EXCEPT !.id = k, !.name = n, !.role = r]
    <3>1. Goto(c, "entering", J(last_id')) \/ \E k \in IdsNamed(n) : Goto(c, "entering", J(k))
      BY <2>1 DEF Authenticate
    <3> HIDE DEF J
    <3> QED
      BY <1>1, <3>1
  <2>2. CASE Refuse(c) \/ EnterTables(c) \/ Deliver(c) \/ Rename(c) \/ StatementFails(c) \/ admin_delete_user(c)
    BY <1>1, <2>2 DEF Refuse, EnterTables, Deliver, Rename, StatementFails, admin_delete_user
  <2>3. CASE user_id_by_username(c) \/ admin_update_user(c)
    BY <1>1, <2>3 DEF user_id_by_username, admin_update_user
  <2>4. CASE CacheUid(c) \/ EraseCaches(c) \/ admin_kick_uid_sessions(c)
    BY <1>1, <2>4 DEF CacheUid, EraseCaches, admin_kick_uid_sessions
  <2> QED
    BY <1>4, <2>1, <2>2, <2>3, <2>4 DEF Continue
<1> QED
  BY <1>3, <1>4

LEMMA BusyGoesOn == ASSUME NEW c \in Conn, Continue(c) PROVE at[c] # "reading"
  BY DEF Continue, Refuse, EnterTables, Authenticate, user_id_by_username, CacheUid, Deliver,
         admin_update_user, Rename, admin_kick_uid_sessions, EraseCaches, admin_delete_user, StatementFails

(* Without an overlap a step finds the other handlers at rest. *)
LEMMA NobodyElse ==
  ASSUME Alone, [Next]_vars, ~overlap', NEW c \in Conn, Request(c) \/ Continue(c)
  PROVE  Others(c)
<1>1. CASE Request(c)
  <2>1. Quiet
    BY <1>1, MarksMove
  <2> QED
    BY <2>1 DEF Quiet, Others
<1>2. CASE Continue(c)
  BY <1>2, MarksMove, BusyGoesOn DEF Alone, Others
<1> QED
  BY <1>1, <1>2

LEMMA AloneStep == ASSUME AccountsInv, Alone, [Next]_vars PROVE Alone'
<1> SUFFICES ASSUME ~overlap' PROVE \A c, d \in Conn : at'[c] # "reading" /\ at'[d] # "reading" => c = d
  BY DEF Alone
<1>1. CASE UNCHANGED vars \/ \E c \in Conn : Leave(c)
  BY <1>1 DEF Alone, vars, Leave, count
<1>2. ASSUME NEW c \in Conn, Request(c) \/ Continue(c)
      PROVE  \A d, e \in Conn : at'[d] # "reading" /\ at'[e] # "reading" => d = e
  <2>1. Others(c)'
    BY <1>2, NobodyElse, OthersStay
  <2> QED
    BY <2>1 DEF Others
<1> QED
  BY <1>1, <1>2 DEF Next

-----------------------------------------------------------------------------
(* The agreement, seen from the one handler that is busy. *)
NamesBut(c) ==
  \A n \in Name : name_to_uid[n] # 0 =>
    \/ Fits(users, torn, name_to_uid[n], n)
    \/ at[c] = "renaming" /\ job[c].id = name_to_uid[n] /\ job[c].old = n

UidsBut(c) ==
  \A i \in Id : uid_to_username[i] # Absent =>
    Fits(users, torn, i, uid_to_username[i]) \/ (at[c] = "renaming" /\ job[c].id = i)

SoloAgrees(c) == NamesBut(c) /\ UidsBut(c) /\ JobAgrees(c)

LEMMA SoloHas == ASSUME Agreement, NEW c \in Conn, Others(c) PROVE SoloAgrees(c)
<1>1. \A d \in Conn : at[d] = "renaming" => d = c
  BY DEF Others
<1>2. NamesBut(c) /\ UidsBut(c)
  BY <1>1 DEF Agreement, NamesAgree, UidsAgree, NamesBut, UidsBut
<1> QED
  BY <1>2 DEF Agreement, SoloAgrees

LEMMA SoloGives == ASSUME NEW c \in Conn, SoloAgrees(c)', Others(c)' PROVE Agreement'
<1>1. NamesAgree' /\ UidsAgree'
  BY DEF SoloAgrees, NamesAgree, UidsAgree, NamesBut, UidsBut
<1>2. ASSUME NEW d \in Conn PROVE JobAgrees(d)'
  <2>1. CASE d = c
    BY <2>1 DEF SoloAgrees
  <2>2. CASE d # c
    BY <2>2 DEF Others, JobAgrees
  <2> QED
    BY <2>1, <2>2
<1> QED
  BY <1>1, <1>2 DEF Agreement

(* A step that changes neither the table nor the caches. *)
LEMMA SoloMoves ==
  ASSUME AccountsInv, NEW c \in Conn, SoloAgrees(c), at[c] # "renaming",
         users' = users, UNCHANGED caches, torn' = torn, NEW place, NEW j, Goto(c, place, j),
         place \in {"entering", "caching"} => RowNamed(users, j.id, j.name),
         place \in {"updating", "kicking", "erasing"} => RowNamed(users, j.id, j.old),
         place \notin {"renaming", "dropping"}
  PROVE  SoloAgrees(c)'
<1>1. at'[c] = place /\ job'[c] = j
  BY DEF Goto, AccountsInv, Types
<1>2. name_to_uid' = name_to_uid /\ uid_to_username' = uid_to_username
  BY DEF caches
<1>3. NamesBut(c)' /\ UidsBut(c)'
  BY <1>2 DEF SoloAgrees, NamesBut, UidsBut
<1>4. JobAgrees(c)'
  BY <1>1 DEF JobAgrees
<1> QED
  BY <1>3, <1>4 DEF SoloAgrees

(* An insert takes no row away. *)
LEMMA InsertNames ==
  ASSUME AccountsInv, NEW n \in Name, NEW p \in Pw, NEW r \in Role, Insert(n, p, r)
  PROVE  /\ RowNamed(users', last_id', n)
         /\ \A i, m : RowNamed(users, i, m) => RowNamed(users', i, m)
<1>0. users \in [Id -> Row \cup {Absent}] /\ Absent \notin Row
  BY AccountsAssumption DEF AccountsInv, Types, Row, Role
<1>1. last_id' \in Id /\ last_id' = last_id + 1 /\ last_id' > last_id
  <2>1. last_id' \in Id
    BY InsertKeeps
  <2> QED
    BY <2>1 DEF Insert, AccountsInv, Types, Id
<1>2. users' = [users EXCEPT ![last_id'] = [name |-> n, pw |-> p, role |-> r]]
      /\ [name |-> n, pw |-> p, role |-> r] \in Row
  BY <1>1 DEF Insert, Row
<1>3. users[last_id'] = Absent
  <2>1. had[last_id'] = {}
    BY <1>1 DEF AccountsInv, FreshIds
  <2> QED
    BY <1>1, <2>1 DEF AccountsInv, RowsHad, Exists
<1> QED
  BY <1>0, <1>1, <1>2, <1>3 DEF RowNamed

LEMMA SoloInserts ==
  ASSUME AccountsInv, NEW c \in Conn, SoloAgrees(c), at[c] # "renaming", UNCHANGED caches,
         torn' = torn, NEW n \in Name, NEW p \in Pw, NEW r \in Role, Insert(n, p, r)
  PROVE  NamesBut(c)' /\ UidsBut(c)'
<1>1. name_to_uid' = name_to_uid /\ uid_to_username' = uid_to_username
  BY DEF caches
<1>2. \A i, m : RowNamed(users, i, m) => RowNamed(users', i, m)
  BY InsertNames
<1> QED
  BY <1>1, <1>2 DEF SoloAgrees, NamesBut, UidsBut, Fits

LEMMA SoloRequest ==
  ASSUME AccountsInv, NEW c \in Conn, SoloAgrees(c), Request(c), at[c] = "reading"
  PROVE  SoloAgrees(c)'
<1>1. ASSUME NEW n \in Name, LookUp(c, n) PROVE SoloAgrees(c)'
  BY <1>1, SoloMoves DEF LookUp, table
<1>2. ASSUME NEW x \in IP, CheckIp(c, x) PROVE SoloAgrees(c)'
  BY <1>2, SoloMoves DEF CheckIp, table
<1>3. ASSUME NEW i \in Id, user_table_delete(c, i) PROVE SoloAgrees(c)'
  <2> DEFINE j == [NoJob EXCEPT !.id = i, !.old = users[i].name]
  <2>1. RowNamed(users, j.id, j.old)
    BY <1>3 DEF user_table_delete, RowNamed, Exists, NoJob
  <2>2. Goto(c, "kicking", j) /\ users' = users /\ UNCHANGED caches /\ torn' = torn
    BY <1>3 DEF user_table_delete, table
  <2> HIDE DEF j
  <2> QED
    BY <2>1, <2>2, SoloMoves
<1>4. ASSUME NEW i \in Id, NEW n \in Name \cup {Absent}, NEW p \in Pw \cup {Absent},
             NEW r \in Role \cup {Absent}, user_table_update(c, i, n, p, r)
      PROVE  SoloAgrees(c)'
  <2> DEFINE j == [id |-> i, name |-> n, old |-> users[i].name, pw |-> p, role |-> r]
  <2>1. RowNamed(users, j.id, j.old)
    BY <1>4 DEF user_table_update, RowNamed, Exists
  <2>2. Goto(c, "updating", j) /\ users' = users /\ UNCHANGED caches /\ torn' = torn
    BY <1>4 DEF user_table_update, table
  <2> HIDE DEF j
  <2> QED
    BY <2>1, <2>2, SoloMoves
<1>5. ASSUME NEW n \in Name, NEW p \in Pw, NEW r \in Role, user_table_add(c, n, p, r) PROVE SoloAgrees(c)'
  <2>1. Insert(n, p, r) /\ UNCHANGED caches /\ at' = at /\ torn' = torn
    BY <1>5 DEF user_table_add
  <2>2. NamesBut(c)' /\ UidsBut(c)'
    BY <2>1, SoloInserts
  <2> QED
    BY <2>1, <2>2 DEF SoloAgrees, JobAgrees
<1>6. ASSUME ListChanges(c) PROVE SoloAgrees(c)'
  <2>1. UNCHANGED <<users, name_to_uid, uid_to_username, at, job, torn>>
    BY <1>6 DEF ListChanges, table, caches
  <2> QED
    BY <2>1 DEF SoloAgrees, NamesBut, UidsBut, JobAgrees
<1> QED
  BY <1>1, <1>2, <1>3, <1>4, <1>5, <1>6 DEF Request, allowlist_add, allowlist_update, allowlist_delete

-----------------------------------------------------------------------------
LEMMA SoloAuthenticates ==
  ASSUME AccountsInv, NEW c \in Conn, SoloAgrees(c), NEW n \in Name, NEW p \in Pw, NEW r \in Role,
         Authenticate(c, n, p, r)
  PROVE  SoloAgrees(c)'
<1> DEFINE J(i) == [NoJob EXCEPT !.id = i, !.name = n, !.role = r]
<1>0. /\ at[c] # "renaming" /\ UNCHANGED caches /\ torn' = torn
      /\ at \in [Conn -> Places] /\ job \in [Conn -> Job]
  BY DEF Authenticate, AccountsInv, Types
<1>1. \A i : J(i).id = i /\ J(i).name = n
  BY DEF NoJob
<1>2. \/ \E i \in IdsNamed(n) : Goto(c, "entering", J(i)) /\ users' = users
      \/ Insert(n, p, r) /\ Goto(c, "entering", J(last_id'))
  BY DEF Authenticate, table
<1> HIDE DEF J
<1>3. ASSUME NEW i \in IdsNamed(n), Goto(c, "entering", J(i)), users' = users PROVE SoloAgrees(c)'
  <2>1. RowNamed(users, i, n)
    BY <1>3 DEF IdsNamed, Exists, RowNamed
  <2> QED
    BY <1>0, <1>1, <1>3, <2>1, SoloMoves
<1>4. CASE Insert(n, p, r) /\ Goto(c, "entering", J(last_id'))
  <2>1. NamesBut(c)' /\ UidsBut(c)' /\ RowNamed(users', last_id', n)
    BY <1>0, <1>4, SoloInserts, InsertNames
  <2>2. at'[c] = "entering" /\ job'[c] = J(last_id')
    BY <1>0, <1>4 DEF Goto
  <2>3. JobAgrees(c)'
    BY <1>1, <2>1, <2>2 DEF JobAgrees
  <2> QED
    BY <2>1, <2>3 DEF SoloAgrees
<1> QED
  BY <1>2, <1>3, <1>4

(* Entries are put into the caches. *)
LEMMA SoloCaches ==
  ASSUME AccountsInv, NEW c \in Conn, SoloAgrees(c), EnterTables(c) \/ CacheUid(c)
  PROVE  SoloAgrees(c)'
<1> DEFINE i == job[c].id
           n == job[c].name
<1>0. /\ at \in [Conn -> Places] /\ name_to_uid \in [Name -> Id \cup {0}]
      /\ uid_to_username \in [Id -> Name \cup {Absent}]
  BY DEF AccountsInv, Types
<1>1. users' = users /\ torn' = torn /\ at[c] \in {"entering", "caching"} /\ at'[c] \in {"reading", "delivering"}
  BY <1>0 DEF EnterTables, CacheUid, Goto, table
<1>2. name_to_uid' = [name_to_uid EXCEPT ![n] = i]
      /\ (uid_to_username' = uid_to_username \/ uid_to_username' = [uid_to_username EXCEPT ![i] = n])
  BY DEF EnterTables, CacheUid
<1>3. RowNamed(users, i, n)
  BY <1>1 DEF SoloAgrees, JobAgrees
<1> HIDE DEF i, n
<1>4. NamesBut(c)'
  BY <1>0, <1>1, <1>2, <1>3 DEF SoloAgrees, NamesBut, Fits
<1>5. UidsBut(c)'
  BY <1>0, <1>1, <1>2, <1>3 DEF SoloAgrees, UidsBut, Fits
<1>6. JobAgrees(c)'
  BY <1>1 DEF JobAgrees
<1> QED
  BY <1>4, <1>5, <1>6 DEF SoloAgrees

(* An update changes the name of its row only.  It goes on to rename it in *)
(* the caches, or leaves them alone and tears the account.                 *)
LEMMA SoloUpdates ==
  ASSUME AccountsInv, NEW c \in Conn, SoloAgrees(c), admin_update_user(c)
  PROVE  SoloAgrees(c)'
<1> DEFINE j == job[c]
<1>0. /\ at \in [Conn -> Places] /\ job \in [Conn -> Job] /\ users \in [Id -> Row \cup {Absent}]
      /\ Absent \notin Row /\ j \in Job
  BY AccountsAssumption DEF AccountsInv, Types, Row, Role
<1>1. /\ at[c] = "updating" /\ users' = [users EXCEPT ![j.id] = Updated(j)]
      /\ name_to_uid' = name_to_uid /\ uid_to_username' = uid_to_username
      /\ torn' = IF Tears(j) THEN torn \cup {j.id} ELSE torn
  BY DEF admin_update_user, caches
<1>2. RowNamed(users, j.id, j.old) /\ users[j.id] \in Row /\ j.id \in Id
  BY <1>0, <1>1 DEF SoloAgrees, JobAgrees, RowNamed
<1>3. Updated(j) \in Row
  BY <1>0, <1>2 DEF Updated, Row, Job
<1>4. \A i, n : i # j.id /\ RowNamed(users, i, n) => RowNamed(users', i, n)
  BY <1>0, <1>1 DEF RowNamed
<1>5. CASE Recaches(j)
  <2>1. NameDone(j) /\ j.name # Absent /\ torn' = torn
    BY <1>1, <1>5 DEF Recaches, RoleDone, PwDone, Tears
  <2>2. Updated(j).name = j.name
    BY <2>1 DEF Updated
  <2>3. at'[c] = "renaming" /\ job'[c] = j
    BY <1>0, <1>5 DEF admin_update_user, Goto
  <2>4. RowNamed(users', j.id, j.name)
    BY <1>0, <1>1, <1>2, <1>3, <2>2 DEF RowNamed
  <2>5. JobAgrees(c)'
    BY <2>3, <2>4 DEF JobAgrees
  <2> HIDE DEF j
  <2>6. ASSUME NEW n \in Name, name_to_uid[n] # 0
        PROVE  Fits(users', torn', name_to_uid[n], n) \/ (name_to_uid[n] = j.id /\ j.old = n)
    <3>1. Fits(users, torn, name_to_uid[n], n)
      BY <1>1, <2>6 DEF SoloAgrees, NamesBut
    <3> QED
      BY <1>2, <1>4, <2>1, <3>1 DEF RowNamed, Fits
  <2>7. NamesBut(c)'
    BY <1>1, <2>3, <2>6 DEF NamesBut
  <2>8. UidsBut(c)'
    BY <1>1, <1>4, <2>1, <2>3 DEF SoloAgrees, UidsBut, Fits
  <2> QED
    BY <2>5, <2>7, <2>8 DEF SoloAgrees
<1>6. CASE ~Recaches(j)
  <2>1. ASSUME ~Tears(j) PROVE Updated(j).name = users[j.id].name
    <3>1. ~NameDone(j) \/ j.name = Absent
      BY <1>6, <2>1 DEF Recaches, Tears
    <3> QED
      BY <3>1 DEF Updated
  <2>2. at'[c] = "reading"
    BY <1>0, <1>6 DEF admin_update_user, Goto
  <2>3. \A i, n : Fits(users, torn, i, n) => Fits(users', torn', i, n)
    <3>1. CASE Tears(j)
      BY <1>1, <1>4, <3>1 DEF Fits
    <3>2. CASE ~Tears(j)
      <4>1. \A n : RowNamed(users, j.id, n) => RowNamed(users', j.id, n)
        BY <1>0, <1>1, <1>2, <1>3, <2>1, <3>2 DEF RowNamed
      <4> QED
        BY <1>1, <1>4, <3>2, <4>1 DEF Fits
    <3> QED
      BY <3>1, <3>2
  <2>4. NamesBut(c)' /\ UidsBut(c)'
    BY <1>1, <2>3 DEF SoloAgrees, NamesBut, UidsBut
  <2> QED
    BY <2>2, <2>4 DEF SoloAgrees, JobAgrees
<1> QED
  BY <1>5, <1>6

LEMMA SoloRenames ==
  ASSUME AccountsInv, NEW c \in Conn, SoloAgrees(c), Rename(c)
  PROVE  SoloAgrees(c)'
<1> DEFINE j == job[c]
<1>0. /\ at \in [Conn -> Places] /\ name_to_uid \in [Name -> Id \cup {0}]
      /\ uid_to_username \in [Id -> Name \cup {Absent}]
  BY DEF AccountsInv, Types
<1>1. /\ users' = users /\ torn' = torn /\ at[c] = "renaming" /\ at'[c] = "reading"
      /\ name_to_uid' = [name_to_uid EXCEPT ![j.old] = 0, ![j.name] = j.id]
      /\ uid_to_username' = [uid_to_username EXCEPT ![j.id] = j.name]
  BY <1>0 DEF Rename, Renamed, Goto, table
<1>2. Fits(users, torn, j.id, j.name)
  BY <1>1 DEF SoloAgrees, JobAgrees, Fits
<1>3. \A n \in Name : name_to_uid[n] # 0 => Fits(users, torn, name_to_uid[n], n) \/ j.old = n
  BY DEF SoloAgrees, NamesBut
<1>4. \A i \in Id : uid_to_username[i] # Absent => Fits(users, torn, i, uid_to_username[i]) \/ j.id = i
  BY DEF SoloAgrees, UidsBut
<1> HIDE DEF j
<1>5. \A n \in Name : name_to_uid'[n] # 0 => Fits(users', torn', name_to_uid'[n], n)
  BY <1>0, <1>1, <1>2, <1>3
<1>6. \A i \in Id : uid_to_username'[i] # Absent => Fits(users', torn', i, uid_to_username'[i])
  BY <1>0, <1>1, <1>2, <1>4
<1>7. JobAgrees(c)'
  BY <1>1 DEF JobAgrees
<1> QED
  BY <1>5, <1>6, <1>7 DEF SoloAgrees, NamesBut, UidsBut

(* Deletion: the caches forget the id before the row goes, all of it if    *)
(* the account is not torn.                                                *)
LEMMA SoloDeletes ==
  ASSUME AccountsInv, NEW c \in Conn, SoloAgrees(c), EraseCaches(c) \/ admin_delete_user(c)
  PROVE  SoloAgrees(c)'
<1> DEFINE j == job[c]
<1>0. /\ at \in [Conn -> Places] /\ job \in [Conn -> Job] /\ name_to_uid \in [Name -> Id \cup {0}]
      /\ uid_to_username \in [Id -> Name \cup {Absent}] /\ users \in [Id -> Row \cup {Absent}]
  BY DEF AccountsInv, Types
<1>n. at[c] # "renaming"
  BY DEF EraseCaches, admin_delete_user
<1>m. /\ \A n \in Name : name_to_uid[n] # 0 => Fits(users, torn, name_to_uid[n], n)
      /\ \A i \in Id : uid_to_username[i] # Absent => Fits(users, torn, i, uid_to_username[i])
  BY <1>n DEF SoloAgrees, NamesBut, UidsBut
<1>1. CASE EraseCaches(c)
  <2>1. /\ users' = users /\ torn' = torn /\ at[c] = "erasing" /\ at'[c] = "dropping" /\ job'[c] = j
        /\ name_to_uid' = [name_to_uid EXCEPT ![j.old] = 0]
        /\ uid_to_username' = [uid_to_username EXCEPT ![j.id] = Absent]
    BY <1>0, <1>1 DEF EraseCaches, Goto, table
  <2>2. RowNamed(users, j.id, j.old)
    BY <2>1 DEF SoloAgrees, JobAgrees
  <2> HIDE DEF j
  <2>3. \A n \in Name : name_to_uid'[n] # 0 => Fits(users', torn', name_to_uid'[n], n)
    BY <1>0, <1>m, <2>1
  <2>4. \A i \in Id : uid_to_username'[i] # Absent => Fits(users', torn', i, uid_to_username'[i])
    BY <1>0, <1>m, <2>1
  <2>5. j.id \in Id /\ j.id # 0
    BY <2>2 DEF RowNamed, Id
  <2>6. j.id \notin torn => \A n \in Name : name_to_uid'[n] # j.id
    <3>1. ASSUME j.id \notin torn, NEW n \in Name, name_to_uid'[n] = j.id PROVE FALSE
      <4>1. n # j.old /\ name_to_uid[n] = j.id
        BY <1>0, <2>1, <2>5, <3>1
      <4> QED
        BY <1>m, <2>2, <2>5, <3>1, <4>1 DEF RowNamed, Fits
    <3> QED
      BY <3>1
  <2>7. uid_to_username'[j.id] = Absent
    BY <1>0, <2>1, <2>5
  <2>8. JobAgrees(c)'
    BY <2>1, <2>6, <2>7 DEF JobAgrees
  <2> QED
    BY <2>3, <2>4, <2>8 DEF SoloAgrees, NamesBut, UidsBut
<1>2. CASE admin_delete_user(c)
  <2>1. /\ users' = [users EXCEPT ![j.id] = Absent] /\ at[c] = "dropping" /\ at'[c] = "reading"
        /\ name_to_uid' = name_to_uid /\ uid_to_username' = uid_to_username /\ torn' = torn
    BY <1>0, <1>2 DEF admin_delete_user, Goto, caches
  <2>2. \/ j.id \in torn
        \/ uid_to_username[j.id] = Absent /\ \A n \in Name : name_to_uid[n] # j.id
    BY <2>1 DEF SoloAgrees, JobAgrees
  <2> HIDE DEF j
  <2>3. \A i, n : i # j.id /\ RowNamed(users, i, n) => RowNamed(users', i, n)
    BY <1>0, <2>1 DEF RowNamed
  <2>4. NamesBut(c)' /\ UidsBut(c)'
    BY <1>m, <2>1, <2>2, <2>3 DEF NamesBut, UidsBut, Fits
  <2> QED
    BY <2>1, <2>4 DEF SoloAgrees, JobAgrees
<1> QED
  BY <1>1, <1>2

LEMMA SoloContinue ==
  ASSUME AccountsInv, NEW c \in Conn, SoloAgrees(c), Continue(c)
  PROVE  SoloAgrees(c)'
<1>1. CASE Refuse(c) \/ Deliver(c) \/ StatementFails(c)
  BY <1>1, SoloMoves DEF Refuse, Deliver, StatementFails, table
<1>2. CASE user_id_by_username(c)
  <2>1. at[c] # "renaming" /\ users' = users /\ UNCHANGED caches /\ torn' = torn /\ job[c] \in Job
    BY <1>2 DEF user_id_by_username, table, AccountsInv, Types
  <2>2. CASE Goto(c, "reading", NoJob)
    BY <2>1, <2>2, SoloMoves
  <2>3. ASSUME NEW i \in IdsNamed(job[c].name), Goto(c, "caching", [job[c] EXCEPT !.id = i])
        PROVE  SoloAgrees(c)'
    <3> DEFINE k == [job[c] EXCEPT !.id = i]
    <3>1. k.id = i /\ k.name = job[c].name
      BY <2>1 DEF Job
    <3>2. RowNamed(users, k.id, k.name)
      BY <2>3, <3>1 DEF IdsNamed, Exists, RowNamed
    <3>3. Goto(c, "caching", k)
      BY <2>3
    <3> HIDE DEF k
    <3> QED
      BY <2>1, <3>2, <3>3, SoloMoves
  <2> QED
    BY <1>2, <2>2, <2>3 DEF user_id_by_username
<1>3. CASE admin_kick_uid_sessions(c)
  <2>1. /\ at[c] = "kicking" /\ users' = users /\ UNCHANGED caches /\ torn' = torn
        /\ Goto(c, "erasing", job[c])
    BY <1>3 DEF admin_kick_uid_sessions, table
  <2>2. RowNamed(users, job[c].id, job[c].old)
    BY <2>1 DEF SoloAgrees, JobAgrees
  <2> QED
    BY <2>1, <2>2, SoloMoves
<1> QED
  BY <1>1, <1>2, <1>3, SoloAuthenticates, SoloCaches, SoloUpdates, SoloRenames, SoloDeletes DEF Continue

LEMMA AgreedStep == ASSUME AccountsInv, Alone, Agreed, [Next]_vars PROVE Agreed'
<1> SUFFICES ASSUME ~overlap' PROVE Agreement'
  BY DEF Agreed
<1>1. Agreement
  BY MarksMove DEF Agreed
<1>2. CASE UNCHANGED vars \/ \E c \in Conn : Leave(c)
  <2>1. UNCHANGED <<users, name_to_uid, uid_to_username, at, job, torn>>
    BY <1>2 DEF vars, Leave, table, caches
  <2> QED
    BY <1>1, <2>1 DEF Agreement, NamesAgree, UidsAgree, JobAgrees
<1>3. ASSUME NEW c \in Conn, Request(c) \/ Continue(c) PROVE Agreement'
  <2>1. Others(c) /\ Others(c)'
    BY <1>3, NobodyElse, OthersStay
  <2>2. SoloAgrees(c)
    BY <1>1, <2>1, SoloHas
  <2>3. Request(c) => at[c] = "reading"
    BY MarksMove DEF Quiet
  <2>4. SoloAgrees(c)'
    BY <1>3, <2>2, <2>3, SoloRequest, SoloContinue
  <2> QED
    BY <2>1, <2>4, SoloGives
<1> QED
  BY <1>2, <1>3 DEF Next

(* Handled one after the other, requests leave the caches in agreement     *)
(* with the users table, through every sequence of logins, lookups,        *)
(* renames and deletions and wherever a statement fails: the update whose  *)
(* later UPDATE fails after the first renamed the row spoils the entries   *)
(* of its own account only.                                                *)
THEOREM SequentialCachesAgree == Spec => []CachesAgree
<1>1. Init => AccountsInv /\ Alone /\ Agreed
  <2>1. Init => Alone
    BY DEF Init, Alone
  <2>2. Init => Agreed
    BY DEF Init, Agreed, Agreement, NamesAgree, UidsAgree, JobAgrees
  <2> QED
    BY <2>1, <2>2, InitInv
<1>2. AccountsInv /\ Alone /\ Agreed /\ [Next]_vars => (AccountsInv /\ Alone /\ Agreed)'
  BY NextInv, AloneStep, AgreedStep
<1>3. Agreed => CachesAgree
  BY DEF Agreed, Agreement, NamesAgree, UidsAgree, CachesAgree, Quiet, Fits, RowNamed,
         IdsNamed, Exists, Id
<1> QED
  BY <1>1, <1>2, <1>3, PTL DEF Spec

=============================================================================
