------------------------------ MODULE Accounts ------------------------------
(***************************************************************************)
(* Accounts of the relay server (main.cpp): the users table of MySQL, the  *)
(* two caches RelayServer keeps of it (name_to_uid_, uid_to_username_) and *)
(* the handlers that change or rely on them: LOGIN, the resolution of the  *)
(* addressee of a DATA, and CONTROL user_table_add, _update and _delete;   *)
(* with the ip_allowlist table, which LOGIN looks at before the account,   *)
(* and CONTROL allowlist_add, _update and _delete.                         *)
(*                                                                         *)
(* A handler alternates between statements of MysqlStore, each atomic      *)
(* under the store's own mutex, and sections under RelayServer::mu_; the   *)
(* handlers of other connections run in between.  Requests that are        *)
(* refused before the first change (an unknown id, a wrong password, a     *)
(* name already taken) leave no trace here and are not represented.        *)
(***************************************************************************)
EXTENDS Naturals, FiniteSets

CONSTANTS
  Conn,     \* connections; a number is used again once its session ended
  Name,     \* user names
  Root,     \* name of the administrator the table is seeded with
  Pw,       \* passwords
  IP,       \* addresses clients connect from
  Listed,   \* addresses the allowlist is seeded with
  Absent,   \* a field that a request or a table does not have
  MaxId,    \* bound: rows ever inserted
  MaxReqs   \* bound: requests handled

ASSUME AccountsAssumption ==
  /\ Root \in Name
  /\ Pw # {}
  /\ Listed \subseteq IP
  /\ Absent \notin Name \cup Pw \cup IP
  /\ Absent \notin [name : Name, pw : Pw, role : {"user", "admin"}]
  /\ MaxId \in Nat \ {0}
  /\ MaxReqs \in Nat

VARIABLES
  users,            \* the table: a row per id, Absent where there is none
  last_id,          \* its AUTO_INCREMENT counter
  allowlist,        \* the addresses of ip_allowlist, whose rows are unique
  name_to_uid,      \* name_to_uid_; 0 where the map has no entry
  uid_to_username,  \* uid_to_username_; Absent where the map has no entry
  at,               \* where the handler of each connection is
  job,              \* what that handler remembers of its request
  session,          \* user_id_ (0 before the login), username_, is_admin_
  ip,               \* address of a connection whose LOGIN passed the allowlist
  kicked,           \* connections a KICK has been posted to
  held,             \* history: every name the row of an id ever had, with the
                    \* role it had at the time
  late,             \* history: sessions whose login overlapped the deletion
                    \* of their account
  delisted,         \* history: connections whose address was taken off the
                    \* allowlist after their LOGIN had passed it
  torn,             \* history: ids of which an update failed after it had
                    \* changed the name
  overlap,          \* history: a request began while another was handled
  reqs              \* requests handled so far

vars == <<users, last_id, allowlist, name_to_uid, uid_to_username, at, job,
          session, ip, kicked, held, late, delisted, torn, overlap, reqs>>
caches == <<name_to_uid, uid_to_username>>
table == <<users, last_id, held>>
count == <<overlap, reqs>>
access == <<allowlist, ip, delisted>>

Id == 1..MaxId
Role == {"user", "admin"}
Row == [name : Name, pw : Pw, role : Role]

(* Whom a session acts for, beside the id: the sender of its DELIVERs and  *)
(* the right to CONTROL.                                                   *)
Identity == [name : Name, role : Role]
WhoIs(x) == [name |-> x.name, role |-> x.role]
had == [i \in Id |-> {h.name : h \in held[i]}]

Places == {"reading", "authenticating", "entering", "querying", "caching",
           "delivering", "updating", "renaming", "kicking", "erasing", "dropping"}

Job == [id : Id \cup {0}, name : Name \cup {Absent}, old : Name \cup {Absent},
        pw : Pw \cup {Absent}, role : Role \cup {Absent}]
NoJob == [id |-> 0, name |-> Absent, old |-> Absent, pw |-> Absent,
          role |-> Absent]

Session == [id : Id \cup {0}, name : Name \cup {Absent}, role : Role]
NoSession == [id |-> 0, name |-> Absent, role |-> "user"]

TypeOK ==
  /\ users \in [Id -> Row \cup {Absent}]
  /\ last_id \in Id
  /\ name_to_uid \in [Name -> Id \cup {0}]
  /\ uid_to_username \in [Id -> Name \cup {Absent}]
  /\ at \in [Conn -> Places]
  /\ job \in [Conn -> Job]
  /\ session \in [Conn -> Session]
  /\ allowlist \subseteq IP
  /\ ip \in [Conn -> IP \cup {Absent}]
  /\ kicked \subseteq Conn
  /\ held \in [Id -> SUBSET Identity]
  /\ late \subseteq Conn /\ delisted \subseteq Conn
  /\ torn \subseteq Id
  /\ overlap \in BOOLEAN
  /\ reqs \in Nat

(* The server starts on a table that holds the administrator. *)
Init ==
  /\ \E p \in Pw :
       users = [i \in Id |-> IF i = 1 THEN [name |-> Root, pw |-> p, role |-> "admin"]
                                      ELSE Absent]
  /\ last_id = 1
  /\ name_to_uid = [n \in Name |-> 0]
  /\ uid_to_username = [i \in Id |-> Absent]
  /\ at = [c \in Conn |-> "reading"]
  /\ job = [c \in Conn |-> NoJob]
  /\ session = [c \in Conn |-> NoSession]
  /\ allowlist = Listed
  /\ ip = [c \in Conn |-> Absent]
  /\ kicked = {}
  /\ held = [i \in Id |-> IF i = 1 THEN {[name |-> Root, role |-> "admin"]} ELSE {}]
  /\ late = {} /\ delisted = {}
  /\ torn = {}
  /\ overlap = FALSE
  /\ reqs = 0

-----------------------------------------------------------------------------
(* The Mut operators are mutated forms of the definition that follows      *)
(* them; the specification does not use them.                              *)

logged_in(c) == session[c].id # 0

(* A frame arrives on c and its handler starts; CONTROL is refused unless  *)
(* the session logged in as an administrator.                              *)
Handling(c) == at[c] = "reading" /\ logged_in(c)
Controls(c) == Handling(c) /\ session[c].role = "admin"

Goto(c, place, j) ==
  /\ at' = [at EXCEPT ![c] = place]
  /\ job' = [job EXCEPT ![c] = j]

Exists(i) == users[i] # Absent
IdsNamed(n) == {i \in Id : Exists(i) /\ users[i].name = n}

(* INSERT INTO users; the key on username is unique. *)
Insert(n, p, r) ==
  /\ IdsNamed(n) = {}
  /\ last_id < MaxId
  /\ last_id' = last_id + 1
  /\ users' = [users EXCEPT ![last_id + 1] = [name |-> n, pw |-> p, role |-> r]]
  /\ held' = [held EXCEPT ![last_id + 1] = {[name |-> n, role |-> r]}]

(* No handler is between two of its steps. *)
Quiet == \A c \in Conn : at[c] = "reading"

(* One more request, within the bound; requests overlap if it comes while  *)
(* a handler is not done.                                                  *)
Starts ==
  /\ reqs < MaxReqs
  /\ reqs' = reqs + 1
  /\ overlap' = (overlap \/ ~Quiet)

-----------------------------------------------------------------------------
(* LOGIN.                                                                  *)

MutIpWhitelisted(x) == TRUE

ip_whitelisted(x) == x \in allowlist

(* try_authenticate looks the address up first.  Whether it is still       *)
(* listed is not looked at again.                                          *)
CheckIp(c, x) ==
  /\ Starts
  /\ at[c] = "reading" /\ ~logged_in(c)
  /\ ip_whitelisted(x)
  /\ Goto(c, "authenticating", NoJob)
  /\ ip' = [ip EXCEPT ![c] = x]
  /\ UNCHANGED <<table, caches, session, kicked, late, torn, allowlist, delisted>>

(* authenticate_or_register finds the row and compares password and role,  *)
(* or inserts the row if there is none of that name.                       *)
Authenticate(c, n, p, r) ==
  /\ at[c] = "authenticating"
  /\ \/ \E i \in IdsNamed(n) :
          /\ users[i].pw = p /\ users[i].role = r
          /\ Goto(c, "entering", [NoJob EXCEPT !.id = i, !.name = n, !.role = r])
          /\ UNCHANGED table
     \/ /\ Insert(n, p, r)
        /\ Goto(c, "entering", [NoJob EXCEPT !.id = last_id', !.name = n, !.role = r])
  /\ UNCHANGED <<caches, session, kicked, late, torn, access, count>>

(* A wrong password or role, or a statement that failed: the connection    *)
(* may try again, from the allowlist on.                                   *)
Refuse(c) ==
  /\ at[c] = "authenticating"
  /\ Goto(c, "reading", NoJob)
  /\ ip' = [ip EXCEPT ![c] = Absent]
  /\ delisted' = delisted \ {c}
  /\ UNCHANGED <<table, caches, session, kicked, late, torn, allowlist, count>>

(* The account is gone, or the handler that deletes it has listed the      *)
(* sessions to kick.                                                       *)
BeingDeleted(i) ==
  \/ ~Exists(i)
  \/ \E d \in Conn : at[d] \in {"erasing", "dropping"} /\ job[d].id = i

EnterTables(c) ==
  /\ at[c] = "entering"
  /\ uid_to_username' = [uid_to_username EXCEPT ![job[c].id] = job[c].name]
  /\ name_to_uid' = [name_to_uid EXCEPT ![job[c].name] = job[c].id]
  /\ session' = [session EXCEPT ![c] = [id |-> job[c].id, name |-> job[c].name,
                                        role |-> job[c].role]]
  /\ late' = IF BeingDeleted(job[c].id) THEN late \cup {c} ELSE late
  /\ Goto(c, "reading", NoJob)
  /\ UNCHANGED <<table, kicked, torn, access, count>>

(* The session ends, kicked or not. *)
Leave(c) ==
  /\ Handling(c)
  /\ session' = [session EXCEPT ![c] = NoSession]
  /\ kicked' = kicked \ {c}
  /\ late' = late \ {c}
  /\ ip' = [ip EXCEPT ![c] = Absent]
  /\ delisted' = delisted \ {c}
  /\ UNCHANGED <<table, caches, at, job, torn, allowlist, count>>

-----------------------------------------------------------------------------
(* DATA to n: ensure_uid_for_username looks into the cache, else asks the  *)
(* database without mu_ and then fills the cache.                          *)

LookUp(c, n) ==
  /\ Starts
  /\ Handling(c)
  /\ IF name_to_uid[n] # 0
     THEN Goto(c, "delivering", [NoJob EXCEPT !.id = name_to_uid[n], !.name = n])
     ELSE Goto(c, "querying", [NoJob EXCEPT !.name = n])
  /\ UNCHANGED <<table, caches, session, kicked, late, torn, access>>

user_id_by_username(c) ==
  /\ at[c] = "querying"
  /\ IF IdsNamed(job[c].name) = {}
     THEN Goto(c, "reading", NoJob)
     ELSE \E i \in IdsNamed(job[c].name) :
            Goto(c, "caching", [job[c] EXCEPT !.id = i])
  /\ UNCHANGED <<table, caches, session, kicked, late, torn, access, count>>

CacheUid(c) ==
  /\ at[c] = "caching"
  /\ name_to_uid' = [name_to_uid EXCEPT ![job[c].name] = job[c].id]
  /\ Goto(c, "delivering", job[c])
  /\ UNCHANGED <<table, uid_to_username, session, kicked, late, torn, access, count>>

(* The sessions a DELIVER goes to (module Registry chooses among them). *)
Recipients(c) == {d \in Conn : session[d].id = job[c].id}

Deliver(c) ==
  /\ at[c] = "delivering"
  /\ Goto(c, "reading", NoJob)
  /\ UNCHANGED <<table, caches, session, kicked, late, torn, access, count>>

-----------------------------------------------------------------------------
(* CONTROL of the users table.                                             *)

user_table_add(c, n, p, r) ==
  /\ Starts
  /\ Controls(c)
  /\ Insert(n, p, r)
  /\ UNCHANGED <<caches, at, job, session, kicked, late, torn, access>>

(* user_table_update of id i: name, password and role are each optional.   *)
(* First the present name is read.                                         *)
user_table_update(c, i, n, p, r) ==
  /\ Starts
  /\ Controls(c)
  /\ Exists(i)
  /\ Goto(c, "updating", [id |-> i, name |-> n, old |-> users[i].name,
                          pw |-> p, role |-> r])
  /\ UNCHANGED <<table, caches, session, kicked, late, torn, access>>

(* Then admin_update_user runs one UPDATE per field, in this order, until  *)
(* one fails.  An UPDATE fails where it affects no row: the id is gone or  *)
(* the field already has the value.                                        *)
NameDone(j) ==
  /\ Exists(j.id)
  /\ j.name # Absent => IdsNamed(j.name) = {}
PwDone(j) == NameDone(j) /\ (j.pw # Absent => users[j.id].pw # j.pw)
RoleDone(j) == PwDone(j) /\ (j.role # Absent => users[j.id].role # j.role)

(* The row after the UPDATEs that were done. *)
Updated(j) ==
  LET row == users[j.id] IN
  IF ~NameDone(j) THEN row
  ELSE [name |-> IF j.name = Absent THEN row.name ELSE j.name,
        pw   |-> IF PwDone(j) /\ j.pw # Absent THEN j.pw ELSE row.pw,
        role |-> IF RoleDone(j) /\ j.role # Absent THEN j.role ELSE row.role]

MutRecaches(j) == j.name # Absent

(* The caches are changed if every UPDATE was done and there was a name. *)
Recaches(j) == RoleDone(j) /\ j.name # Absent

(* The row has the new name and a later UPDATE failed. *)
Tears(j) == NameDone(j) /\ j.name # Absent /\ ~RoleDone(j)

admin_update_user(c) ==
  LET j == job[c] IN
  /\ at[c] = "updating"
  /\ users' = [users EXCEPT ![j.id] = Updated(j)]
  /\ held' = [held EXCEPT ![j.id] =
                IF Exists(j.id) THEN @ \cup {WhoIs(Updated(j))} ELSE @]
  /\ torn' = IF Tears(j) THEN torn \cup {j.id} ELSE torn
  /\ IF Recaches(j) THEN Goto(c, "renaming", j) ELSE Goto(c, "reading", NoJob)
  /\ UNCHANGED <<last_id, caches, session, kicked, late, access, count>>

MutRenamed(j) == [name_to_uid EXCEPT ![j.name] = j.id]

Renamed(j) == [name_to_uid EXCEPT ![j.old] = 0, ![j.name] = j.id]

Rename(c) ==
  /\ at[c] = "renaming"
  /\ name_to_uid' = Renamed(job[c])
  /\ uid_to_username' = [uid_to_username EXCEPT ![job[c].id] = job[c].name]
  /\ Goto(c, "reading", NoJob)
  /\ UNCHANGED <<table, session, kicked, late, torn, access, count>>

(* user_table_delete reads the name, kicks the sessions found under mu_,   *)
(* erases the cache entries under mu_ and deletes the row last.            *)
user_table_delete(c, i) ==
  /\ Starts
  /\ Controls(c)
  /\ Exists(i)
  /\ Goto(c, "kicking", [NoJob EXCEPT !.id = i, !.old = users[i].name])
  /\ UNCHANGED <<table, caches, session, kicked, late, torn, access>>

MutVictims(c) == {d \in Conn \ {c} : session[d].id = job[c].id}

Victims(c) == {d \in Conn : session[d].id = job[c].id}

admin_kick_uid_sessions(c) ==
  /\ at[c] = "kicking"
  /\ kicked' = kicked \cup Victims(c)
  /\ Goto(c, "erasing", job[c])
  /\ UNCHANGED <<table, caches, session, late, torn, access, count>>

EraseCaches(c) ==
  /\ at[c] = "erasing"
  /\ name_to_uid' = [name_to_uid EXCEPT ![job[c].old] = 0]
  /\ uid_to_username' = [uid_to_username EXCEPT ![job[c].id] = Absent]
  /\ Goto(c, "dropping", job[c])
  /\ UNCHANGED <<table, session, kicked, late, torn, access, count>>

admin_delete_user(c) ==
  /\ at[c] = "dropping"
  /\ users' = [users EXCEPT ![job[c].id] = Absent]
  /\ Goto(c, "reading", NoJob)
  /\ UNCHANGED <<last_id, held, caches, session, kicked, late, torn, access, count>>

-----------------------------------------------------------------------------
(* CONTROL of the allowlist: one statement each.  No session is touched.   *)

(* The connections past the check that came from an address taken off. *)
From(x) == {c \in Conn : ip[c] = x}

(* The statements: the key on ip is unique, and an UPDATE or DELETE that   *)
(* affects no row is an error.                                             *)
admin_insert_allowlist(x) ==
  /\ x \notin allowlist
  /\ allowlist' = allowlist \cup {x}
  /\ UNCHANGED delisted

(* The row that holds x is changed to y. *)
admin_update_allowlist(x, y) ==
  /\ x \in allowlist /\ y \notin allowlist
  /\ allowlist' = (allowlist \ {x}) \cup {y}
  /\ delisted' = delisted \cup From(x)

admin_delete_allowlist(x) ==
  /\ x \in allowlist
  /\ allowlist' = allowlist \ {x}
  /\ delisted' = delisted \cup From(x)

ListChanges(c) ==
  /\ Starts
  /\ Controls(c)
  /\ UNCHANGED <<table, caches, at, job, session, ip, kicked, late, torn>>

allowlist_add(c, x) == ListChanges(c) /\ admin_insert_allowlist(x)
allowlist_update(c, x, y) == ListChanges(c) /\ admin_update_allowlist(x, y)
allowlist_delete(c, x) == ListChanges(c) /\ admin_delete_allowlist(x)

-----------------------------------------------------------------------------
(* MySQL reports an error (the connection is lost and never reopened): the *)
(* handler replies with it and is done.  A failure between two UPDATEs has *)
(* the effect of the second one affecting no row.                          *)
StatementFails(c) ==
  /\ at[c] \in {"querying", "updating", "dropping"}
  /\ Goto(c, "reading", NoJob)
  /\ UNCHANGED <<table, caches, session, kicked, late, torn, access, count>>

-----------------------------------------------------------------------------
Continue(c) ==
  \/ Refuse(c) \/ EnterTables(c)
  \/ (\E n \in Name, p \in Pw, r \in Role : Authenticate(c, n, p, r))
  \/ user_id_by_username(c) \/ CacheUid(c) \/ Deliver(c)
  \/ admin_update_user(c) \/ Rename(c)
  \/ admin_kick_uid_sessions(c) \/ EraseCaches(c) \/ admin_delete_user(c)
  \/ StatementFails(c)

Request(c) ==
  \/ \E x \in IP :
       \/ CheckIp(c, x) \/ allowlist_add(c, x) \/ allowlist_delete(c, x)
       \/ \E y \in IP : allowlist_update(c, x, y)
  \/ \E n \in Name, p \in Pw, r \in Role : user_table_add(c, n, p, r)
  \/ \E n \in Name : LookUp(c, n)
  \/ \E i \in Id :
       \/ user_table_delete(c, i)
       \/ \E n \in Name \cup {Absent}, p \in Pw \cup {Absent},
             r \in Role \cup {Absent} : user_table_update(c, i, n, p, r)

Next == \E c \in Conn : Request(c) \/ Continue(c) \/ Leave(c)

Spec == Init /\ [][Next]_vars

-----------------------------------------------------------------------------
(* Properties.                                                             *)

(* Whatever handlers overlap, a name that a cache holds for an id (the     *)
(* addressee of a DATA, the name in list_users) is one the row of that id  *)
(* has or once had, and a session acts under a name and with a role that   *)
(* its row had together at one time: no message for a name goes to an      *)
(* account that never had it, and nobody gets CONTROL under a name that    *)
(* was never an administrator's.                                           *)
WasTheirs ==
  /\ \A n \in Name : name_to_uid[n] # 0 => n \in had[name_to_uid[n]]
  /\ \A i \in Id : uid_to_username[i] # Absent => uid_to_username[i] \in had[i]
  /\ \A c \in Conn : logged_in(c) => WhoIs(session[c]) \in held[session[c].id]

(* As long as no two requests overlapped, the caches agree with the table  *)
(* between requests, through every sequence of logins, renames and         *)
(* deletions.  An update that failed after its first UPDATE has renamed    *)
(* the row and left the caches alone; the damage stays with the entries of *)
(* that one account, whatever is done to it and to the others later.       *)
CachesAgree ==
  Quiet /\ ~overlap =>
    /\ \A n \in Name :
         name_to_uid[n] \notin {0} \cup torn => name_to_uid[n] \in IdsNamed(n)
    /\ \A i \in Id \ torn :
         uid_to_username[i] # Absent => i \in IdsNamed(uid_to_username[i])

(* A connection past the allowlist (it is logged in, or its LOGIN may yet  *)
(* insert an account) comes from an address that is listed, or that was    *)
(* taken off while the connection was past it: nothing else gets in, with  *)
(* the list and the logins changing side by side.                          *)
OnlyListedEnter ==
  \A c \in Conn :
    /\ logged_in(c) \/ at[c] # "reading" => ip[c] # Absent
    /\ ip[c] # Absent => ip[c] \in allowlist \/ c \in delisted

(* A session that outlives its account and was not kicked is one whose     *)
(* login overlapped the deletion.                                          *)
OnlyLateSurvive ==
  \A c \in Conn : logged_in(c) /\ ~Exists(session[c].id) => c \in kicked \cup late

(* "删除用户会先踢掉其在线会话": no session of a deleted account is left   *)
(* unkicked.                                                               *)
DeletedIsKicked ==
  \A c \in Conn : logged_in(c) /\ ~Exists(session[c].id) => c \in kicked

=============================================================================
