------------------------------- MODULE Accounts -------------------------------
(***************************************************************************)
(* AccountMgrImpl and Database (Java, package database): programs that     *)
(* share one table of users, each with its own AccountMgrImpl, so its own  *)
(* connection and its one cached Statement.  A step is one JDBC call; a    *)
(* method that makes two is two steps, and other programs run in between.  *)
(* The driver and the table are external: a call may fail (MaxFaults times *)
(* in all); `users' has a primary key UID, in MySQL without sign, and a    *)
(* unique Email.  A statement that has been closed throws in MySQL's       *)
(* driver and works in SQLite's, as the repository's own test needs.       *)
(***************************************************************************)
EXTENDS Integers, FiniteSets, FiniteSetsExt

CONSTANTS Clients,    \* the programs
          Emails,
          Passwords,
          Names,
          MaxUID,     \* bound on the ids given out
          MaxFaults,  \* bound on the calls that fail by themselves
          MaxCalls    \* bound on the calls of one program

ASSUME AccountsAssumption == MaxUID \in Nat /\ MaxFaults \in Nat

VARIABLES t,        \* "MYSQL" or "SQLITE"
          users,    \* the rows of the table
          st,       \* client -> its Statement: "null", "open" or "closed"
          call,     \* client -> the call it is in
          result,   \* client -> what its last call returned
          faults,   \* number of calls that failed by themselves
          calls,    \* client -> number of calls made
          updated,  \* client -> number of its last call that closed its statement, or 0
          created   \* history: <<client, number of the call, id>> of each account

vars == <<t, users, st, call, result, faults, calls, updated, created>>

Idle == [op |-> "none", at |-> "idle", uid |-> 0, email |-> "", pwd |-> "", new |-> "",
         found |-> FALSE]
NoResult == [op |-> "none", code |-> 0, why |-> "", found |-> FALSE]

UIDs == {u.uid : u \in users}

Init ==
    /\ t \in {"MYSQL", "SQLITE"}
    /\ users = {}
    /\ st = [c \in Clients |-> "null"]
    /\ call = [c \in Clients |-> Idle]
    /\ result = [c \in Clients |-> NoResult]
    /\ faults = 0
    /\ calls = [c \in Clients |-> 0]
    /\ updated = [c \in Clients |-> 0]
    /\ created = {}

-----------------------------------------------------------------------------
(* JDBC *)

\* simple_query and simple_update create the statement if there is none, and
\* throw an SQLException: the statement is closed, or the call fails.
Usable(c) == st[c] # "closed" \/ t = "SQLITE"
Throws(c, why) ==
    \/ /\ ~ Usable(c)
       /\ why = "closed"
       /\ UNCHANGED <<st, faults>>
    \/ /\ Usable(c)
       /\ faults < MaxFaults
       /\ why = "fault"
       /\ faults' = faults + 1
       /\ st' = [st EXCEPT ![c] = "open"]

Queried(c) ==
    /\ Usable(c)
    /\ st' = [st EXCEPT ![c] = "open"]
    /\ UNCHANGED faults

\* Faulty variant: the statement is forgotten after it was closed.
Updated_Bug(c) ==
    /\ Usable(c)
    /\ st' = [st EXCEPT ![c] = "null"]
    /\ UNCHANGED faults

\* An update that succeeds closes the statement and keeps it.
Updated(c) ==
    /\ Usable(c)
    /\ st' = [st EXCEPT ![c] = "closed"]
    /\ UNCHANGED faults

\* The statement has run, and then close() throws, which may have closed it or not.
CloseThrows(c) ==
    /\ Usable(c)
    /\ faults < MaxFaults
    /\ faults' = faults + 1
    /\ \/ st' = [st EXCEPT ![c] = "closed"] /\ updated' = [updated EXCEPT ![c] = calls[c]]
       \/ st' = [st EXCEPT ![c] = "open"] /\ UNCHANGED updated

\* Faulty variant: no primary key.
Refused_Bug(row, others) ==
    \/ \E u \in others : u.email = row.email
    \/ t = "MYSQL" /\ row.uid < 0

\* The table refuses a row beside the others: an SQLException that leaves the
\* statement open.
Refused(row, others) ==
    \/ \E u \in others : u.uid = row.uid \/ u.email = row.email
    \/ t = "MYSQL" /\ row.uid < 0

-----------------------------------------------------------------------------
(* Calls *)

Start(c, what) ==
    /\ call[c].at = "idle"
    /\ calls[c] < MaxCalls
    /\ calls' = [calls EXCEPT ![c] = @ + 1]
    /\ call' = [call EXCEPT ![c] = what]
    /\ result' = [result EXCEPT ![c] = NoResult]
    /\ UNCHANGED <<t, users, st, faults, updated, created>>

Return(c, code, why) ==
    /\ call' = [call EXCEPT ![c] = Idle]
    /\ result' = [result EXCEPT ![c] = [op |-> call[c].op, code |-> code, why |-> why,
                                        found |-> call[c].found]]
    /\ UNCHANGED <<t, calls>>

GoOn(c, at, uid) ==
    /\ call' = [call EXCEPT ![c].at = at, ![c].uid = uid]
    /\ UNCHANGED <<t, calls, result>>

CreateAccount(c, e, p, n) ==
    Start(c, [Idle EXCEPT !.op = "create", !.at = "next", !.email = e, !.pwd = p, !.new = n])
UpdatePwd(c, uid, old, new) ==
    Start(c, [Idle EXCEPT !.op = "updatePwd", !.at = "auth", !.uid = uid, !.pwd = old, !.new = new])
UpdateUName(c, uid, n) ==
    Start(c, [Idle EXCEPT !.op = "updateUName", !.at = "update", !.uid = uid, !.new = n])
UpdateUEmail(c, uid, e) ==
    Start(c, [Idle EXCEPT !.op = "updateUEmail", !.at = "update", !.uid = uid, !.email = e])
\* LoginSvc.transact with login_type 0 and 1.
LoginUID(c, uid, p) ==
    Start(c, [Idle EXCEPT !.op = "login", !.at = "auth", !.uid = uid, !.pwd = p, !.found = TRUE])
LoginEmail(c, e, p) ==
    Start(c, [Idle EXCEPT !.op = "login", !.at = "find", !.email = e, !.pwd = p])

\* Faulty variant: the first id is 0.
NextUID_Bug == IF users = {} THEN 0 ELSE Max(UIDs) + 1

\* SELECT `UID` ... ORDER BY `UID` DESC LIMIT 1
NextUID == IF users = {} THEN 1 ELSE Max(UIDs) + 1

\* getnextUID; its -1 is not looked at by createAccount.
GetnextUID(c) ==
    /\ call[c].at = "next"
    /\ \/ Queried(c) /\ NextUID <= MaxUID /\ GoOn(c, "insert", NextUID)
       \/ (\E why \in {"closed", "fault"} : Throws(c, why)) /\ GoOn(c, "insert", -1)
    /\ UNCHANGED <<users, updated, created>>

\* INSERT INTO `users`; the id is returned, -1 included.  If only the close fails the
\* account is there and the caller is told that it is not.
Insert(c) ==
    LET k == call[c]
        row == [uid |-> k.uid, email |-> k.email, pwd |-> k.pwd, name |-> k.new]
    IN  /\ k.at = "insert"
        /\ \/ /\ ~ Refused(row, users)
              /\ users' = users \union {row}
              /\ \/ /\ Updated(c)
                    /\ updated' = [updated EXCEPT ![c] = calls[c]]
                    /\ created' = created \union {<<c, calls[c], k.uid>>}
                    /\ Return(c, k.uid, "done")
                 \/ CloseThrows(c) /\ Return(c, -1, "fault") /\ UNCHANGED created
           \/ /\ Queried(c) /\ Refused(row, users)
              /\ Return(c, -1, "refused")
              /\ UNCHANGED <<users, updated, created>>
           \/ \E why \in {"closed", "fault"} :
                 Throws(c, why) /\ Return(c, -1, why) /\ UNCHANGED <<users, updated, created>>

\* getUIDbyEmail; its -1 is not looked at by LoginSvc.
GetUIDbyEmail(c) ==
    LET rows == {u \in users : u.email = call[c].email} IN
    /\ call[c].at = "find"
    /\ \/ /\ Queried(c) /\ rows # {}
          /\ \E u \in rows :
                call' = [call EXCEPT ![c].at = "auth", ![c].uid = u.uid, ![c].found = TRUE]
          /\ UNCHANGED <<t, calls, result>>
       \/ Queried(c) /\ rows = {} /\ GoOn(c, "auth", -1)
       \/ (\E why \in {"closed", "fault"} : Throws(c, why)) /\ GoOn(c, "auth", -1)
    /\ UNCHANGED <<users, updated, created>>

\* Faulty variant: an id without a row is let in.
PasswordMatches_Bug(uid, pwd) == \A u \in users : u.uid = uid => u.pwd = pwd

\* The row of the id has the password.  Two salted digests are equal if the
\* passwords are.
PasswordMatches(uid, pwd) == \E u \in users : u.uid = uid /\ u.pwd = pwd

\* AuthPassword: 0, -1 no such id, -2 bad password, -3 exception.
AuthPassword(c) ==
    LET k == call[c]
        right == PasswordMatches(k.uid, k.pwd)
    IN  /\ k.at = "auth"
        /\ \/ Queried(c) /\ right /\ k.op = "login" /\ Return(c, 0, "done")
           \/ Queried(c) /\ right /\ k.op = "updatePwd" /\ GoOn(c, "update", k.uid)
           \/ /\ Queried(c) /\ ~ right
              /\ Return(c, IF k.op = "updatePwd" \/ k.uid \notin UIDs THEN -1 ELSE -2, "wrong")
           \/ \E why \in {"closed", "fault"} :
                 Throws(c, why) /\ Return(c, IF k.op = "updatePwd" THEN -1 ELSE -3, why)
        /\ UNCHANGED <<users, updated, created>>

\* UPDATE `users` SET ... WHERE `UID` = ...; no row to change is no error.
Changed(k, u) ==
    CASE k.op = "updatePwd" -> [u EXCEPT !.pwd = k.new]
      [] k.op = "updateUName" -> [u EXCEPT !.name = k.new]
      [] k.op = "updateUEmail" -> [u EXCEPT !.email = k.email]

Update(c) ==
    LET k == call[c]
        old == {u \in users : u.uid = k.uid}
        new == {Changed(k, u) : u \in old}
        others == users \ old
        refused == \E u \in new : Refused(u, others)
    IN  /\ k.at = "update"
        /\ \/ /\ ~ refused
              /\ users' = others \union new
              /\ \/ /\ Updated(c)
                    /\ updated' = [updated EXCEPT ![c] = calls[c]]
                    /\ Return(c, 0, "done")
                 \/ /\ CloseThrows(c)
                    /\ Return(c, IF k.op = "updatePwd" THEN -2 ELSE -1, "fault")
           \/ /\ Queried(c) /\ refused
              /\ Return(c, -1, "refused")
              /\ UNCHANGED <<users, updated>>
           \/ \E why \in {"closed", "fault"} :
                 /\ Throws(c, why)
                 /\ Return(c, IF k.op = "updatePwd" THEN -2 ELSE -1, why)
                 /\ UNCHANGED <<users, updated>>
        /\ UNCHANGED created

Next ==
    \E c \in Clients :
       \/ \E e \in Emails, p \in Passwords, n \in Names : CreateAccount(c, e, p, n)
       \/ \E uid \in 1 .. MaxUID, old, new \in Passwords : UpdatePwd(c, uid, old, new)
       \/ \E uid \in 1 .. MaxUID, n \in Names : UpdateUName(c, uid, n)
       \/ \E uid \in 1 .. MaxUID, e \in Emails : UpdateUEmail(c, uid, e)
       \/ \E uid \in 1 .. MaxUID, p \in Passwords : LoginUID(c, uid, p)
       \/ \E e \in Emails, p \in Passwords : LoginEmail(c, e, p)
       \/ GetnextUID(c) \/ Insert(c) \/ GetUIDbyEmail(c) \/ AuthPassword(c) \/ Update(c)

Spec == Init /\ [][Next]_vars

-----------------------------------------------------------------------------
\* Ids are positive, unless SQLite took the -1 of a failed getnextUID for one;
\* the next is then 0.
TypeOK ==
    /\ t \in {"MYSQL", "SQLITE"}
    /\ UIDs \subseteq (IF t = "MYSQL" \/ faults = 0 THEN 1 ELSE -1) .. MaxUID
    /\ \A u \in users : u.email \in Emails /\ u.pwd \in Passwords /\ u.name \in Names
    /\ st \in [Clients -> {"null", "open", "closed"}]
    /\ \A c \in Clients : call[c].at \in {"idle", "next", "insert", "find", "auth", "update"}
    /\ faults \in 0 .. MaxFaults

(***************************************************************************)
(* createAccount reads the greatest id and inserts the next one in two     *)
(* statements.  However the programs interleave, no id is returned twice,  *)
(* and each id returned is that of a row.                                  *)
(***************************************************************************)
CreatedOnce ==
    \A x, y \in created :
       /\ x[3] \in UIDs
       /\ x # y => x[3] # y[3]

(***************************************************************************)
(* A login by Email succeeds only for an Email that was found: "not found" *)
(* is -1, and is asked for as an id.  The exception is SQLite after a      *)
(* failed getnextUID, whose -1 is inserted as the id of a user.            *)
(***************************************************************************)
LoginRight ==
    (t = "MYSQL" \/ faults = 0) =>
       \A c \in Clients : (result[c].op = "login" /\ result[c].code = 0) => result[c].found

(***************************************************************************)
(* simple_update closes the statement that all later calls use.  In SQLite *)
(* that never makes a call fail; in MySQL the first update that closes it  *)
(* - each one that succeeds does - is the last call of the program whose   *)
(* statement still runs.                                                   *)
(***************************************************************************)
UpdateClosesStatement ==
    \A c \in Clients :
       /\ result[c].why = "closed" => t = "MYSQL" /\ updated[c] \notin {0, calls[c]}
       /\ (t = "MYSQL" /\ updated[c] \notin {0, calls[c]} /\ result[c] # NoResult)
             => result[c].why = "closed"
=============================================================================
