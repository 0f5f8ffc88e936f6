---------------------------- MODULE AccountsProofs ----------------------------
(***************************************************************************)
(* Proofs about Accounts, for any number of programs, calls and failures:  *)
(* type correctness, that createAccount gives no id twice, that a login    *)
(* by Email needs an Email that was found, and what closing the statement  *)
(* does to the calls after it.                                             *)
(***************************************************************************)
EXTENDS Accounts, TLAPS

Ops == {"none", "create", "updatePwd", "updateUName", "updateUEmail", "login"}
Places == {"idle", "next", "insert", "find", "auth", "update"}
Call == [op : Ops, at : Places, uid : Int, email : Emails \union {""},
         pwd : Passwords \union {""}, new : Passwords \union Names \union {""},
         found : BOOLEAN]
Result == [op : Ops, code : Int, why : {"", "done", "wrong", "refused", "closed", "fault"},
           found : BOOLEAN]
Row == [uid : Int, email : Emails, pwd : Passwords, name : Names]

Typed ==
    /\ t \in {"MYSQL", "SQLITE"}
    /\ users \subseteq Row
    /\ st \in [Clients -> {"null", "open", "closed"}]
    /\ call \in [Clients -> Call]
    /\ result \in [Clients -> Result]
    /\ faults \in 0 .. MaxFaults
    /\ calls \in [Clients -> Nat]
    /\ updated \in [Clients -> Nat]
    /\ created \subseteq Clients \X Nat \X Int

\* No getnextUID has failed whose -1 the table would take.
Honest == t = "MYSQL" \/ faults = 0

(***************************************************************************)
(* What a call has in hand at each place.  An id to be inserted is one     *)
(* that NextUID gave, or -1; without Honest it may be 0.                   *)
(***************************************************************************)
Fits(k) ==
    /\ k.at \in {"next", "insert"} =>
          k.op = "create" /\ k.email \in Emails /\ k.pwd \in Passwords /\ k.new \in Names
    /\ k.at = "find" => k.op = "login"
    /\ k.at = "auth" => k.op \in {"login", "updatePwd"}
    /\ k.at = "update" => k.op \in {"updatePwd", "updateUName", "updateUEmail"}
    /\ (k.at # "idle" /\ k.op = "updatePwd") => k.new \in Passwords
    /\ (k.at # "idle" /\ k.op = "updateUName") => k.new \in Names
    /\ (k.at # "idle" /\ k.op = "updateUEmail") => k.email \in Emails
IdFits(k) ==
    k.at = "insert" =>
       /\ k.uid \in -1 .. MaxUID
       /\ Honest => k.uid >= 1 \/ (t = "MYSQL" /\ k.uid = -1)

\* An Email that was not found is looked for as the id -1.
LoginFits(k, r) ==
    /\ (k.op = "login" /\ k.at = "auth") => k.found \/ k.uid = -1
    /\ Honest => ((r.op = "login" /\ r.code = 0) => r.found)

\* In MySQL the statement is closed from the first update that closes it on.
StatementFits(c) ==
    /\ t = "MYSQL" => (st[c] = "closed" <=> updated[c] # 0)
    /\ updated[c] <= calls[c]
    /\ call[c].at # "idle" => result[c] = NoResult /\ updated[c] < calls[c]

ReasonFits(c) ==
    /\ result[c].why = "closed" => t = "MYSQL" /\ updated[c] \notin {0, calls[c]}
    /\ (t = "MYSQL" /\ updated[c] \notin {0, calls[c]} /\ result[c] # NoResult)
          => result[c].why = "closed"

ClientFits(c) ==
    /\ Fits(call[c])
    /\ IdFits(call[c])
    /\ LoginFits(call[c], result[c])
    /\ StatementFits(c)
    /\ ReasonFits(c)
ClientsFit == \A c \in Clients : ClientFits(c)

\* The ids have a greatest one, and begin at 1 if all is Honest.
Greatest(S) == \E m \in S : \A x \in S : m >= x
IdsRange ==
    /\ UIDs \subseteq -1 .. MaxUID
    /\ Honest => UIDs \subseteq 1 .. MaxUID
    /\ users # {} => Greatest(UIDs)

IInv ==
    /\ Typed
    /\ ClientsFit
    /\ IdsRange
    /\ CreatedOnce

LEMMA Blank ==
    /\ Idle \in Call /\ Idle.at = "idle" /\ Idle.op = "none"
    /\ NoResult \in Result /\ NoResult.op = "none" /\ NoResult.why = ""
    BY DEF Idle, Call, Ops, Places, NoResult, Result

-----------------------------------------------------------------------------
(* The initial states *)

LEMMA IInvInit == Init => IInv
<1> SUFFICES ASSUME Init PROVE IInv
    OBVIOUS
<1>1. Typed
  <2>1. call \in [Clients -> Call] /\ result \in [Clients -> Result]
      BY Blank DEF Init
  <2>2. st \in [Clients -> {"null", "open", "closed"}]
      BY DEF Init
  <2>3. calls \in [Clients -> Nat] /\ updated \in [Clients -> Nat]
      BY DEF Init
  <2>4. faults \in 0 .. MaxFaults
      BY AccountsAssumption DEF Init
  <2> QED
      BY <2>1, <2>2, <2>3, <2>4 DEF Typed, Init
<1>2. ClientsFit
  <2> SUFFICES ASSUME NEW c \in Clients PROVE ClientFits(c)
      BY DEF ClientsFit
  <2>1. /\ st[c] = "null" /\ calls[c] = 0 /\ updated[c] = 0
        /\ call[c] = Idle /\ result[c] = NoResult
      BY DEF Init
  <2>2. Fits(call[c]) /\ IdFits(call[c]) /\ LoginFits(call[c], result[c])
      BY <2>1, Blank DEF Fits, IdFits, LoginFits
  <2>3. StatementFits(c)
    <3>1. call[c].at = "idle"
        BY <2>1, Blank
    <3>2. st[c] # "closed" /\ updated[c] = 0 /\ updated[c] <= calls[c]
        BY <2>1
    <3> QED
        BY <3>1, <3>2 DEF StatementFits
  <2>4. ReasonFits(c)
      BY <2>1, Blank DEF ReasonFits
  <2> QED
      BY <2>2, <2>3, <2>4 DEF ClientFits
<1>3. IdsRange
    BY DEF IdsRange, UIDs, Init
<1>4. CreatedOnce
    BY DEF CreatedOnce, Init
<1> QED
    BY <1>1, <1>2, <1>3, <1>4 DEF IInv

-----------------------------------------------------------------------------
(* The step of a client *)

\* What holds for each client is disturbed only for the one that takes the step.
LEMMA OnlyOne ==
    ASSUME ClientsFit, Honest' => Honest, t' = t, NEW c \in Clients, ClientFits(c)',
           \A d \in Clients \ {c} :
              /\ call'[d] = call[d] /\ result'[d] = result[d] /\ st'[d] = st[d]
              /\ calls'[d] = calls[d] /\ updated'[d] = updated[d]
    PROVE  ClientsFit'
<1> SUFFICES ASSUME NEW d \in Clients PROVE ClientFits(d)'
    BY DEF ClientsFit
<1>1. CASE d = c
    BY <1>1
<1>2. CASE d # c
  <2>0. ClientFits(d)
      BY DEF ClientsFit
  <2>1. /\ call'[d] = call[d] /\ result'[d] = result[d] /\ st'[d] = st[d]
        /\ calls'[d] = calls[d] /\ updated'[d] = updated[d]
      BY <1>2
  <2>2. Fits(call[d])' /\ IdFits(call[d])' /\ LoginFits(call[d], result[d])'
      BY <2>0, <2>1 DEF ClientFits, Fits, IdFits, LoginFits
  <2>3. StatementFits(d)'
      BY <2>0, <2>1 DEF ClientFits, StatementFits
  <2>4. ReasonFits(d)'
      BY <2>0, <2>1 DEF ClientFits, ReasonFits
  <2> QED
      BY <2>2, <2>3, <2>4 DEF ClientFits
<1> QED
    BY <1>1, <1>2

\* A call begins.
LEMMA StartKeeps ==
    ASSUME IInv, NEW c \in Clients, NEW what \in Call, Start(c, what),
           Fits(what), what.at \notin {"idle", "insert"},
           what.op = "login" /\ what.at = "auth" => what.found
    PROVE  IInv'
<1>1. Typed'
  <2>1. call' \in [Clients -> Call]
      BY DEF IInv, Start, Typed
  <2>2. result' \in [Clients -> Result]
      BY Blank DEF IInv, Start, Typed
  <2>3. calls' \in [Clients -> Nat]
      BY DEF IInv, Start, Typed
  <2> QED
      BY <2>1, <2>2, <2>3 DEF IInv, Start, Typed
<1>2. /\ call'[c] = what /\ result'[c] = NoResult /\ calls'[c] = calls[c] + 1
      /\ UNCHANGED <<t, users, st, faults, updated, created>>
    BY DEF IInv, Start, Typed
<1>3. calls[c] \in Nat /\ updated[c] \in Nat /\ ClientFits(c)
    BY DEF IInv, Typed, ClientsFit
<1>4. ClientFits(c)'
  <2>1. Fits(call[c])' /\ IdFits(call[c])'
      BY <1>2 DEF Fits, IdFits
  <2>2. LoginFits(call[c], result[c])'
      BY <1>2, Blank DEF LoginFits
  <2>3. StatementFits(c)'
      BY <1>2, <1>3 DEF ClientFits, StatementFits
  <2>4. ReasonFits(c)'
      BY <1>2, Blank DEF ReasonFits
  <2> QED
      BY <2>1, <2>2, <2>3, <2>4 DEF ClientFits
<1>5. ClientsFit'
  <2>1. \A d \in Clients \ {c} :
           call'[d] = call[d] /\ result'[d] = result[d] /\ calls'[d] = calls[d]
      BY DEF IInv, Start, Typed
  <2> QED
      BY <1>2, <1>4, <2>1, OnlyOne DEF IInv, Honest
<1>6. IdsRange' /\ CreatedOnce'
    BY <1>2 DEF IInv, IdsRange, CreatedOnce, UIDs, Honest
<1> QED
    BY <1>1, <1>5, <1>6 DEF IInv
-----------------------------------------------------------------------------
(* JDBC calls *)

\* What a JDBC call does to the statement and the count of failures.
LEMMA JDBCTypes ==
    ASSUME Typed, NEW c \in Clients, NEW why,
           Queried(c) \/ Updated(c) \/ CloseThrows(c) \/ Throws(c, why)
    PROVE  /\ st' \in [Clients -> {"null", "open", "closed"}]
           /\ \A d \in Clients \ {c} : st'[d] = st[d]
           /\ faults' \in 0 .. MaxFaults
           /\ faults' >= faults
    BY AccountsAssumption DEF Typed, Queried, Updated, CloseThrows, Throws

LEMMA QueriedStatement ==
    ASSUME Typed, NEW c \in Clients, Queried(c)
    PROVE  /\ st'[c] = "open" /\ faults' = faults
           /\ t = "MYSQL" => st[c] # "closed"
    BY DEF Typed, Queried, Usable

LEMMA UpdatedStatement ==
    ASSUME Typed, NEW c \in Clients, Updated(c)
    PROVE  /\ st'[c] = "closed" /\ faults' = faults
           /\ t = "MYSQL" => st[c] # "closed"
    BY DEF Typed, Updated, Usable

LEMMA CloseThrowsStatement ==
    ASSUME Typed, NEW c \in Clients, CloseThrows(c)
    PROVE  /\ faults' > 0
           /\ t = "MYSQL" => st[c] # "closed"
           /\ \/ st'[c] = "closed" /\ updated' = [updated EXCEPT ![c] = calls[c]]
              \/ st'[c] = "open" /\ updated' = updated
    BY DEF Typed, CloseThrows, Usable

LEMMA ThrowsClosed ==
    ASSUME Typed, NEW c \in Clients, Throws(c, "closed")
    PROVE  t = "MYSQL" /\ st[c] = "closed" /\ st'[c] = "closed" /\ faults' = faults
    BY DEF Typed, Throws, Usable

LEMMA ThrowsFault ==
    ASSUME Typed, NEW c \in Clients, Throws(c, "fault")
    PROVE  /\ st'[c] = "open" /\ faults' > 0
           /\ t = "MYSQL" => st[c] # "closed"
    BY DEF Typed, Throws, Usable

LEMMA HonestBefore ==
    ASSUME t' = t, faults \in 0 .. MaxFaults, faults' \in 0 .. MaxFaults, faults' >= faults
    PROVE  Honest' => Honest
    BY AccountsAssumption DEF Honest

\* The call goes on: what it has in hand becomes k.
LEMMA GoOnKeeps ==
    ASSUME IInv, NEW c \in Clients, NEW k \in Call,
           call[c].at # "idle", k.at # "idle",
           call' = [call EXCEPT ![c] = k],
           Queried(c) \/ (\E why \in {"closed", "fault"} : Throws(c, why)),
           UNCHANGED <<t, users, result, calls, updated, created>>,
           Fits(k), IdFits(k)',
           (k.op = "login" /\ k.at = "auth") => k.found \/ k.uid = -1
    PROVE  IInv'
<1>0. Typed /\ call'[c] = k /\ calls[c] \in Nat /\ updated[c] \in Nat /\ ClientFits(c)
    BY DEF IInv, Typed, ClientsFit
<1>1. /\ st' \in [Clients -> {"null", "open", "closed"}]
      /\ \A d \in Clients \ {c} : st'[d] = st[d]
      /\ faults' \in 0 .. MaxFaults /\ faults' >= faults /\ faults \in 0 .. MaxFaults
    BY <1>0, JDBCTypes DEF Typed
<1>2. Typed'
  <2>1. call' \in [Clients -> Call]
      BY DEF IInv, Typed
  <2> QED
      BY <1>1, <2>1 DEF IInv, Typed
<1>3. Honest' => Honest
    BY <1>0, <1>1, AccountsAssumption, HonestBefore
<1>4. t = "MYSQL" => (st[c] = "closed" <=> st'[c] = "closed")
    BY <1>0, QueriedStatement, ThrowsClosed, ThrowsFault
<1>5. ClientFits(c)'
  <2>1. Fits(call[c])' /\ IdFits(call[c])'
      BY <1>0 DEF Fits, IdFits
  <2>2. LoginFits(call[c], result[c])'
      BY <1>0, <1>3 DEF ClientFits, LoginFits
  <2>3. StatementFits(c)'
      BY <1>0, <1>4 DEF ClientFits, StatementFits
  <2>4. ReasonFits(c)'
      BY <1>0 DEF ClientFits, ReasonFits
  <2> QED
      BY <2>1, <2>2, <2>3, <2>4 DEF ClientFits
<1>6. ClientsFit'
  <2>1. \A d \in Clients \ {c} : call'[d] = call[d]
      BY DEF IInv, Typed
  <2> QED
      BY <1>1, <1>3, <1>5, <2>1, OnlyOne DEF IInv
<1>7. IdsRange' /\ CreatedOnce'
    BY <1>3 DEF IInv, IdsRange, CreatedOnce, UIDs
<1> QED
    BY <1>2, <1>6, <1>7 DEF IInv

\* The call returns; how the table changes is left to the caller.
LEMMA ReturnKeeps ==
    ASSUME IInv, NEW c \in Clients, NEW code \in Int,
           NEW why \in {"done", "wrong", "refused", "closed", "fault"},
           call[c].at # "idle", Return(c, code, why),
           \/ Queried(c) /\ updated' = updated /\ why # "closed"
           \/ Updated(c) /\ updated' = [updated EXCEPT ![c] = calls[c]] /\ why = "done"
           \/ CloseThrows(c) /\ why = "fault"
           \/ Throws(c, why) /\ updated' = updated /\ why \in {"closed", "fault"},
           Honest' => ((call[c].op = "login" /\ code = 0) => call[c].found),
           users' \subseteq Row, created' \subseteq Clients \X Nat \X Int,
           IdsRange', CreatedOnce'
    PROVE  IInv'
<1>0. /\ Typed /\ calls[c] \in Nat /\ updated[c] \in Nat /\ ClientFits(c)
      /\ call'[c] = Idle /\ calls' = calls /\ t' = t
      /\ result'[c] = [op |-> call[c].op, code |-> code, why |-> why, found |-> call[c].found]
    BY DEF IInv, Typed, ClientsFit, Return
<1>1. /\ st' \in [Clients -> {"null", "open", "closed"}]
      /\ \A d \in Clients \ {c} : st'[d] = st[d]
      /\ faults' \in 0 .. MaxFaults /\ faults' >= faults /\ faults \in 0 .. MaxFaults
    BY <1>0, JDBCTypes DEF Typed
<1>2. Typed'
  <2>1. call' \in [Clients -> Call]
      BY Blank DEF IInv, Typed, Return
  <2>2. call[c].op \in Ops /\ call[c].found \in BOOLEAN
      BY <1>0 DEF Typed, Call
  <2>3. [op |-> call[c].op, code |-> code, why |-> why, found |-> call[c].found] \in Result
      BY <2>2 DEF Result
  <2>4. result' \in [Clients -> Result]
      BY <2>3 DEF IInv, Typed, Return
  <2>5. updated' \in [Clients -> Nat]
      BY <1>0, CloseThrowsStatement DEF Typed
  <2> QED
      BY <1>0, <1>1, <2>1, <2>4, <2>5 DEF Typed
<1>3. Honest' => Honest
    BY <1>0, <1>1, AccountsAssumption, HonestBefore
<1>4. /\ updated[c] < calls[c]
      /\ t = "MYSQL" => (st[c] = "closed" <=> updated[c] # 0)
    BY <1>0 DEF ClientFits, StatementFits
<1>5. /\ updated'[c] \in {updated[c], calls[c]}
      /\ t = "MYSQL" => (st'[c] = "closed" <=> updated'[c] # 0)
      /\ why = "closed" => t = "MYSQL" /\ updated'[c] \notin {0, calls[c]}
      /\ (t = "MYSQL" /\ updated'[c] \notin {0, calls[c]}) => why = "closed"
  <2>1. CASE Queried(c) /\ updated' = updated /\ why # "closed"
      BY <1>0, <1>4, <2>1, QueriedStatement
  <2>2. CASE Updated(c) /\ updated' = [updated EXCEPT ![c] = calls[c]] /\ why = "done"
    <3>1. updated'[c] = calls[c]
        BY <1>0, <2>2 DEF Typed
    <3> QED
        BY <1>0, <1>4, <2>2, <3>1, UpdatedStatement
  <2>3. CASE Throws(c, why) /\ updated' = updated /\ why = "closed"
      BY <1>0, <1>4, <2>3, ThrowsClosed
  <2>4. CASE Throws(c, why) /\ updated' = updated /\ why = "fault"
      BY <1>0, <1>4, <2>4, ThrowsFault
  <2>5. CASE CloseThrows(c) /\ why = "fault"
    <3>1. updated'[c] \in {updated[c], calls[c]} /\ (st'[c] = "closed" => updated'[c] = calls[c])
          /\ (st'[c] # "closed" => st'[c] = "open" /\ updated'[c] = updated[c])
        BY <1>0, <2>5, CloseThrowsStatement DEF Typed
    <3> QED
        BY <1>0, <1>4, <2>5, <3>1, CloseThrowsStatement
  <2> QED
      BY <2>1, <2>2, <2>3, <2>4, <2>5
<1>6. ClientFits(c)'
  <2>1. Fits(call[c])' /\ IdFits(call[c])'
      BY <1>0, Blank DEF Fits, IdFits
  <2>2. LoginFits(call[c], result[c])'
    <3>1. result'[c].op = call[c].op /\ result'[c].code = code /\ result'[c].found = call[c].found
        BY <1>0
    <3>2. call'[c].op # "login"
        BY <1>0, Blank
    <3> QED
        BY <3>1, <3>2 DEF LoginFits
  <2>3. StatementFits(c)'
    <3>1. call'[c].at = "idle"
        BY <1>0, Blank
    <3>2. updated'[c] <= calls'[c]
        BY <1>0, <1>4, <1>5
    <3> QED
        BY <1>0, <1>5, <3>1, <3>2 DEF StatementFits
  <2>4. ReasonFits(c)'
      BY <1>0, <1>5 DEF ReasonFits
  <2> QED
      BY <2>1, <2>2, <2>3, <2>4 DEF ClientFits
<1>7. ClientsFit'
  <2>1. \A d \in Clients \ {c} :
           /\ call'[d] = call[d] /\ result'[d] = result[d] /\ updated'[d] = updated[d]
      BY <1>0, CloseThrowsStatement DEF Typed, Return
  <2> QED
      BY <1>0, <1>1, <1>3, <1>6, <2>1, OnlyOne DEF IInv
<1> QED
    BY <1>2, <1>7 DEF IInv

-----------------------------------------------------------------------------
(* The steps of createAccount *)

LEMMA NextUIDRange ==
    ASSUME Typed, IdsRange
    PROVE  NextUID \in Int /\ NextUID >= 0 /\ (Honest => NextUID >= 1)
<1>1. CASE users = {}
    BY <1>1 DEF NextUID
<1>2. CASE users # {}
  <2>1. Max(UIDs) \in UIDs
      BY <1>2 DEF IdsRange, Greatest, Max
  <2>2. Max(UIDs) \in -1 .. MaxUID /\ (Honest => Max(UIDs) \in 1 .. MaxUID)
      BY <2>1 DEF IdsRange
  <2>3. NextUID = Max(UIDs) + 1
      BY <1>2 DEF NextUID
  <2> QED
      BY <2>2, <2>3, AccountsAssumption
<1> QED
    BY <1>1, <1>2

LEMMA GetnextUIDKeeps ==
    ASSUME IInv, NEW c \in Clients, GetnextUID(c)
    PROVE  IInv'
<1>0. /\ call[c] \in Call /\ Fits(call[c]) /\ Typed /\ IdsRange
      /\ call[c].at = "next"
      /\ UNCHANGED <<t, users, result, calls, updated, created>>
    BY DEF IInv, Typed, ClientsFit, ClientFits, GetnextUID, GoOn
<1>1. PICK uid \in Int :
        /\ call' = [call EXCEPT ![c].at = "insert", ![c].uid = uid]
        /\ Queried(c) \/ (\E why \in {"closed", "fault"} : Throws(c, why))
        /\ uid \in -1 .. MaxUID
        /\ Honest' => uid >= 1 \/ (t = "MYSQL" /\ uid = -1)
  <2>1. CASE Queried(c) /\ NextUID <= MaxUID /\ GoOn(c, "insert", NextUID)
    <3>1. Honest' = Honest
        BY <1>0, <2>1 DEF Honest, Queried
    <3>2. NextUID \in Int /\ NextUID \in -1 .. MaxUID /\ (Honest => NextUID >= 1)
        BY <1>0, <2>1, NextUIDRange, AccountsAssumption
    <3> QED
        BY <2>1, <3>1, <3>2, Zenon DEF GoOn
  <2>2. CASE Throws(c, "closed") /\ GoOn(c, "insert", -1)
    <3>1. t = "MYSQL"
        BY <1>0, <2>2, ThrowsClosed
    <3>2. -1 \in Int /\ -1 \in -1 .. MaxUID
        BY AccountsAssumption
    <3> QED
        BY <2>2, <3>1, <3>2, Zenon DEF GoOn
  <2>3. CASE Throws(c, "fault") /\ GoOn(c, "insert", -1)
    <3>1. faults' > 0 /\ t' = t
        BY <1>0, <2>3, ThrowsFault
    <3>2. Honest' => t = "MYSQL"
        BY <3>1 DEF Honest
    <3>3. -1 \in Int /\ -1 \in -1 .. MaxUID
        BY AccountsAssumption
    <3> QED
        BY <2>3, <3>2, <3>3, Zenon DEF GoOn
  <2> QED
      BY <2>1, <2>2, <2>3 DEF GetnextUID
<1>2. [call[c] EXCEPT !.at = "insert", !.uid = uid] \in Call
    BY <1>0 DEF Call, Places
<1>3. PICK k \in Call : k = [call[c] EXCEPT !.at = "insert", !.uid = uid]
    BY <1>2
<1>4. k.at = "insert" /\ k.uid = uid /\ k.op = call[c].op
      /\ k.email = call[c].email /\ k.pwd = call[c].pwd /\ k.new = call[c].new
    BY <1>0, <1>3 DEF Call
<1>5. call' = [call EXCEPT ![c] = k]
    BY <1>0, <1>1, <1>3 DEF Typed
<1>6. Fits(k)
    BY <1>0, <1>4 DEF Fits
<1>7. IdFits(k)'
    BY <1>0, <1>1, <1>4 DEF IdFits
<1> QED
    BY <1>0, <1>1, <1>4, <1>5, <1>6, <1>7, GoOnKeeps

LEMMA InsertKeeps ==
    ASSUME IInv, NEW c \in Clients, Insert(c)
    PROVE  IInv'
<1> DEFINE k == call[c]
           row == [uid |-> k.uid, email |-> k.email, pwd |-> k.pwd, name |-> k.new]
<1>0. /\ k \in Call /\ Fits(k) /\ IdFits(k) /\ Typed /\ IdsRange /\ CreatedOnce
      /\ k.at = "insert" /\ k.op = "create" /\ k.uid \in Int
      /\ calls[c] \in Nat /\ faults \in 0 .. MaxFaults
    BY DEF IInv, Typed, ClientsFit, ClientFits, Insert, Fits, Call
<1>1. CASE /\ ~ Refused(row, users)
           /\ users' = users \union {row}
           /\ \/ /\ Updated(c)
                 /\ updated' = [updated EXCEPT ![c] = calls[c]]
                 /\ created' = created \union {<<c, calls[c], k.uid>>}
                 /\ Return(c, k.uid, "done")
              \/ CloseThrows(c) /\ Return(c, -1, "fault") /\ UNCHANGED created
  <2>1. row \in Row
      BY <1>0 DEF Fits, Row
  <2>2. users' \subseteq Row /\ created' \subseteq Clients \X Nat \X Int
      BY <1>0, <1>1, <2>1 DEF Typed
  <2>3. UIDs' = UIDs \union {k.uid} /\ UIDs \subseteq Int
      BY <1>0, <1>1 DEF UIDs, Typed, Row
  <2>4. k.uid \notin UIDs /\ (t = "MYSQL" => k.uid >= 0)
      BY <1>0, <1>1 DEF Refused, UIDs
  <2>5. Honest' => Honest
    <3>1. faults' \in 0 .. MaxFaults /\ faults' >= faults /\ t' = t
        BY <1>0, <1>1, JDBCTypes DEF Return
    <3> QED
        BY <1>0, <3>1, HonestBefore
  <2>6. IdsRange'
    <3>1. k.uid \in -1 .. MaxUID /\ (Honest' => k.uid >= 1)
        BY <1>0, <2>4, <2>5, AccountsAssumption DEF IdFits
    <3>2. UIDs' \subseteq -1 .. MaxUID
        BY <1>0, <2>3, <3>1 DEF IdsRange
    <3>4. ASSUME Honest' PROVE UIDs' \subseteq 1 .. MaxUID
      <4>1. UIDs \subseteq 1 .. MaxUID
          BY <1>0, <2>5, <3>4 DEF IdsRange
      <4>2. k.uid \in 1 .. MaxUID
          BY <3>1, <3>4, AccountsAssumption
      <4> QED
          BY <2>3, <4>1, <4>2
    <3>3. Greatest(UIDs')
      <4>1. CASE users = {}
        <5>1. UIDs' = {k.uid}
            BY <2>3, <4>1 DEF UIDs
        <5> QED
            BY <1>0, <5>1 DEF Greatest
      <4>2. CASE users # {}
        <5>1. PICK m \in UIDs : \A x \in UIDs : m >= x
            BY <1>0, <4>2 DEF IdsRange, Greatest
        <5>2. CASE m >= k.uid
            BY <2>3, <5>1, <5>2 DEF Greatest
        <5>3. CASE ~ (m >= k.uid)
            BY <1>0, <2>3, <5>1, <5>3 DEF Greatest
        <5> QED
            BY <5>2, <5>3
      <4> QED
          BY <4>1, <4>2
    <3> QED
        BY <3>2, <3>3, <3>4 DEF IdsRange, Greatest
  <2>7. CreatedOnce'
    <3> SUFFICES ASSUME NEW x \in created', NEW y \in created'
                 PROVE  x[3] \in UIDs' /\ (x # y => x[3] # y[3])
        BY DEF CreatedOnce
    <3>1. \A z \in created' : z \in created \/ z = <<c, calls[c], k.uid>>
        BY <1>1
    <3>2. \A z \in created : z[3] \in UIDs
        BY <1>0 DEF CreatedOnce
    <3> QED
        BY <1>0, <2>3, <2>4, <3>1, <3>2 DEF CreatedOnce
  <2>8. CASE Updated(c)
      BY <1>0, <1>1, <2>2, <2>6, <2>7, <2>8, ReturnKeeps
  <2>9. CASE CloseThrows(c) /\ Return(c, -1, "fault")
      BY <1>0, <2>2, <2>6, <2>7, <2>9, ReturnKeeps
  <2> QED
      BY <1>1, <2>8, <2>9
<1>2. ASSUME UNCHANGED <<users, updated, created>>, t' = t,
             Return(c, -1, "refused") \/ Return(c, -1, "closed") \/ Return(c, -1, "fault"),
             Queried(c) \/ Throws(c, "closed") \/ Throws(c, "fault")
      PROVE  IdsRange' /\ CreatedOnce' /\ users' \subseteq Row
             /\ created' \subseteq Clients \X Nat \X Int
  <2>1. faults' \in 0 .. MaxFaults /\ faults' >= faults
      BY <1>0, <1>2, JDBCTypes
  <2>2. Honest' => Honest
      BY <1>0, <1>2, <2>1, HonestBefore
  <2> QED
      BY <1>0, <1>2, <2>2 DEF Typed, IdsRange, CreatedOnce, UIDs
<1>3. CASE /\ Queried(c) /\ Refused(row, users) /\ Return(c, -1, "refused")
           /\ UNCHANGED <<users, updated, created>>
  <2>1. t' = t
      BY <1>3 DEF Return
  <2> QED
      BY <1>0, <1>2, <1>3, <2>1, ReturnKeeps
<1>4. ASSUME NEW why \in {"closed", "fault"},
             Throws(c, why), Return(c, -1, why), UNCHANGED <<users, updated, created>>
      PROVE  IInv'
  <2>1. t' = t
      BY <1>4 DEF Return
  <2> QED
      BY <1>0, <1>2, <1>4, <2>1, ReturnKeeps
<1> QED
    BY <1>1, <1>3, <1>4 DEF Insert

-----------------------------------------------------------------------------
(* The steps of the other calls *)

\* The table and the history stay as they are.
LEMMA TableKept ==
    ASSUME IInv, NEW c \in Clients, NEW why,
           Queried(c) \/ Throws(c, why),
           t' = t, users' = users, created' = created
    PROVE  /\ users' \subseteq Row /\ created' \subseteq Clients \X Nat \X Int
           /\ IdsRange' /\ CreatedOnce'
<1>1. /\ faults' \in 0 .. MaxFaults /\ faults' >= faults /\ faults \in 0 .. MaxFaults
    BY JDBCTypes DEF IInv, Typed
<1>2. Honest' => Honest
    BY <1>1, HonestBefore
<1> QED
    BY <1>2 DEF IInv, Typed, IdsRange, CreatedOnce, UIDs

LEMMA GetUIDbyEmailKeeps ==
    ASSUME IInv, NEW c \in Clients, GetUIDbyEmail(c)
    PROVE  IInv'
<1>0. /\ call[c] \in Call /\ Fits(call[c]) /\ Typed
      /\ call[c].at = "find"
      /\ UNCHANGED <<t, users, result, calls, updated, created>>
    BY DEF IInv, Typed, ClientsFit, ClientFits, GetUIDbyEmail, GoOn
<1>1. PICK uid \in Int, found \in BOOLEAN :
        /\ call' = [call EXCEPT ![c].at = "auth", ![c].uid = uid, ![c].found = found]
        /\ Queried(c) \/ (\E why \in {"closed", "fault"} : Throws(c, why))
        /\ found \/ uid = -1
  <2>1. CASE /\ Queried(c)
             /\ \E u \in {u \in users : u.email = call[c].email} :
                   call' = [call EXCEPT ![c].at = "auth", ![c].uid = u.uid, ![c].found = TRUE]
    <3>1. PICK u \in users :
            call' = [call EXCEPT ![c].at = "auth", ![c].uid = u.uid, ![c].found = TRUE]
        BY <2>1
    <3>2. u.uid \in Int
        BY <1>0 DEF Typed, Row
    <3>3. TRUE \in BOOLEAN
        OBVIOUS
    <3> WITNESS u.uid \in Int, TRUE \in BOOLEAN
    <3> QED
        BY <2>1, <3>1
  <2>2. CASE /\ Queried(c) \/ (\E why \in {"closed", "fault"} : Throws(c, why))
             /\ GoOn(c, "auth", -1)
    <3>1. call' = [call EXCEPT ![c].at = "auth", ![c].uid = -1, ![c].found = call[c].found]
        BY <1>0, <2>2 DEF GoOn, Typed, Call
    <3>2. call[c].found \in BOOLEAN
        BY <1>0 DEF Call
    <3>3. -1 \in Int /\ -1 = -1
        OBVIOUS
    <3> QED
        BY <2>2, <3>1, <3>2, <3>3, Zenon
  <2> QED
      BY <2>1, <2>2, Zenon DEF GetUIDbyEmail
<1>2. [call[c] EXCEPT !.at = "auth", !.uid = uid, !.found = found] \in Call
    BY <1>0 DEF Call, Places
<1>3. PICK k \in Call : k = [call[c] EXCEPT !.at = "auth", !.uid = uid, !.found = found]
    BY <1>2
<1>4. k.at = "auth" /\ k.uid = uid /\ k.op = call[c].op /\ k.found = found
    BY <1>0, <1>3 DEF Call
<1>5. call' = [call EXCEPT ![c] = k]
    BY <1>0, <1>1, <1>3 DEF Typed
<1>6. Fits(k) /\ IdFits(k)'
    BY <1>0, <1>4 DEF Fits, IdFits
<1> QED
    BY <1>0, <1>1, <1>4, <1>5, <1>6, GoOnKeeps

LEMMA AuthPasswordKeeps ==
    ASSUME IInv, NEW c \in Clients, AuthPassword(c)
    PROVE  IInv'
<1>0. /\ call[c] \in Call /\ Fits(call[c]) /\ LoginFits(call[c], result[c])
      /\ Typed /\ IdsRange
      /\ call[c].at = "auth" /\ t' = t
      /\ UNCHANGED <<users, updated, created>>
    BY DEF IInv, Typed, ClientsFit, ClientFits, AuthPassword, GoOn, Return
<1>1. CASE /\ Queried(c) /\ PasswordMatches(call[c].uid, call[c].pwd)
           /\ Return(c, 0, "done")
  <2>1. Honest' = Honest
      BY <1>0, <1>1 DEF Honest, Queried
  <2>2. Honest => call[c].uid # -1
      BY <1>0, <1>1 DEF PasswordMatches, UIDs, IdsRange
  <2>3. Honest' => ((call[c].op = "login" /\ 0 = 0) => call[c].found)
      BY <1>0, <2>1, <2>2 DEF LoginFits
  <2> QED
      BY <1>0, <1>1, <2>3, TableKept, ReturnKeeps
<1>2. CASE /\ Queried(c) /\ call[c].op = "updatePwd"
           /\ GoOn(c, "update", call[c].uid)
  <2>1. [call[c] EXCEPT !.at = "update"] \in Call
      BY <1>0 DEF Call, Places
  <2>2. PICK k \in Call : k = [call[c] EXCEPT !.at = "update"]
      BY <2>1
  <2>3. k.at = "update" /\ k.op = "updatePwd" /\ k.new = call[c].new
      BY <1>0, <1>2, <2>2 DEF Call
  <2>4. call' = [call EXCEPT ![c] = k]
      BY <1>0, <1>2, <2>2 DEF GoOn, Typed, Call
  <2>5. Fits(k) /\ IdFits(k)'
      BY <1>0, <1>2, <2>3 DEF Fits, IdFits
  <2>6. UNCHANGED <<t, users, result, calls, updated, created>>
      BY <1>0, <1>2 DEF GoOn
  <2> QED
      BY <1>0, <1>2, <2>3, <2>4, <2>5, <2>6, GoOnKeeps
<1>3. ASSUME NEW code \in {-1, -2}, Queried(c), Return(c, code, "wrong")
      PROVE  IInv'
    BY <1>0, <1>3, TableKept, ReturnKeeps
<1>4. ASSUME NEW code \in {-1, -3}, NEW why \in {"closed", "fault"},
             Throws(c, why), Return(c, code, why)
      PROVE  IInv'
    BY <1>0, <1>4, TableKept, ReturnKeeps
<1> QED
    BY <1>1, <1>2, <1>3, <1>4 DEF AuthPassword

LEMMA UpdateKeeps ==
    ASSUME IInv, NEW c \in Clients, Update(c)
    PROVE  IInv'
<1> DEFINE k == call[c]
           old == {u \in users : u.uid = k.uid}
           new == {Changed(k, u) : u \in old}
           others == users \ old
<1>0. /\ k \in Call /\ Fits(k) /\ Typed /\ IdsRange /\ CreatedOnce
      /\ k.at = "update" /\ k.op \in {"updatePwd", "updateUName", "updateUEmail"}
      /\ t' = t /\ created' = created
    BY DEF IInv, Typed, ClientsFit, ClientFits, Update, Fits, Return
<1>1. CASE /\ users' = others \union new
           /\ \/ /\ Updated(c)
                 /\ updated' = [updated EXCEPT ![c] = calls[c]]
                 /\ Return(c, 0, "done")
              \/ \E code \in {-1, -2} : CloseThrows(c) /\ Return(c, code, "fault")
  <2>1. \A u \in old : Changed(k, u) \in Row /\ Changed(k, u).uid = u.uid
    <3> SUFFICES ASSUME NEW u \in old
                 PROVE  Changed(k, u) \in Row /\ Changed(k, u).uid = u.uid
        OBVIOUS
    <3>1. u \in Row
        BY <1>0 DEF Typed
    <3>2. CASE k.op = "updatePwd"
        BY <1>0, <3>1, <3>2 DEF Changed, Fits, Row
    <3>3. CASE k.op = "updateUName"
        BY <1>0, <3>1, <3>3 DEF Changed, Fits, Row
    <3>4. CASE k.op = "updateUEmail"
        BY <1>0, <3>1, <3>4 DEF Changed, Fits, Row
    <3> QED
        BY <1>0, <3>2, <3>3, <3>4
  <2>2. users' \subseteq Row /\ created' \subseteq Clients \X Nat \X Int
      BY <1>0, <1>1, <2>1 DEF Typed
  <2>3. UIDs' = UIDs /\ (users' # {} => users # {})
    <3>1. UIDs' \subseteq UIDs
        BY <1>1, <2>1 DEF UIDs
    <3>2. ASSUME NEW u \in users PROVE u.uid \in UIDs'
      <4>1. CASE u \in old
          BY <1>1, <2>1, <4>1 DEF UIDs
      <4>2. CASE u \in others
          BY <1>1, <4>2 DEF UIDs
      <4> QED
          BY <4>1, <4>2
    <3> QED
        BY <1>1, <3>1, <3>2 DEF UIDs
  <2>4. Honest' => Honest
    <3>1. faults \in 0 .. MaxFaults /\ faults' \in 0 .. MaxFaults /\ faults' >= faults
        BY <1>0, <1>1, JDBCTypes DEF Typed
    <3> QED
        BY <1>0, <3>1, HonestBefore
  <2>5. IdsRange' /\ CreatedOnce'
    <3>1. IdsRange'
        BY <1>0, <2>3, <2>4 DEF IdsRange, Greatest
    <3>2. CreatedOnce'
        BY <1>0, <2>3 DEF CreatedOnce
    <3> QED
        BY <3>1, <3>2
  <2>6. call[c].at # "idle" /\ call[c].op # "login"
      BY <1>0
  <2>7. CASE /\ Updated(c) /\ updated' = [updated EXCEPT ![c] = calls[c]]
             /\ Return(c, 0, "done")
    <3>1. 0 \in Int /\ Updated(c) /\ updated' = [updated EXCEPT ![c] = calls[c]]
          /\ Return(c, 0, "done")
        BY <2>7
    <3> QED
        BY <2>2, <2>5, <2>6, <3>1, ReturnKeeps
  <2>8. ASSUME NEW code \in {-1, -2}, CloseThrows(c), Return(c, code, "fault")
        PROVE  IInv'
      BY <2>2, <2>5, <2>6, <2>8, ReturnKeeps
  <2> QED
      BY <1>1, <2>7, <2>8
<1>2. CASE /\ Queried(c) /\ Return(c, -1, "refused") /\ UNCHANGED <<users, updated>>
    BY <1>0, <1>2, TableKept, ReturnKeeps
<1>3. ASSUME NEW why \in {"closed", "fault"}, NEW code \in {-1, -2},
             Throws(c, why), Return(c, code, why), UNCHANGED <<users, updated>>
      PROVE  IInv'
    BY <1>0, <1>3, TableKept, ReturnKeeps
<1> QED
    BY <1>1, <1>2, <1>3 DEF Update

-----------------------------------------------------------------------------
(* The invariant *)

LEMMA StartsKeep ==
    ASSUME IInv, NEW c \in Clients,
           \/ \E e \in Emails, p \in Passwords, n \in Names : CreateAccount(c, e, p, n)
           \/ \E uid \in 1 .. MaxUID, old, new \in Passwords : UpdatePwd(c, uid, old, new)
           \/ \E uid \in 1 .. MaxUID, n \in Names : UpdateUName(c, uid, n)
           \/ \E uid \in 1 .. MaxUID, e \in Emails : UpdateUEmail(c, uid, e)
           \/ \E uid \in 1 .. MaxUID, p \in Passwords : LoginUID(c, uid, p)
           \/ \E e \in Emails, p \in Passwords : LoginEmail(c, e, p)
    PROVE  IInv'
<1>1. ASSUME NEW e \in Emails, NEW p \in Passwords, NEW n \in Names,
             CreateAccount(c, e, p, n)
      PROVE  IInv'
  <2>1. [Idle EXCEPT !.op = "create", !.at = "next", !.email = e, !.pwd = p, !.new = n] \in Call
      BY Blank DEF Call, Ops, Places
  <2>2. PICK what \in Call :
               what = [Idle EXCEPT !.op = "create", !.at = "next", !.email = e, !.pwd = p, !.new = n]
      BY <2>1
  <2>3. what.op = "create" /\ what.at = "next" /\ what.email = e /\ what.pwd = p /\ what.new = n
      BY <2>2 DEF Idle
  <2>4. Fits(what)
      BY <2>3 DEF Fits
  <2> QED
      BY <1>1, <2>2, <2>3, <2>4, StartKeeps DEF CreateAccount
<1>2. ASSUME NEW uid \in 1 .. MaxUID, NEW old \in Passwords, NEW new \in Passwords,
             UpdatePwd(c, uid, old, new)
      PROVE  IInv'
  <2>1. uid \in Int
      BY AccountsAssumption
  <2>2. [Idle EXCEPT !.op = "updatePwd", !.at = "auth", !.uid = uid, !.pwd = old, !.new = new] \in Call
      BY Blank, <2>1 DEF Call, Ops, Places
  <2>3. PICK what \in Call :
               what = [Idle EXCEPT !.op = "updatePwd", !.at = "auth", !.uid = uid, !.pwd = old, !.new = new]
      BY <2>2
  <2>4. what.op = "updatePwd" /\ what.at = "auth" /\ what.new = new
      BY <2>3 DEF Idle
  <2>5. Fits(what)
      BY <2>4 DEF Fits
  <2> QED
      BY <1>2, <2>3, <2>4, <2>5, StartKeeps DEF UpdatePwd
<1>3. ASSUME NEW uid \in 1 .. MaxUID, NEW n \in Names,
             UpdateUName(c, uid, n)
      PROVE  IInv'
  <2>1. uid \in Int
      BY AccountsAssumption
  <2>2. [Idle EXCEPT !.op = "updateUName", !.at = "update", !.uid = uid, !.new = n] \in Call
      BY Blank, <2>1 DEF Call, Ops, Places
  <2>3. PICK what \in Call :
               what = [Idle EXCEPT !.op = "updateUName", !.at = "update", !.uid = uid, !.new = n]
      BY <2>2
  <2>4. what.op = "updateUName" /\ what.at = "update" /\ what.new = n
      BY <2>3 DEF Idle
  <2>5. Fits(what)
      BY <2>4 DEF Fits
  <2> QED
      BY <1>3, <2>3, <2>4, <2>5, StartKeeps DEF UpdateUName
<1>4. ASSUME NEW uid \in 1 .. MaxUID, NEW e \in Emails,
             UpdateUEmail(c, uid, e)
      PROVE  IInv'
  <2>1. uid \in Int
      BY AccountsAssumption
  <2>2. [Idle EXCEPT !.op = "updateUEmail", !.at = "update", !.uid = uid, !.email = e] \in Call
      BY Blank, <2>1 DEF Call, Ops, Places
  <2>3. PICK what \in Call :
               what = [Idle EXCEPT !.op = "updateUEmail", !.at = "update", !.uid = uid, !.email = e]
      BY <2>2
  <2>4. what.op = "updateUEmail" /\ what.at = "update" /\ what.email = e
      BY <2>3 DEF Idle
  <2>5. Fits(what)
      BY <2>4 DEF Fits
  <2> QED
      BY <1>4, <2>3, <2>4, <2>5, StartKeeps DEF UpdateUEmail
<1>5. ASSUME NEW uid \in 1 .. MaxUID, NEW p \in Passwords,
             LoginUID(c, uid, p)
      PROVE  IInv'
  <2>1. uid \in Int
      BY AccountsAssumption
  <2>2. [Idle EXCEPT !.op = "login", !.at = "auth", !.uid = uid, !.pwd = p, !.found = TRUE] \in Call
      BY Blank, <2>1 DEF Call, Ops, Places
  <2>3. PICK what \in Call :
               what = [Idle EXCEPT !.op = "login", !.at = "auth", !.uid = uid, !.pwd = p, !.found = TRUE]
      BY <2>2
  <2>4. what.op = "login" /\ what.at = "auth" /\ what.found
      BY <2>3 DEF Idle
  <2>5. Fits(what)
      BY <2>4 DEF Fits
  <2> QED
      BY <1>5, <2>3, <2>4, <2>5, StartKeeps DEF LoginUID
<1>6. ASSUME NEW e \in Emails, NEW p \in Passwords,
             LoginEmail(c, e, p)
      PROVE  IInv'
  <2>1. [Idle EXCEPT !.op = "login", !.at = "find", !.email = e, !.pwd = p] \in Call
      BY Blank DEF Call, Ops, Places
  <2>2. PICK what \in Call :
               what = [Idle EXCEPT !.op = "login", !.at = "find", !.email = e, !.pwd = p]
      BY <2>1
  <2>3. what.op = "login" /\ what.at = "find"
      BY <2>2 DEF Idle
  <2>4. Fits(what)
      BY <2>3 DEF Fits
  <2> QED
      BY <1>6, <2>2, <2>3, <2>4, StartKeeps DEF LoginEmail
<1> QED
    BY <1>1, <1>2, <1>3, <1>4, <1>5, <1>6

LEMMA IInvStep == IInv /\ [Next]_vars => IInv'
<1>1. ASSUME IInv, Next PROVE IInv'
    BY <1>1, StartsKeep, GetnextUIDKeeps, InsertKeeps, GetUIDbyEmailKeeps,
       AuthPasswordKeeps, UpdateKeeps DEF Next
<1>2. ASSUME IInv, UNCHANGED vars PROVE IInv'
  <2> USE <1>2 DEF vars, IInv
  <2>1. Typed'
      BY DEF Typed
  <2>2. ClientsFit'
    <3> SUFFICES ASSUME NEW c \in Clients PROVE ClientFits(c)'
        BY DEF ClientsFit
    <3>1. ClientFits(c)
        BY DEF ClientsFit
    <3> QED
        BY <3>1 DEF ClientFits, Fits, IdFits, Honest, LoginFits, StatementFits, ReasonFits
  <2>3. IdsRange' /\ CreatedOnce'
      BY DEF IdsRange, Greatest, UIDs, Honest, CreatedOnce
  <2> QED
      BY <2>1, <2>2, <2>3
<1> QED
    BY <1>1, <1>2

\* The inductive invariant holds in every run of the programs.
THEOREM IInvAlways == Spec => []IInv
    BY IInvInit, IInvStep, PTL DEF Spec

-----------------------------------------------------------------------------
(* The theorems *)

\* Type correctness for any number of programs, calls and failures.
THEOREM AccountTypes == Spec => []TypeOK
<1>1. IInv => TypeOK
  <2> SUFFICES ASSUME IInv PROVE TypeOK
      OBVIOUS
  <2>1. UIDs \subseteq (IF t = "MYSQL" \/ faults = 0 THEN 1 ELSE -1) .. MaxUID
    <3>1. CASE Honest
        BY <3>1 DEF IInv, IdsRange, Honest
    <3>2. CASE ~ Honest
        BY <3>2 DEF IInv, IdsRange, Honest
    <3> QED
        BY <3>1, <3>2
  <2>2. \A u \in users : u.email \in Emails /\ u.pwd \in Passwords /\ u.name \in Names
      BY DEF IInv, Typed, Row
  <2>3. \A c \in Clients : call[c].at \in {"idle", "next", "insert", "find", "auth", "update"}
      BY DEF IInv, Typed, Call, Places
  <2> QED
      BY <2>1, <2>2, <2>3 DEF TypeOK, IInv, Typed
<1> QED
    BY <1>1, IInvAlways, PTL

\* createAccount reads the greatest id and inserts the next in two statements;
\* however the programs interleave, no id is returned twice.
THEOREM AccountsCreatedOnce == Spec => []CreatedOnce
<1>1. IInv => CreatedOnce
    BY DEF IInv
<1> QED
    BY <1>1, IInvAlways, PTL

\* The unchecked -1 of getUIDbyEmail lets nobody in.
THEOREM LoginNeedsAccount == Spec => []LoginRight
<1>1. IInv => LoginRight
    BY DEF IInv, ClientsFit, ClientFits, LoginFits, LoginRight, Honest
<1> QED
    BY <1>1, IInvAlways, PTL

\* In MySQL the first update that closes the statement is the last call that runs.
THEOREM StatementStaysClosed == Spec => []UpdateClosesStatement
<1>1. IInv => UpdateClosesStatement
    BY DEF IInv, ClientsFit, ClientFits, ReasonFits, UpdateClosesStatement
<1> QED
    BY <1>1, IInvAlways, PTL
=============================================================================
