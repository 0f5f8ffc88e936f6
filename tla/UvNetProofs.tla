----------------------------- MODULE UvNetProofs -----------------------------
(***************************************************************************)
(* Proofs about UvNet, for any number of contexts and write_params, any    *)
(* bound of the lists and any lengths of data: type correctness, who owns  *)
(* a context, what client_map holds, and that a write under way uses       *)
(* neither a freed context nor a write_param that is in use.               *)
(***************************************************************************)
EXTENDS UvNet, SequenceTheorems, TLAPS

ConnTypes ==
    /\ allocated \subseteq Ctxs
    /\ client_list \in Seq(Ctxs)
    /\ s_id \in Nat
    /\ DOMAIN client_map \subseteq 1 .. s_id
    /\ \A id \in DOMAIN client_map : client_map[id] \in Ctxs
    /\ clientid \in [Ctxs -> 0 .. s_id]
    /\ handle \in [Ctxs -> {"none", "reading", "closing", "recycling"}]
    /\ read_bufs \in Nat
    /\ damaged \in BOOLEAN /\ aborted \in BOOLEAN
    /\ Len(client_list) <= backlog + 1

SendTypes ==
    /\ writeparam_list \in Seq(Params)
    /\ DOMAIN write_params \subseteq Params
    /\ \A w \in DOMAIN write_params : write_params[w] \in [len : Nat, size : Nat]
    /\ DOMAIN write_reqs \subseteq Params
    /\ \A w \in DOMAIN write_reqs : write_reqs[w] \in Ctxs
    /\ Len(writeparam_list) <= backlog + 1

(***************************************************************************)
(* The strengthening.  Each write_param is in one place, the list or a     *)
(* write, and only once in the list.                                       *)
(***************************************************************************)
Distinct(s) == \A i, j \in 1 .. Len(s) : s[i] = s[j] => i = j

ParamsOnce ==
    /\ Distinct(writeparam_list)
    /\ Elements(writeparam_list) \subseteq DOMAIN write_params
    /\ DOMAIN write_reqs \subseteq DOMAIN write_params

ConnInv == ConnTypes /\ OneOwner /\ Registered
SendInv == SendTypes /\ ParamsOnce /\ WriteSafe /\ WriteFits
IInv == ConnInv /\ SendInv

-----------------------------------------------------------------------------
(* Sequences and functions *)

LEMMA AppendElements ==
    ASSUME NEW S, NEW s \in Seq(S), NEW x \in S
    PROVE  /\ Append(s, x) \in Seq(S) /\ Len(Append(s, x)) = Len(s) + 1
           /\ Elements(Append(s, x)) = Elements(s) \cup {x}
           /\ (Distinct(s) /\ x \notin Elements(s)) => Distinct(Append(s, x))
<1>1. /\ Append(s, x) \in Seq(S) /\ Len(Append(s, x)) = Len(s) + 1 /\ Len(s) \in Nat
      /\ \A i \in 1 .. Len(s) : Append(s, x)[i] = s[i]
      /\ Append(s, x)[Len(s) + 1] = x
    BY AppendProperties, LenProperties
<1>2. Elements(Append(s, x)) = Elements(s) \cup {x}
    BY <1>1 DEF Elements
<1>3. (Distinct(s) /\ x \notin Elements(s)) => Distinct(Append(s, x))
    BY <1>1 DEF Distinct, Elements
<1> QED
    BY <1>1, <1>2, <1>3

LEMMA TailElements ==
    ASSUME NEW S, NEW s \in Seq(S), s # << >>
    PROVE  /\ Tail(s) \in Seq(S) /\ Len(Tail(s)) = Len(s) - 1
           /\ Head(s) \in S /\ Head(s) \in Elements(s)
           /\ Elements(s) = Elements(Tail(s)) \cup {Head(s)}
           /\ Distinct(s) => Distinct(Tail(s)) /\ Head(s) \notin Elements(Tail(s))
<1>1. /\ Tail(s) \in Seq(S) /\ Len(Tail(s)) = Len(s) - 1 /\ Len(s) \in Nat /\ Len(s) > 0
      /\ \A i \in 1 .. Len(s) - 1 : Tail(s)[i] = s[i + 1]
      /\ Head(s) = s[1] /\ Head(s) \in S
    BY HeadTailProperties, LenProperties, EmptySeq
<1>2. Elements(s) = Elements(Tail(s)) \cup {Head(s)}
  <2>1. ASSUME NEW i \in 1 .. Len(s) PROVE s[i] \in Elements(Tail(s)) \cup {Head(s)}
    <3>1. CASE i = 1
        BY <1>1, <3>1
    <3>2. CASE i # 1
      <4>1. i - 1 \in 1 .. Len(Tail(s)) /\ Tail(s)[i - 1] = s[i]
          BY <1>1, <3>2
      <4> QED
          BY <4>1 DEF Elements
    <3> QED
        BY <3>1, <3>2
  <2>2. ASSUME NEW i \in 1 .. Len(Tail(s)) PROVE Tail(s)[i] \in Elements(s)
      BY <1>1 DEF Elements
  <2>3. Head(s) \in Elements(s)
      BY <1>1 DEF Elements
  <2> QED
      BY <2>1, <2>2, <2>3 DEF Elements
<1>3. ASSUME Distinct(s) PROVE Distinct(Tail(s)) /\ Head(s) \notin Elements(Tail(s))
    BY <1>1, <1>3 DEF Distinct, Elements
<1> QED
    BY <1>1, <1>2, <1>3

LEMMA EmptyElements == Elements(<< >>) = {} /\ Distinct(<< >>) /\ Len(<< >>) = 0
    BY DEF Elements, Distinct

-----------------------------------------------------------------------------
(* The initial states *)

LEMMA IInvInit == Init => IInv
<1> SUFFICES ASSUME Init PROVE IInv
    OBVIOUS
<1> USE UvNetAssumption, EmptyElements DEF Init
<1>1. ConnTypes
  <2>1. client_list \in Seq(Ctxs) /\ DOMAIN client_map = {}
      OBVIOUS
  <2>2. clientid \in [Ctxs -> 0 .. s_id]
      OBVIOUS
  <2>3. handle \in [Ctxs -> {"none", "reading", "closing", "recycling"}]
      OBVIOUS
  <2>4. Len(client_list) <= backlog + 1
      OBVIOUS
  <2> QED
      BY <2>1, <2>2, <2>3, <2>4 DEF ConnTypes
<1>2. SendTypes
    BY DEF SendTypes
<1>3. OneOwner
    BY DEF OneOwner
<1>4. Registered
    BY DEF Registered
<1>5. ParamsOnce
    BY DEF ParamsOnce
<1>6. WriteSafe /\ WriteFits
    BY DEF WriteSafe, WriteFits
<1> QED
    BY <1>1, <1>2, <1>3, <1>4, <1>5, <1>6 DEF IInv, ConnInv, SendInv

-----------------------------------------------------------------------------
(* Steps that leave the sending alone *)

LEMMA SendingKept ==
    ASSUME SendInv, UNCHANGED sending,
           ~ damaged' => /\ ~ damaged
                         /\ \A w \in DOMAIN write_reqs :
                               /\ write_reqs[w] \in allocated'
                               /\ handle'[write_reqs[w]] # "none"
    PROVE  SendInv'
<1> USE DEF sending
<1>1. SendTypes' /\ ParamsOnce'
    BY DEF SendInv, SendTypes, ParamsOnce, Distinct, Elements
<1>2. WriteSafe' /\ WriteFits'
    BY DEF SendInv, WriteSafe, WriteFits, Elements
<1> QED
    BY <1>1, <1>2 DEF SendInv

-----------------------------------------------------------------------------
(* New connections *)

(***************************************************************************)
(* The context of a new connection.  Unless it is used after it was freed, *)
(* it had no handle and was not forgotten in the list.                     *)
(***************************************************************************)
LEMMA ContextIsFree ==
    ASSUME ConnInv, NEW c \in Ctxs, ContextFor(c)
    PROVE  /\ RestOfList \in Seq(Ctxs)
           /\ Len(RestOfList) <= backlog
           /\ allocated' \subseteq Ctxs
           /\ damaged' \in BOOLEAN /\ aborted' \in BOOLEAN
           /\ ~ damaged' =>
                 /\ ~ damaged
                 /\ handle[c] = "none"
                 /\ Distinct(RestOfList) /\ c \notin Elements(RestOfList)
                 /\ Elements(RestOfList) \subseteq Elements(client_list)
                 /\ Elements(client_list) \subseteq Elements(RestOfList) \cup {c}
                 /\ allocated' = allocated \cup {c}
<1> USE UvNetAssumption
<1>1. CASE AllocTcpClientCtx(c)
  <2>1. /\ RestOfList = << >> /\ client_list = << >>
        /\ allocated' = allocated \cup {c} /\ c \notin allocated
        /\ damaged' = damaged /\ aborted' = aborted
      BY <1>1 DEF AllocTcpClientCtx, RestOfList
  <2>2. /\ allocated' \subseteq Ctxs
        /\ damaged' \in BOOLEAN /\ aborted' \in BOOLEAN
      BY <2>1 DEF ConnInv, ConnTypes
  <2>3. ~ damaged => handle[c] = "none"
      BY <2>1 DEF ConnInv, OneOwner
  <2> QED
      BY <2>1, <2>2, <2>3, EmptyElements
<1>2. CASE FrontOfList(c)
  <2>1. /\ client_list # << >> /\ c = Head(client_list) /\ RestOfList = Tail(client_list)
        /\ damaged' = (damaged \/ c \notin allocated)
        /\ aborted' \in BOOLEAN
        /\ allocated' = allocated
      BY <1>2 DEF FrontOfList, RestOfList
  <2>2. /\ client_list \in Seq(Ctxs) /\ Len(client_list) <= backlog + 1
        /\ Len(client_list) \in Nat
      BY LenProperties DEF ConnInv, ConnTypes
  <2>3. /\ RestOfList \in Seq(Ctxs) /\ Len(RestOfList) = Len(client_list) - 1
        /\ c \in Elements(client_list)
        /\ Elements(client_list) = Elements(RestOfList) \cup {c}
        /\ Distinct(client_list) => Distinct(RestOfList) /\ c \notin Elements(RestOfList)
      BY <2>1, <2>2, TailElements
  <2>4. ~ damaged => Distinct(client_list) /\ handle[c] = "none"
      BY <2>3 DEF ConnInv, OneOwner, Distinct
  <2>6. damaged \in BOOLEAN /\ allocated \subseteq Ctxs
      BY DEF ConnInv, ConnTypes
  <2>7. Len(RestOfList) <= backlog
      BY <2>2, <2>3
  <2>8. damaged' \in BOOLEAN
      BY <2>1, <2>6
  <2>9. ~ damaged' =>
                 /\ ~ damaged
                 /\ handle[c] = "none"
                 /\ Distinct(RestOfList) /\ c \notin Elements(RestOfList)
                 /\ Elements(RestOfList) \subseteq Elements(client_list)
                 /\ Elements(client_list) \subseteq Elements(RestOfList) \cup {c}
                 /\ allocated' = allocated \cup {c}
      BY <2>1, <2>3, <2>4
  <2> QED
      BY <2>1, <2>3, <2>6, <2>7, <2>8, <2>9
<1> QED
    BY <1>1, <1>2 DEF ContextFor

LEMMA NoHandleKeeps ==
    ASSUME IInv, NewConnectionNoHandle
    PROVE  IInv'
<1>1. PICK c \in Ctxs : ContextFor(c) /\ client_list' = Append(RestOfList, c)
    BY DEF NewConnectionNoHandle
<1>2. UNCHANGED <<client_map, s_id, clientid, handle, read_bufs, sending>>
    BY DEF NewConnectionNoHandle
<1>3. /\ RestOfList \in Seq(Ctxs) /\ Len(RestOfList) <= backlog
      /\ allocated' \subseteq Ctxs
      /\ damaged' \in BOOLEAN /\ aborted' \in BOOLEAN
    BY <1>1, ContextIsFree DEF IInv
<1>4. ~ damaged' =>
         /\ ~ damaged
         /\ handle[c] = "none"
         /\ Distinct(RestOfList) /\ c \notin Elements(RestOfList)
         /\ Elements(RestOfList) \subseteq Elements(client_list)
         /\ Elements(client_list) \subseteq Elements(RestOfList) \cup {c}
         /\ allocated' = allocated \cup {c}
    BY <1>1, ContextIsFree DEF IInv
<1>5. /\ client_list' \in Seq(Ctxs) /\ Len(client_list') = Len(RestOfList) + 1
      /\ Elements(client_list') = Elements(RestOfList) \cup {c}
      /\ (Distinct(RestOfList) /\ c \notin Elements(RestOfList)) => Distinct(client_list')
    BY <1>1, <1>3, AppendElements
<1>6. ConnTypes'
  <2>1. Len(client_list') <= backlog + 1
      BY <1>3, <1>5, LenProperties, UvNetAssumption
  <2> QED
      BY <1>2, <1>3, <1>5, <2>1 DEF IInv, ConnInv, ConnTypes
<1>7. OneOwner'
    BY <1>2, <1>4, <1>5 DEF IInv, ConnInv, OneOwner, Distinct
<1>8. Registered'
    BY <1>2, <1>4 DEF IInv, ConnInv, Registered
<1>9. SendInv'
  <2>1. ~ damaged' => /\ ~ damaged
                      /\ \A w \in DOMAIN write_reqs :
                            /\ write_reqs[w] \in allocated'
                            /\ handle'[write_reqs[w]] # "none"
      BY <1>2, <1>4 DEF IInv, SendInv, WriteSafe
  <2> QED
      BY <1>2, <2>1, SendingKept DEF IInv
<1> QED
    BY <1>6, <1>7, <1>8, <1>9 DEF IInv, ConnInv

(***************************************************************************)
(* A context taken from the list or from malloc gets a handle: in          *)
(* client_map, or on its way back.                                         *)
(***************************************************************************)
LEMMA HandleKeeps ==
    ASSUME IInv, NEW c \in Ctxs, NEW h \in {"reading", "recycling"},
           ContextFor(c),
           clientid' = [clientid EXCEPT ![c] = s_id + 1],
           handle' = [handle EXCEPT ![c] = h],
           client_map' = IF h = "reading" THEN With(client_map, s_id + 1, c) ELSE client_map,
           client_list' = RestOfList,
           s_id' = s_id + 1,
           UNCHANGED <<read_bufs, sending>>
    PROVE  IInv'
<1>1. /\ RestOfList \in Seq(Ctxs) /\ Len(RestOfList) <= backlog
      /\ allocated' \subseteq Ctxs
      /\ damaged' \in BOOLEAN /\ aborted' \in BOOLEAN
    BY ContextIsFree DEF IInv
<1>2. ~ damaged' =>
         /\ ~ damaged
         /\ handle[c] = "none"
         /\ Distinct(RestOfList) /\ c \notin Elements(RestOfList)
         /\ Elements(RestOfList) \subseteq Elements(client_list)
         /\ Elements(client_list) \subseteq Elements(RestOfList) \cup {c}
         /\ allocated' = allocated \cup {c}
    BY ContextIsFree DEF IInv
<1>3. /\ s_id \in Nat /\ clientid \in [Ctxs -> 0 .. s_id]
      /\ DOMAIN client_map \subseteq 1 .. s_id
      /\ \A id \in DOMAIN client_map : client_map[id] \in Ctxs
      /\ handle \in [Ctxs -> {"none", "reading", "closing", "recycling"}]
      /\ read_bufs \in Nat
    BY DEF IInv, ConnInv, ConnTypes
<1>4. /\ clientid'[c] = s_id + 1 /\ handle'[c] = h
      /\ \A d \in Ctxs : d # c => clientid'[d] = clientid[d] /\ handle'[d] = handle[d]
    BY <1>3
<1>5. /\ DOMAIN client_map' \subseteq DOMAIN client_map \cup {s_id + 1}
      /\ DOMAIN client_map \subseteq DOMAIN client_map'
      /\ h = "reading" => s_id + 1 \in DOMAIN client_map' /\ client_map'[s_id + 1] = c
      /\ h = "recycling" => s_id + 1 \notin DOMAIN client_map'
      /\ \A id \in DOMAIN client_map : client_map'[id] = client_map[id] /\ id # s_id + 1
  <2>1. \A id \in DOMAIN client_map : id # s_id + 1
      BY <1>3
  <2>2. CASE h = "reading"
    <3>1. client_map' = With(client_map, s_id + 1, c)
        BY <2>2
    <3>2. /\ DOMAIN client_map' = DOMAIN client_map \cup {s_id + 1}
          /\ client_map'[s_id + 1] = c
          /\ \A id \in DOMAIN client_map : id # s_id + 1 => client_map'[id] = client_map[id]
        BY <3>1 DEF With
    <3>3. \A id \in DOMAIN client_map : client_map'[id] = client_map[id] /\ id # s_id + 1
        BY <2>1, <3>2
    <3>4. DOMAIN client_map \subseteq DOMAIN client_map' /\ s_id + 1 \in DOMAIN client_map'
        BY <3>2
    <3> HIDE <2>1
    <3> QED
        BY <2>2, <3>2, <3>3, <3>4
  <2>3. CASE h = "recycling"
      BY <2>1, <2>3
  <2> QED
      BY <2>2, <2>3
<1>6. ConnTypes'
  <2>1. clientid' \in [Ctxs -> 0 .. s_id + 1] 
    <3>1. 0 .. s_id \subseteq 0 .. s_id + 1 /\ s_id + 1 \in 0 .. s_id + 1
        BY <1>3
    <3> QED
        BY <1>1, <1>3, <3>1
  <2>2. handle' \in [Ctxs -> {"none", "reading", "closing", "recycling"}]
      BY <1>3
  <2>3. DOMAIN client_map' \subseteq 1 .. s_id + 1
    <3>1. 1 .. s_id \subseteq 1 .. s_id + 1 /\ s_id + 1 \in 1 .. s_id + 1
        BY <1>3
    <3> QED
        BY <1>3, <1>5, <3>1
  <2>4. \A id \in DOMAIN client_map' : client_map'[id] \in Ctxs
      BY <1>3, <1>5
  <2>5. Len(client_list') <= backlog + 1
      BY <1>1, LenProperties, UvNetAssumption
  <2> QED
      BY <1>1, <1>3, <2>1, <2>2, <2>3, <2>4, <2>5 DEF ConnTypes
<1>7. OneOwner'
    BY <1>2, <1>4 DEF IInv, ConnInv, OneOwner, Distinct
<1>8. Registered'
  <2> SUFFICES ASSUME ~ damaged'
               PROVE  /\ \A id \in DOMAIN client_map' :
                            /\ clientid'[client_map'[id]] = id
                            /\ handle'[client_map'[id]] \in {"reading", "closing"}
                      /\ \A d \in Ctxs :
                            handle'[d] \in {"reading", "closing"} =>
                               clientid'[d] \in DOMAIN client_map' /\ client_map'[clientid'[d]] = d
      BY DEF Registered
  <2>1. \A id \in DOMAIN client_map :
           /\ clientid[client_map[id]] = id
           /\ handle[client_map[id]] \in {"reading", "closing"}
           /\ client_map[id] # c
      BY <1>2 DEF IInv, ConnInv, Registered
  <2>2. \A id \in DOMAIN client_map' :
                            /\ clientid'[client_map'[id]] = id
                            /\ handle'[client_map'[id]] \in {"reading", "closing"}
      BY <1>3, <1>4, <1>5, <2>1
  <2>3. \A d \in Ctxs : handle'[d] \in {"reading", "closing"} =>
           clientid'[d] \in DOMAIN client_map' /\ client_map'[clientid'[d]] = d
      BY <1>2, <1>4, <1>5 DEF IInv, ConnInv, Registered
  <2> QED
      BY <2>2, <2>3
<1>9. SendInv'
  <2>1. ~ damaged' => /\ ~ damaged
                      /\ \A w \in DOMAIN write_reqs :
                            /\ write_reqs[w] \in allocated'
                            /\ handle'[write_reqs[w]] # "none"
      BY <1>2, <1>4 DEF IInv, SendInv, SendTypes, WriteSafe
  <2> QED
      BY <2>1, SendingKept DEF IInv
<1> QED
    BY <1>6, <1>7, <1>8, <1>9 DEF IInv, ConnInv

LEMMA NewConnectionKeeps ==
    ASSUME IInv, NewConnection \/ NewConnectionFails
    PROVE  IInv'
<1>1. CASE NewConnection
  <2>1. PICK c \in Ctxs : /\ ContextFor(c)
                          /\ clientid' = [clientid EXCEPT ![c] = s_id + 1]
                          /\ handle' = [handle EXCEPT ![c] = "reading"]
                          /\ client_map' = With(client_map, s_id + 1, c)
      BY <1>1 DEF NewConnection, GetAvailaClientID
  <2> QED
      BY <1>1, <2>1, HandleKeeps DEF NewConnection, GetAvailaClientID
<1>2. CASE NewConnectionFails
  <2>1. PICK c \in Ctxs : /\ ContextFor(c)
                          /\ clientid' = [clientid EXCEPT ![c] = s_id + 1]
                          /\ handle' = [handle EXCEPT ![c] = "recycling"]
      BY <1>2 DEF NewConnectionFails, GetAvailaClientID
  <2> QED
      BY <1>2, <2>1, HandleKeeps DEF NewConnectionFails, GetAvailaClientID
<1> QED
    BY <1>1, <1>2

-----------------------------------------------------------------------------
(* Reading *)

LEMMA ReadErrorKeeps ==
    ASSUME IInv, NEW c \in Ctxs, ReadError(c)
    PROVE  IInv'
<1>1. /\ handle[c] = "reading"
      /\ handle' = [handle EXCEPT ![c] = "closing"]
      /\ read_bufs' = read_bufs + 1
      /\ UNCHANGED <<contexts, client_list, client_map, s_id, sending, damaged, aborted>>
    BY DEF ReadError
<1>2. /\ handle' \in [Ctxs -> {"none", "reading", "closing", "recycling"}]
      /\ handle'[c] = "closing" /\ \A d \in Ctxs : d # c => handle'[d] = handle[d]
    BY <1>1 DEF IInv, ConnInv, ConnTypes
<1> USE DEF contexts
<1>3. ConnTypes'
    BY <1>1, <1>2 DEF IInv, ConnInv, ConnTypes
<1>4. OneOwner'
    BY <1>1, <1>2 DEF IInv, ConnInv, OneOwner, Elements
<1>5. Registered'
  <2>1. \A id \in DOMAIN client_map : client_map[id] \in Ctxs
      BY DEF IInv, ConnInv, ConnTypes
  <2> QED
      BY <1>1, <1>2, <2>1 DEF IInv, ConnInv, Registered
<1>6. SendInv'
  <2>1. \A w \in DOMAIN write_reqs : write_reqs[w] \in Ctxs
      BY DEF IInv, SendInv, SendTypes
  <2> QED
      BY <1>1, <1>2, <2>1, SendingKept DEF IInv, SendInv, WriteSafe
<1> QED
    BY <1>3, <1>4, <1>5, <1>6 DEF IInv, ConnInv

-----------------------------------------------------------------------------
(* Close callbacks *)

\* A context that lost its handle is in the list afterwards, or the list was full.
LEMMA RecycledIs ==
    ASSUME ConnInv, NEW c \in Ctxs, handle[c] # "none"
    PROVE  /\ Recycled(c) \in Seq(Ctxs) /\ Len(Recycled(c)) <= backlog + 1
           /\ Elements(Recycled(c)) = IF ListFull THEN Elements(client_list)
                                      ELSE Elements(client_list) \cup {c}
           /\ ~ damaged => Distinct(Recycled(c)) /\ c \notin Elements(client_list)
<1>1. client_list \in Seq(Ctxs) /\ Len(client_list) <= backlog + 1 /\ Len(client_list) \in Nat
    BY LenProperties DEF ConnInv, ConnTypes
<1>2. ~ damaged => Distinct(client_list) /\ c \notin Elements(client_list)
    BY DEF ConnInv, OneOwner, Distinct
<1>3. CASE ListFull
    BY <1>1, <1>2, <1>3 DEF Recycled
<1>4. CASE ~ ListFull
  <2>1. Len(client_list) <= backlog
      BY <1>1, <1>4, UvNetAssumption DEF ListFull
  <2>2. /\ Append(client_list, c) \in Seq(Ctxs)
        /\ Len(Append(client_list, c)) = Len(client_list) + 1
        /\ Elements(Append(client_list, c)) = Elements(client_list) \cup {c}
        /\ ~ damaged => Distinct(Append(client_list, c))
      BY <1>1, <1>2, AppendElements
  <2> QED
      BY <1>1, <1>2, <1>4, <2>1, <2>2, UvNetAssumption DEF Recycled
<1> QED
    BY <1>3, <1>4

LEMMA RecycleTcpHandleKeeps ==
    ASSUME IInv, NEW c \in Ctxs, RecycleTcpHandle(c)
    PROVE  IInv'
<1>1. /\ handle[c] = "recycling"
      /\ \A w \in DOMAIN write_reqs : write_reqs[w] # c
      /\ handle' = [handle EXCEPT ![c] = "none"]
      /\ client_list' = Recycled(c)
      /\ allocated' = IF ListFull THEN allocated \ {c} ELSE allocated
      /\ UNCHANGED <<client_map, s_id, clientid, read_bufs, sending, damaged, aborted>>
    BY DEF RecycleTcpHandle, CloseDone
<1>2. /\ handle' \in [Ctxs -> {"none", "reading", "closing", "recycling"}]
      /\ handle'[c] = "none" /\ \A d \in Ctxs : d # c => handle'[d] = handle[d]
    BY <1>1 DEF IInv, ConnInv, ConnTypes
<1>3. /\ client_list' \in Seq(Ctxs) /\ Len(client_list') <= backlog + 1
      /\ Elements(client_list') = IF ListFull THEN Elements(client_list)
                                  ELSE Elements(client_list) \cup {c}
      /\ ~ damaged => Distinct(client_list') /\ c \notin Elements(client_list)
    BY <1>1, RecycledIs DEF IInv
<1>4. ConnTypes'
    BY <1>1, <1>2, <1>3 DEF IInv, ConnInv, ConnTypes
<1>5. OneOwner'
    BY <1>1, <1>2, <1>3 DEF IInv, ConnInv, OneOwner, Distinct
<1>6. Registered'
  <2>1. \A id \in DOMAIN client_map : client_map[id] \in Ctxs
      BY DEF IInv, ConnInv, ConnTypes
  <2> QED
      BY <1>1, <1>2, <2>1 DEF IInv, ConnInv, Registered
<1>7. SendInv'
  <2>1. \A w \in DOMAIN write_reqs : write_reqs[w] \in Ctxs
      BY DEF IInv, SendInv, SendTypes
  <2> QED
      BY <1>1, <1>2, <2>1, SendingKept DEF IInv, SendInv, WriteSafe
<1> QED
    BY <1>4, <1>5, <1>6, <1>7 DEF IInv, ConnInv

LEMMA ClosedKnownKeeps ==
    ASSUME IInv, NEW c \in Ctxs, SubClientClosed(c), clientid[c] \in DOMAIN client_map
    PROVE  IInv'
<1> DEFINE d == client_map[clientid[c]]
           freed == IF ListFull THEN {c} ELSE {}
<1>1. /\ handle[c] = "closing"
      /\ \A w \in DOMAIN write_reqs : write_reqs[w] # c
      /\ clientid[c] \in DOMAIN client_map
      /\ handle' = [handle EXCEPT ![c] = "none"]
      /\ client_list' = Recycled(c)
      /\ allocated' = (allocated \ freed) \ {d}
      /\ aborted' \in BOOLEAN
      /\ client_map' = Without(client_map, clientid[c])
      /\ UNCHANGED <<s_id, clientid, read_bufs, sending, damaged>>
    BY DEF SubClientClosed, CloseDone
<1>2. /\ handle' \in [Ctxs -> {"none", "reading", "closing", "recycling"}]
      /\ handle'[c] = "none" /\ \A e \in Ctxs : e # c => handle'[e] = handle[e]
    BY <1>1 DEF IInv, ConnInv, ConnTypes
<1>3. /\ client_list' \in Seq(Ctxs) /\ Len(client_list') <= backlog + 1
      /\ Elements(client_list') = IF ListFull THEN Elements(client_list)
                                  ELSE Elements(client_list) \cup {c}
      /\ ~ damaged => Distinct(client_list') /\ c \notin Elements(client_list)
    BY <1>1, RecycledIs DEF IInv
<1>4. /\ DOMAIN client_map' = DOMAIN client_map \ {clientid[c]}
      /\ \A id \in DOMAIN client_map' : client_map'[id] = client_map[id]
    BY <1>1 DEF Without
<1>5. ~ damaged => allocated' = allocated \ {c}
  <2>1. ~ damaged => d = c
      BY <1>1 DEF IInv, ConnInv, Registered
  <2>2. freed \subseteq {c}
      OBVIOUS
  <2> HIDE DEF d, freed
  <2> QED
      BY <1>1, <2>1, <2>2
<1>6. \A id \in DOMAIN client_map : client_map[id] \in Ctxs
    BY DEF IInv, ConnInv, ConnTypes
<1>7. ConnTypes'
  <2>1. allocated' \subseteq Ctxs
      BY <1>1 DEF IInv, ConnInv, ConnTypes
  <2> HIDE DEF d, freed
  <2> QED
      BY <1>1, <1>2, <1>3, <1>4, <2>1 DEF IInv, ConnInv, ConnTypes
<1> HIDE DEF d, freed
<1>8. OneOwner'
    BY <1>1, <1>2, <1>3, <1>5 DEF IInv, ConnInv, OneOwner, Distinct
<1>9. Registered'
    BY <1>1, <1>2, <1>4, <1>6 DEF IInv, ConnInv, Registered
<1>10. SendInv'
  <2>1. \A w \in DOMAIN write_reqs : write_reqs[w] \in Ctxs
      BY DEF IInv, SendInv, SendTypes
  <2> QED
      BY <1>1, <1>2, <1>5, <2>1, SendingKept DEF IInv, SendInv, WriteSafe
<1> QED
    BY <1>7, <1>8, <1>9, <1>10 DEF IInv, ConnInv

\* A connection client_map does not know: only after a freed context was used.
LEMMA ClosedUnknownKeeps ==
    ASSUME IInv, NEW c \in Ctxs, SubClientClosed(c), clientid[c] \notin DOMAIN client_map
    PROVE  IInv'
<1>1. /\ handle[c] = "closing"
      /\ handle' = [handle EXCEPT ![c] = "none"]
      /\ UNCHANGED <<allocated, aborted, client_list, client_map>>
      /\ UNCHANGED <<s_id, clientid, read_bufs, sending, damaged>>
    BY DEF SubClientClosed, CloseDone
<1>2. damaged /\ damaged' = damaged
    BY <1>1 DEF IInv, ConnInv, Registered
<1>3. handle' \in [Ctxs -> {"none", "reading", "closing", "recycling"}]
    BY <1>1 DEF IInv, ConnInv, ConnTypes
<1>4. ConnTypes'
    BY <1>1, <1>3 DEF IInv, ConnInv, ConnTypes
<1>5. OneOwner' /\ Registered'
    BY <1>2 DEF OneOwner, Registered
<1>6. SendInv'
    BY <1>1, <1>2, SendingKept DEF IInv
<1> QED
    BY <1>4, <1>5, <1>6 DEF IInv, ConnInv

LEMMA SubClientClosedKeeps ==
    ASSUME IInv, NEW c \in Ctxs, SubClientClosed(c)
    PROVE  IInv'
    BY ClosedKnownKeeps, ClosedUnknownKeeps

-----------------------------------------------------------------------------
(* Sending *)

\* What sending leaves alone.
LEMMA ConnectionsKept ==
    ASSUME ConnInv,
           UNCHANGED <<contexts, client_list, client_map, s_id, handle, read_bufs,
                       damaged, aborted>>
    PROVE  ConnInv'
<1> USE DEF contexts, Elements
<1>1. ConnTypes'
    BY DEF ConnInv, ConnTypes
<1>2. OneOwner'
    BY DEF ConnInv, OneOwner
<1>3. Registered'
    BY DEF ConnInv, Registered
<1> QED
    BY <1>1, <1>2, <1>3 DEF ConnInv

LEMMA BufFits ==
    ASSUME SendInv, NEW w, NEW n \in Nat
    PROVE  /\ BufFor(ParamBuf(w), n) \in [len : Nat, size : Nat]
           /\ BufFor(ParamBuf(w), n).len <= BufFor(ParamBuf(w), n).size
<1>1. ParamBuf(w) \in [len : Nat, size : Nat] /\ ParamBuf(w).len <= ParamBuf(w).size
    BY UvNetAssumption DEF SendInv, SendTypes, WriteFits, ParamBuf
<1> QED
    BY <1>1 DEF BufFor

\* The write_param that is taken is neither in the list afterwards nor under way.
LEMMA ParamIsFree ==
    ASSUME SendInv, NEW w \in Params, TakeParam(w)
    PROVE  /\ RestOfParams \in Seq(Params) /\ Len(RestOfParams) <= backlog
           /\ Distinct(RestOfParams) /\ w \notin Elements(RestOfParams)
           /\ Elements(RestOfParams) \subseteq Elements(writeparam_list)
           /\ w \notin DOMAIN write_reqs
<1>1. CASE writeparam_list = << >> /\ w \notin DOMAIN write_params
  <2>1. RestOfParams = << >>
      BY <1>1 DEF RestOfParams
  <2> QED
      BY <1>1, <2>1, EmptyElements, UvNetAssumption DEF SendInv, ParamsOnce
<1>2. CASE writeparam_list # << >> /\ w = Head(writeparam_list)
  <2>1. RestOfParams = Tail(writeparam_list)
      BY <1>2 DEF RestOfParams
  <2>2. /\ writeparam_list \in Seq(Params) /\ Len(writeparam_list) <= backlog + 1
        /\ Len(writeparam_list) \in Nat /\ Distinct(writeparam_list)
      BY LenProperties DEF SendInv, SendTypes, ParamsOnce
  <2>3. /\ RestOfParams \in Seq(Params) /\ Len(RestOfParams) = Len(writeparam_list) - 1
        /\ w \in Elements(writeparam_list)
        /\ Elements(writeparam_list) = Elements(RestOfParams) \cup {w}
        /\ Distinct(RestOfParams) /\ w \notin Elements(RestOfParams)
      BY <1>2, <2>1, <2>2, TailElements
  <2>4. w \notin DOMAIN write_reqs
      BY <2>3 DEF SendInv, WriteSafe
  <2>5. Len(RestOfParams) <= backlog
      BY <2>2, <2>3, UvNetAssumption
  <2> QED
      BY <2>3, <2>4, <2>5
<1> QED
    BY <1>1, <1>2 DEF TakeParam

LEMMA sendinlKeeps ==
    ASSUME IInv, NEW c \in Ctxs, NEW n \in SendSizes, sendinl(c, n)
    PROVE  IInv'
<1>1. PICK w \in Params :
          /\ TakeParam(w)
          /\ write_params' = With(write_params, w, BufFor(ParamBuf(w), n))
          /\ \/ /\ write_reqs' = With(write_reqs, w, c)
                /\ writeparam_list' = RestOfParams
             \/ /\ writeparam_list' = Append(RestOfParams, w)
                /\ write_reqs' = write_reqs
    BY DEF sendinl
<1>2. /\ handle[c] = "reading"
      /\ UNCHANGED <<contexts, client_list, client_map, s_id, handle, read_bufs,
                     damaged, aborted>>
    BY DEF sendinl
<1>3. /\ RestOfParams \in Seq(Params) /\ Len(RestOfParams) <= backlog
      /\ Distinct(RestOfParams) /\ w \notin Elements(RestOfParams)
      /\ Elements(RestOfParams) \subseteq Elements(writeparam_list)
      /\ w \notin DOMAIN write_reqs
    BY <1>1, ParamIsFree DEF IInv
<1>4. /\ DOMAIN write_params' = DOMAIN write_params \cup {w}
      /\ \A v \in DOMAIN write_params' :
            /\ write_params'[v] \in [len : Nat, size : Nat]
            /\ write_params'[v].len <= write_params'[v].size
  <2>1. /\ DOMAIN write_params' = DOMAIN write_params \cup {w}
        /\ write_params'[w] = BufFor(ParamBuf(w), n)
        /\ \A v \in DOMAIN write_params : v # w => write_params'[v] = write_params[v]
      BY <1>1 DEF With
  <2>2. n \in Nat
      BY UvNetAssumption
  <2>3. /\ write_params'[w] \in [len : Nat, size : Nat]
        /\ write_params'[w].len <= write_params'[w].size
      BY <2>1, <2>2, BufFits DEF IInv
  <2>4. \A v \in DOMAIN write_params :
            /\ write_params[v] \in [len : Nat, size : Nat]
            /\ write_params[v].len <= write_params[v].size
      BY DEF IInv, SendInv, SendTypes, WriteFits
  <2> QED
      BY <2>1, <2>3, <2>4
<1>5. /\ DOMAIN write_reqs' \subseteq DOMAIN write_reqs \cup {w}
      /\ w \in DOMAIN write_reqs' =>
            write_reqs'[w] = c /\ w \notin Elements(writeparam_list')
      /\ \A v \in DOMAIN write_reqs : write_reqs'[v] = write_reqs[v] /\ v # w
      /\ writeparam_list' \in Seq(Params) /\ Len(writeparam_list') <= backlog + 1
      /\ Distinct(writeparam_list')
      /\ Elements(writeparam_list') \subseteq Elements(writeparam_list) \cup {w}
  <2>1. CASE write_reqs' = With(write_reqs, w, c) /\ writeparam_list' = RestOfParams
    <3>1. /\ DOMAIN write_reqs' = DOMAIN write_reqs \cup {w} /\ write_reqs'[w] = c
          /\ \A v \in DOMAIN write_reqs : v # w => write_reqs'[v] = write_reqs[v]
        BY <2>1 DEF With
    <3>2. Len(RestOfParams) <= backlog + 1
        BY <1>3, LenProperties, UvNetAssumption
    <3> QED
        BY <1>3, <2>1, <3>1, <3>2
  <2>2. CASE writeparam_list' = Append(RestOfParams, w) /\ write_reqs' = write_reqs
    <3>1. /\ writeparam_list' \in Seq(Params)
          /\ Len(writeparam_list') = Len(RestOfParams) + 1
          /\ Elements(writeparam_list') = Elements(RestOfParams) \cup {w}
          /\ Distinct(writeparam_list')
        BY <1>3, <2>2, AppendElements
    <3>2. Len(RestOfParams) + 1 <= backlog + 1
        BY <1>3, LenProperties, UvNetAssumption
    <3> QED
        BY <1>3, <2>2, <3>1, <3>2
  <2> QED
      BY <1>1, <2>1, <2>2
<1>6. SendTypes'
    BY <1>4, <1>5 DEF IInv, SendInv, SendTypes
<1>7. ParamsOnce'
    BY <1>4, <1>5 DEF IInv, SendInv, ParamsOnce
<1>8. WriteSafe'
  <2>1. ~ damaged => c \in allocated
      BY <1>2 DEF IInv, ConnInv, OneOwner
  <2> QED
      BY <1>2, <1>5, <2>1 DEF IInv, SendInv, WriteSafe, contexts
<1>9. WriteFits'
    BY <1>4 DEF WriteFits
<1> QED
    BY <1>2, <1>6, <1>7, <1>8, <1>9, ConnectionsKept DEF IInv, SendInv

LEMMA AfterSendKeeps ==
    ASSUME IInv, NEW w \in Params, AfterSend(w)
    PROVE  IInv'
<1>1. /\ w \in DOMAIN write_reqs
      /\ write_reqs' = Without(write_reqs, w)
      /\ IF Len(writeparam_list) > backlog
         THEN /\ write_params' = Without(write_params, w)
              /\ UNCHANGED writeparam_list
         ELSE /\ writeparam_list' = Append(writeparam_list, w)
              /\ UNCHANGED write_params
      /\ UNCHANGED <<contexts, client_list, client_map, s_id, handle, read_bufs,
                     damaged, aborted>>
    BY DEF AfterSend
<1>2. /\ DOMAIN write_reqs' = DOMAIN write_reqs \ {w}
      /\ \A v \in DOMAIN write_reqs' : write_reqs'[v] = write_reqs[v]
    BY <1>1 DEF Without
<1>3. /\ writeparam_list \in Seq(Params) /\ Len(writeparam_list) \in Nat
      /\ Distinct(writeparam_list)
      /\ Elements(writeparam_list) \subseteq DOMAIN write_params
      /\ w \notin Elements(writeparam_list) /\ w \in DOMAIN write_params
    BY <1>1, LenProperties DEF IInv, SendInv, SendTypes, ParamsOnce, WriteSafe
<1>4. /\ writeparam_list' \in Seq(Params) /\ Len(writeparam_list') <= backlog + 1
      /\ Distinct(writeparam_list')
      /\ Elements(writeparam_list') \subseteq Elements(writeparam_list) \cup {w}
      /\ Elements(writeparam_list') \subseteq DOMAIN write_params'
      /\ DOMAIN write_reqs' \subseteq DOMAIN write_params'
      /\ DOMAIN write_params' \subseteq DOMAIN write_params
      /\ \A v \in DOMAIN write_params' : write_params'[v] = write_params[v]
  <2>1. CASE Len(writeparam_list) > backlog
    <3>1. /\ writeparam_list' = writeparam_list
          /\ DOMAIN write_params' = DOMAIN write_params \ {w}
          /\ \A v \in DOMAIN write_params' : write_params'[v] = write_params[v]
        BY <1>1, <2>1 DEF Without
    <3> QED
        BY <1>2, <1>3, <3>1 DEF IInv, SendInv, SendTypes, ParamsOnce
  <2>2. CASE ~ (Len(writeparam_list) > backlog)
    <3>1. writeparam_list' = Append(writeparam_list, w) /\ write_params' = write_params
        BY <1>1, <2>2
    <3>2. /\ writeparam_list' \in Seq(Params)
          /\ Len(writeparam_list') = Len(writeparam_list) + 1
          /\ Elements(writeparam_list') = Elements(writeparam_list) \cup {w}
          /\ Distinct(writeparam_list')
        BY <1>3, <3>1, AppendElements
    <3>3. Len(writeparam_list') <= backlog + 1
        BY <1>3, <2>2, <3>2, UvNetAssumption
    <3> QED
        BY <1>2, <1>3, <3>1, <3>2, <3>3 DEF IInv, SendInv, ParamsOnce
  <2> QED
      BY <2>1, <2>2
<1>5. SendTypes'
    BY <1>2, <1>4 DEF IInv, SendInv, SendTypes
<1>6. ParamsOnce'
    BY <1>4 DEF ParamsOnce
<1>7. WriteSafe'
    BY <1>1, <1>2, <1>4 DEF IInv, SendInv, WriteSafe, contexts
<1>8. WriteFits'
    BY <1>4 DEF IInv, SendInv, WriteFits
<1> QED
    BY <1>1, <1>5, <1>6, <1>7, <1>8, ConnectionsKept DEF IInv, SendInv

-----------------------------------------------------------------------------
(* The invariant *)

LEMMA IInvStep == IInv /\ [Next]_vars => IInv'
<1>1. ASSUME IInv, Next PROVE IInv'
  <2>1. CASE NewConnectionNoHandle \/ NewConnectionFails \/ NewConnection
      BY <1>1, <2>1, NoHandleKeeps, NewConnectionKeeps
  <2>2. ASSUME NEW c \in Ctxs, ReadError(c) PROVE IInv'
      BY <1>1, <2>2, ReadErrorKeeps
  <2>3. ASSUME NEW c \in Ctxs, NEW n \in SendSizes, sendinl(c, n) PROVE IInv'
      BY <1>1, <2>3, sendinlKeeps
  <2>4. CASE LoopStep
      BY <1>1, <2>4, RecycleTcpHandleKeeps, SubClientClosedKeeps, AfterSendKeeps DEF LoopStep
  <2>5. CASE Finished
    <3>1. ConnInv'
        BY <1>1, <2>5, ConnectionsKept DEF IInv, Finished, vars, contexts
    <3>2. SendInv'
        BY <1>1, <2>5, SendingKept DEF IInv, SendInv, WriteSafe, Finished, vars, sending
    <3> QED
        BY <3>1, <3>2 DEF IInv
  <2> QED
      BY <1>1, <2>1, <2>2, <2>3, <2>4, <2>5 DEF Next
<1>2. ASSUME IInv, UNCHANGED vars PROVE IInv'
  <2>1. ConnInv'
      BY <1>2, ConnectionsKept DEF IInv, vars, contexts
  <2>2. SendInv'
      BY <1>2, SendingKept DEF IInv, SendInv, WriteSafe, vars, sending
  <2> QED
      BY <2>1, <2>2 DEF IInv
<1> QED
    BY <1>1, <1>2

\* The inductive invariant holds in every run of the loop's callbacks.
THEOREM IInvAlways == Spec => []IInv
    BY IInvInit, IInvStep, PTL DEF Spec

-----------------------------------------------------------------------------
(* The theorems *)

\* Type correctness for any number of contexts, write_params and connections.
THEOREM ServerTypes == Spec => []TypeOK
<1>1. IInv => TypeOK
    BY DEF IInv, ConnInv, SendInv, ConnTypes, SendTypes, TypeOK
<1> QED
    BY <1>1, IInvAlways, PTL

\* client_list and writeparam_list stay within backlog + 1, though two error paths
\* add to them without looking at the bound.
THEOREM PoolsBounded == Spec => []PoolBounded
<1>1. IInv => PoolBounded
    BY DEF IInv, ConnInv, SendInv, ConnTypes, SendTypes, PoolBounded
<1> QED
    BY <1>1, IInvAlways, PTL

\* Until a freed context is used, each context has one owner.
THEOREM ContextHasOneOwner == Spec => []OneOwner
<1>1. IInv => OneOwner
    BY DEF IInv, ConnInv
<1> QED
    BY <1>1, IInvAlways, PTL

\* Until then client_map has exactly the connections that are open or closing.
THEOREM MapIsRight == Spec => []Registered
<1>1. IInv => Registered
    BY DEF IInv, ConnInv
<1> QED
    BY <1>1, IInvAlways, PTL

\* AfterSend finds its context, and no write_param is used for two writes at once.
THEOREM WritesAreSafe == Spec => []WriteSafe
<1>1. IInv => WriteSafe
    BY DEF IInv, SendInv
<1> QED
    BY <1>1, IInvAlways, PTL

\* No copy into a write_param writes behind its buffer, for any lengths.
THEOREM WritesFit == Spec => []WriteFits
<1>1. IInv => WriteFits
    BY DEF IInv, SendInv
<1> QED
    BY <1>1, IInvAlways, PTL
=============================================================================
