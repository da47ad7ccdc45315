---------------------------- MODULE ServerProofs ----------------------------
(***************************************************************************)
(* Theorems about Server, for any number of Serve calls, handles, clients  *)
(* and connections: types, that a connection and its entry belong to its   *)
(* thread, and that a single Serve gives every thread its own index.       *)
(***************************************************************************)
EXTENDS Server, SequenceTheorems, FiniteSetTheorems, TLAPS

Entry == [handle : Handles, status : BOOLEAN, conn : Conns]

(* The connection that a Serve has accepted and not given to a thread yet.  *)
Accepting ==
  \A s \in Servers :
    /\ client[s] # NONE <=> spc[s] \in {"push", "spawn"}
    /\ client[s] # NONE => /\ client[s] \in Conns /\ at[client[s]] = s
                           /\ c[client[s]] # NONE /\ tpc[client[s]] = "none"
    /\ spc[s] = "push" => \A i \in DOMAIN database_ : database_[i].conn # client[s]
    /\ spc[s] = "spawn" => \E i \in DOMAIN database_ : database_[i].conn = client[s]

(* A connection is entered once, with its handle, after it was accepted and *)
(* before its thread starts.                                                *)
Entered ==
  /\ \A i \in DOMAIN database_ : c[database_[i].conn] = database_[i].handle
  /\ \A i, j \in DOMAIN database_ : database_[i].conn = database_[j].conn => i = j
  /\ \A k \in Conns : tpc[k] # "none" => c[k] # NONE

(* Connections are made one after the other and accepted afterwards.        *)
Made ==
  /\ \A k \in Conns : k > made => at[k] = NONE
  /\ \A k \in Conns : at[k] = NONE => c[k] = NONE

(* A handle stands for the connection that it was given to.                 *)
HandleOf == \A h \in Handles : sock[h] \in Conns => c[sock[h]] = h

(* Whoever is not recorded as crossed has the index of its own entry.       *)
OwnIndex ==
  \A k \in Conns : tpc[k] # "none" /\ k \notin crossed =>
    id[k] \in DOMAIN database_ /\ database_[id[k]].conn = k

(* While no index is crossed, a connection keeps its handle from accept to  *)
(* the end of its thread, and gives it up then, as its entry says.          *)
OwnHandle ==
  crossed = {} =>
    /\ \A k \in Conns : c[k] # NONE /\ tpc[k] # "ended" => sock[c[k]] = k \/ c[k] \in Servers
    /\ \A k \in Conns : tpc[k] = "ended" => sock[c[k]] # k
    /\ \A i \in DOMAIN database_ : database_[i].status = (tpc[database_[i].conn] # "ended")

IInv == TypeOK /\ Accepting /\ Entered /\ Made /\ HandleOf /\ OwnIndex /\ OwnHandle

-----------------------------------------------------------------------------
(* Types *)

(* The table has no more entries than there are connections, since none is  *)
(* entered twice: the size is an index that a thread may be given.          *)
LEMMA TableBounded ==
  ASSUME TypeOK, Entered
  PROVE  Len(database_) \in 0 .. MaxConn
<1> DEFINE f == [i \in 1 .. Len(database_) |-> database_[i].conn]
<1>1. Len(database_) \in Nat /\ DOMAIN database_ = 1 .. Len(database_)
  BY LenProperties DEF TypeOK
<1>2. \A i \in 1 .. Len(database_) : database_[i] \in Entry
  BY <1>1, ElementOfSeq DEF TypeOK, Entry
<1>3. f \in [1 .. Len(database_) -> Conns]
  BY <1>2 DEF Entry
<1>4. f \in Injection(1 .. Len(database_), Conns)
  <2>1. \A i, j \in 1 .. Len(database_) : f[i] = f[j] => i = j
    BY <1>1 DEF Entered
  <2> QED
    BY <1>3, <2>1 DEF Injection, IsInjective
<1>5. /\ IsFiniteSet(1 .. Len(database_)) /\ Cardinality(1 .. Len(database_)) = Len(database_)
      /\ IsFiniteSet(Conns) /\ Cardinality(Conns) = MaxConn
  <2>1. IsFiniteSet(1 .. Len(database_)) /\ Cardinality(1 .. Len(database_)) = Len(database_)
    <3>1. \A n \in Nat : IsFiniteSet(1 .. n) /\ Cardinality(1 .. n) = n
      BY FS_Interval
    <3> QED
      BY <1>1, <3>1
  <2>2. IsFiniteSet(1 .. MaxConn) /\ Cardinality(1 .. MaxConn) = MaxConn
    BY FS_Interval, BoundsAssumption
  <2> QED
    BY <2>1, <2>2 DEF Conns
<1>6. Cardinality(1 .. Len(database_)) <= Cardinality(Conns)
  BY <1>4, <1>5, FS_Injection
<1> QED
  BY <1>1, <1>5, <1>6, BoundsAssumption

(* Every step of a Serve keeps the types. *)
LEMMA ServeType ==
  ASSUME IInv, NEW s \in Servers, Serve(s)
  PROVE  TypeOK'
<1>0. TypeOK /\ s \in Handles /\ 0 \notin Handles
  BY HandlesAssumption DEF IInv, Handles
<1> USE DEF TypeOK, Goto, threadVars, connVars, closeVars, NONE, LISTEN
<1>1. CASE Register(s)
  BY <1>0, <1>1 DEF Register
<1>2. CASE Listen(s)
  BY <1>0, <1>2 DEF Listen
<1>3. CASE ListenFails(s)
  BY <1>0, <1>3 DEF ListenFails, closesocket
<1>4. CASE accept(s)
  BY <1>0, <1>4 DEF accept
<1>5. CASE AcceptFails(s)
  BY <1>0, <1>5 DEF AcceptFails
<1>6. CASE PushBack(s)
  <2>1. spc[s] = "push" /\ client[s] \in Conns /\ c[client[s]] \in Handles
    BY <1>0, <1>6 DEF PushBack, IInv, Accepting
  <2>2. [handle |-> c[client[s]], status |-> TRUE, conn |-> client[s]] \in Entry
    BY <2>1 DEF Entry
  <2>3. database_' \in Seq(Entry)
    BY <1>0, <1>6, <2>2, AppendProperties DEF PushBack, Entry
  <2> QED
    BY <1>0, <1>6, <2>3 DEF PushBack, Entry
<1>7. CASE Spawn(s)
  <2>1. IndexRead(s) \subseteq 0 .. MaxConn
    BY <1>0, TableBounded DEF IInv, IndexRead
  <2>2. client[s] \in Conns
    BY <1>0, <1>7 DEF Spawn, IInv, Accepting
  <2>3. PICK i \in 0 .. MaxConn :
          /\ spc' = [spc EXCEPT ![s] = IF close_ THEN "join" ELSE "accept"]
          /\ tpc' = [tpc EXCEPT ![client[s]] = "recv"]
          /\ id' = [id EXCEPT ![client[s]] = i]
          /\ client' = [client EXCEPT ![s] = NONE]
          /\ crossed' \in {crossed, crossed \cup {client[s]}}
    BY <1>7, <2>1 DEF Spawn
  <2> QED
    BY <1>0, <1>7, <2>2, <2>3 DEF Spawn
<1>8. CASE Join(s)
  BY <1>0, <1>8 DEF Join, closesocket
<1> QED
  BY <1>1, <1>2, <1>3, <1>4, <1>5, <1>6, <1>7, <1>8 DEF Serve

(* An entry is marked without being moved. *)
LEMMA Marked ==
  ASSUME TypeOK, NEW k \in Conns, CloseClient(k), id[k] \in DOMAIN database_
  PROVE  /\ database_' \in Seq(Entry) /\ DOMAIN database_' = DOMAIN database_
         /\ \A i \in DOMAIN database_ :
              /\ database_'[i].conn = database_[i].conn
              /\ database_'[i].handle = database_[i].handle
              /\ database_'[i].status = IF i = id[k] THEN FALSE ELSE database_[i].status
         /\ database_[id[k]] \in Entry
         /\ sock' = [sock EXCEPT ![database_[id[k]].handle] = NONE]
<1>1. database_ \in Seq(Entry)
  BY DEF TypeOK, Entry
<1>2. Len(database_) \in Nat /\ DOMAIN database_ = 1 .. Len(database_)
  BY <1>1, LenProperties
<1>3. \A i \in DOMAIN database_ : database_[i] \in Entry
  BY <1>1, <1>2, ElementOfSeq
<1>4. database_' = [database_ EXCEPT ![id[k]].status = FALSE]
  BY DEF CloseClient
<1>5. \A i \in DOMAIN database_ : database_'[i] = IF i = id[k] THEN [database_[i] EXCEPT !.status = FALSE] ELSE database_[i]
  BY <1>2, <1>4
<1>6. \A i \in DOMAIN database_ : database_'[i] \in Entry
  BY <1>3, <1>5 DEF Entry
<1>7. database_' \in Seq(Entry) /\ DOMAIN database_' = DOMAIN database_
  <2>1. database_' \in [1 .. Len(database_) -> Entry]
    BY <1>2, <1>4, <1>6
  <2> QED
    BY <1>2, <2>1, SeqDef
<1>8. \A i \in DOMAIN database_ :
              /\ database_'[i].conn = database_[i].conn
              /\ database_'[i].handle = database_[i].handle
              /\ database_'[i].status = IF i = id[k] THEN FALSE ELSE database_[i].status
  BY <1>3, <1>5 DEF Entry
<1> QED
  BY <1>3, <1>7, <1>8 DEF CloseClient, closesocket

(* The threads, Close and the clients keep the types. *)
LEMMA OtherType ==
  ASSUME IInv,
         \/ \E k \in Conns : Thread(k)
         \/ Close \/ LockList \/ CloseListed \/ UnlockList
         \/ \E p \in Clients : Send(p) \/ ReceiveEnds(p) \/ Shutdown(p) \/ \E s \in Servers : Connect(p, s)
  PROVE  TypeOK'
<1>0. TypeOK /\ 0 \notin Handles /\ MaxConn \in Nat /\ MaxData \in Nat
  BY HandlesAssumption, BoundsAssumption DEF IInv, Handles
<1> USE DEF TypeOK, Step, threadVars, connVars, serveVars, closeVars, NONE, LISTEN
<1>1. ASSUME NEW k \in Conns, RecvData(k) PROVE TypeOK'
  <2>1. sock[c[k]] \in Conns /\ inbox[sock[c[k]]] - 1 \in 0 .. MaxData
    BY <1>0, <1>1 DEF RecvData
  <2> QED
    BY <1>0, <1>1, <2>1 DEF RecvData
<1>2. ASSUME NEW k \in Conns, RecvEnds(k) PROVE TypeOK'
  BY <1>0, <1>2 DEF RecvEnds
<1>3. ASSUME NEW k \in Conns, Respond(k) PROVE TypeOK'
  BY <1>0, <1>3 DEF Respond
<1>4. ASSUME NEW k \in Conns, SendFails(k) PROVE TypeOK'
  BY <1>0, <1>4 DEF SendFails
<1>5. ASSUME NEW k \in Conns, CloseClient(k) PROVE TypeOK'
  <2>1. database_' \in Seq(Entry) /\ sock' \in [Handles -> Conns \cup {NONE, LISTEN}]
    <3>1. CASE id[k] \in DOMAIN database_
      <4>1. /\ database_' \in Seq(Entry) /\ database_[id[k]] \in Entry
            /\ sock' = [sock EXCEPT ![database_[id[k]].handle] = NONE]
        BY <1>0, <1>5, <3>1, Marked, ZenonT(30)
      <4> QED
        BY <1>0, <4>1 DEF Entry
    <3>2. CASE id[k] \notin DOMAIN database_
      BY <1>0, <1>5, <3>2 DEF CloseClient, Entry
    <3> QED
      BY <3>1, <3>2
  <2> QED
    BY <1>0, <1>5, <2>1 DEF CloseClient, Entry
<1>6. CASE Close
  BY <1>0, <1>6 DEF Close
<1>7. CASE LockList \/ CloseListed \/ UnlockList
  BY <1>0, <1>7 DEF LockList, CloseListed, UnlockList, closesocket
<1>8. ASSUME NEW p \in Clients, Send(p) PROVE TypeOK'
  <2>1. socket_[p] \in Conns /\ inbox[socket_[p]] + 1 \in 0 .. MaxData
    BY <1>0, <1>8 DEF Send
  <2> QED
    BY <1>0, <1>8, <2>1 DEF Send
<1>9. ASSUME NEW p \in Clients, ReceiveEnds(p) PROVE TypeOK'
  BY <1>0, <1>9 DEF ReceiveEnds
<1>10. ASSUME NEW p \in Clients, Shutdown(p) PROVE TypeOK'
  BY <1>0, <1>10 DEF Shutdown
<1>11. ASSUME NEW p \in Clients, NEW s \in Servers, Connect(p, s) PROVE TypeOK'
  <2>1. made' \in Conns /\ made' \in 0 .. MaxConn
    BY <1>0, <1>11 DEF Connect, Conns
  <2>2. at' \in [Conns -> Servers \cup {NONE}] /\ socket_' \in [Clients -> Conns \cup {NONE}]
    BY <1>0, <1>11, <2>1 DEF Connect
  <2> QED
    BY <1>0, <1>11, <2>1, <2>2 DEF Connect
<1> QED
  BY <1>1, <1>2, <1>3, <1>4, <1>5, <1>6, <1>7, <1>8, <1>9, <1>10, <1>11 DEF Thread
-----------------------------------------------------------------------------
(* The invariant *)

(* Steps that enter, start and end nothing, and close no socket but         *)
(* listening ones.                                                          *)
Quiet ==
  /\ UNCHANGED <<database_, client, c, id, crossed, at, made>>
  /\ \A s \in Servers : \/ spc'[s] = spc[s]
                        \/ spc[s] \notin {"push", "spawn"} /\ spc'[s] \notin {"push", "spawn"}
  /\ \A k \in Conns : (tpc'[k] = "none" <=> tpc[k] = "none") /\ (tpc'[k] = "ended" <=> tpc[k] = "ended")
  /\ \A h \in Handles : sock'[h] = sock[h] \/ (sock'[h] = NONE /\ h \in Servers)

(* They keep the invariant. *)
LEMMA QuietKeeps ==
  ASSUME IInv, TypeOK', Quiet
  PROVE  IInv'
<1>0. TypeOK /\ NONE \notin Conns /\ NONE \notin Handles
  BY HandlesAssumption DEF IInv, NONE, Conns, Handles
<1>1. Accepting'
  BY DEF IInv, Accepting, Quiet, TypeOK
<1>2. Entered'
  BY <1>0 DEF IInv, Entered, Quiet, TypeOK, Entry
<1>3. Made'
  BY DEF IInv, Made, Quiet
<1>4. HandleOf'
  BY <1>0 DEF IInv, HandleOf, Quiet
<1>5. OwnIndex'
  BY DEF IInv, OwnIndex, Quiet
<1>6. OwnHandle'
  <2>1. database_ \in Seq(Entry) /\ DOMAIN database_ = 1 .. Len(database_)
    BY <1>0, LenProperties DEF TypeOK, Entry
  <2>2. \A i \in DOMAIN database_ : database_[i].conn \in Conns
    <3>1. \A i \in 1 .. Len(database_) : database_[i] \in Entry
      BY <2>1, ElementOfSeq
    <3> QED
      BY <2>1, <3>1 DEF Entry
  <2>3. \A k \in Conns : tpc[k] # "none" => c[k] # NONE
    BY DEF IInv, Entered
  <2>4. \A k \in Conns : c[k] # NONE => c[k] \in Handles
    BY <1>0 DEF TypeOK
  <2> QED
    BY <1>0, <2>2, <2>3, <2>4 DEF IInv, OwnHandle, Quiet
<1> QED
  BY <1>1, <1>2, <1>3, <1>4, <1>5, <1>6 DEF IInv

(* Most steps are such. *)
LEMMA QuietSteps ==
  ASSUME IInv,
         \/ \E s \in Servers : Register(s) \/ Listen(s) \/ ListenFails(s) \/ AcceptFails(s) \/ Join(s)
         \/ \E k \in Conns : RecvData(k) \/ RecvEnds(k) \/ Respond(k) \/ SendFails(k)
         \/ Close \/ LockList \/ CloseListed \/ UnlockList
         \/ \E p \in Clients : Send(p) \/ ReceiveEnds(p) \/ Shutdown(p)
  PROVE  Quiet
<1>0. TypeOK
  BY DEF IInv
<1> USE DEF TypeOK, Quiet, Goto, Step, threadVars, connVars, serveVars, closesocket
<1>1. ASSUME NEW s \in Servers, Register(s) PROVE Quiet
  BY <1>0, <1>1 DEF Register
<1>2. ASSUME NEW s \in Servers, Listen(s) PROVE Quiet
  BY <1>0, <1>2 DEF Listen
<1>3. ASSUME NEW s \in Servers, ListenFails(s) PROVE Quiet
  BY <1>0, <1>3 DEF ListenFails
<1>4. ASSUME NEW s \in Servers, AcceptFails(s) PROVE Quiet
  BY <1>0, <1>4 DEF AcceptFails
<1>5. ASSUME NEW s \in Servers, Join(s) PROVE Quiet
  BY <1>0, <1>5 DEF Join
<1>6. ASSUME NEW k \in Conns, RecvData(k) \/ RecvEnds(k) \/ Respond(k) \/ SendFails(k) PROVE Quiet
  <2>1. /\ UNCHANGED <<sock, database_, spc, client, c, id, crossed, at, made>>
        /\ tpc[k] \in {"recv", "respond"}
        /\ \E l \in {"recv", "respond", "close"} : tpc' = [tpc EXCEPT ![k] = l]
    BY <1>6 DEF RecvData, RecvEnds, Respond, SendFails
  <2> QED
    BY <1>0, <2>1
<1>7. CASE Close
  BY <1>7 DEF Close
<1>8. CASE LockList \/ CloseListed \/ UnlockList
  BY <1>0, <1>8 DEF LockList, CloseListed, UnlockList
<1>9. ASSUME NEW p \in Clients, Send(p) \/ ReceiveEnds(p) \/ Shutdown(p) PROVE Quiet
  BY <1>9 DEF Send, ReceiveEnds, Shutdown
<1> QED
  BY <1>1, <1>2, <1>3, <1>4, <1>5, <1>6, <1>7, <1>8, <1>9

(* What the table holds. *)
LEMMA Table ==
  ASSUME TypeOK
  PROVE  /\ database_ \in Seq(Entry) /\ Len(database_) \in Nat /\ DOMAIN database_ = 1 .. Len(database_)
         /\ \A i \in DOMAIN database_ : /\ database_[i] \in Entry /\ database_[i].conn \in Conns
                                        /\ database_[i].handle \in Handles
<1>1. database_ \in Seq(Entry)
  BY DEF TypeOK, Entry
<1>2. Len(database_) \in Nat /\ DOMAIN database_ = 1 .. Len(database_)
  BY <1>1, LenProperties
<1>3. \A i \in 1 .. Len(database_) : database_[i] \in Entry
  BY <1>1, ElementOfSeq
<1> QED
  BY <1>1, <1>2, <1>3 DEF Entry

(* Whom a Serve has accepted is connected to it, so no other Serve has. *)
LEMMA AcceptedBy ==
  ASSUME IInv
  PROVE  \A r \in Servers, k \in Conns : client[r] = k => at[k] = r
<1>1. NONE \notin Conns
  BY DEF NONE, Conns
<1> QED
  BY <1>1 DEF IInv, Accepting

(* accept gives a free handle to a connection that has none. *)
LEMMA AcceptKeeps ==
  ASSUME IInv, TypeOK', NEW s \in Servers, accept(s)
  PROVE  IInv'
<1>0. TypeOK /\ NONE \notin Conns /\ NONE \notin Handles
  BY HandlesAssumption DEF IInv, NONE, Conns, Handles
<1>1. PICK k \in Conns, h \in Handles :
        /\ at[k] = s /\ c[k] = NONE /\ sock[h] = NONE /\ spc[s] = "accept"
        /\ spc' = [spc EXCEPT ![s] = "push"]
        /\ sock' = [sock EXCEPT ![h] = k]
        /\ c' = [c EXCEPT ![k] = h]
        /\ client' = [client EXCEPT ![s] = k]
        /\ UNCHANGED <<database_, tpc, id, crossed, made, at>>
  BY DEF accept, Goto, connVars
<1>2. /\ c'[k] = h /\ \A l \in Conns \ {k} : c'[l] = c[l]
      /\ sock'[h] = k /\ \A g \in Handles \ {h} : sock'[g] = sock[g]
      /\ client'[s] = k /\ spc'[s] = "push"
      /\ \A r \in Servers \ {s} : client'[r] = client[r] /\ spc'[r] = spc[r]
  BY <1>0, <1>1 DEF TypeOK
<1>3. tpc[k] = "none"
  BY <1>1 DEF IInv, Entered
<1>4. \A i \in DOMAIN database_ : database_[i].conn \in Conns \ {k}
  BY <1>0, <1>1, Table DEF IInv, Entered
<1>5. Accepting'
  <2>1. \A r \in Servers \ {s} : client[r] # k
    BY <1>1, AcceptedBy
  <2> QED
    BY <1>0, <1>1, <1>2, <1>3, <1>4, <2>1 DEF IInv, Accepting
<1>6. Entered'
  BY <1>0, <1>1, <1>2, <1>3, <1>4 DEF IInv, Entered
<1>7. Made'
  BY <1>0, <1>1, <1>2, HandlesAssumption DEF IInv, Made, Handles, NONE
<1>8. HandleOf'
  BY <1>0, <1>1, <1>2 DEF IInv, HandleOf
<1>9. OwnIndex'
  BY <1>1 DEF IInv, OwnIndex
<1>10. OwnHandle'
  <2> SUFFICES ASSUME crossed = {} PROVE OwnHandle'
    BY <1>1 DEF OwnHandle
  <2>1. \A l \in Conns \ {k} : c[l] # NONE => c[l] \in Handles
    BY <1>0 DEF TypeOK
  <2>2. \A l \in Conns \ {k} : c[l] # NONE /\ tpc[l] # "ended" => sock'[c[l]] = l \/ c[l] \in Servers
    BY <1>0, <1>1, <1>2, <2>1 DEF IInv, OwnHandle
  <2>3. \A l \in Conns \ {k} : tpc[l] = "ended" => sock'[c[l]] # l
    <3>1. \A l \in Conns : tpc[l] = "ended" => c[l] # NONE
      BY DEF IInv, Entered
    <3> QED
      BY <1>0, <1>1, <1>2, <2>1, <3>1 DEF IInv, OwnHandle
  <2> QED
    BY <1>0, <1>1, <1>2, <1>3, <2>2, <2>3 DEF IInv, OwnHandle
<1> QED
  BY <1>5, <1>6, <1>7, <1>8, <1>9, <1>10 DEF IInv

(* push_back enters the connection behind the others. *)
LEMMA PushBackKeeps ==
  ASSUME IInv, TypeOK', NEW s \in Servers, PushBack(s)
  PROVE  IInv'
<1> DEFINE k == client[s]
           n == Len(database_)
<1>0. TypeOK /\ NONE \notin Conns /\ NONE \notin Handles
  BY HandlesAssumption DEF IInv, NONE, Conns, Handles
<1>1. /\ spc[s] = "push" /\ spc' = [spc EXCEPT ![s] = "spawn"]
      /\ database_' = Append(database_, [handle |-> c[k], status |-> TRUE, conn |-> k])
      /\ UNCHANGED <<sock, client, tpc, c, id, crossed, made, at>>
  BY DEF PushBack, Goto, connVars, threadVars
<1>2. /\ k \in Conns /\ at[k] = s /\ c[k] \in Handles /\ tpc[k] = "none"
      /\ \A i \in DOMAIN database_ : database_[i].conn # k
  BY <1>0, <1>1 DEF IInv, Accepting, TypeOK
<1>3. /\ n \in Nat /\ DOMAIN database_ = 1 .. n /\ DOMAIN database_' = 1 .. n + 1
      /\ \A i \in 1 .. n : database_'[i] = database_[i]
      /\ database_'[n + 1] = [handle |-> c[k], status |-> TRUE, conn |-> k]
  <2>1. [handle |-> c[k], status |-> TRUE, conn |-> k] \in Entry
    BY <1>2 DEF Entry
  <2> QED
    BY <1>0, <1>1, <2>1, Table, AppendProperties
<1>4. spc'[s] = "spawn" /\ \A r \in Servers \ {s} : spc'[r] = spc[r]
  BY <1>0, <1>1 DEF TypeOK
<1>5. \A r \in Servers \ {s} : client[r] # k
  BY <1>2, AcceptedBy
<1>6. /\ \A i \in DOMAIN database_' : i \in 1 .. n \/ i = n + 1
      /\ n + 1 \in DOMAIN database_' /\ n + 1 \notin 1 .. n
      /\ \A i \in 1 .. n : i \in DOMAIN database_'
      /\ database_'[n + 1].conn = k /\ database_'[n + 1].handle = c[k] /\ database_'[n + 1].status = TRUE
  BY <1>3
<1>7. Accepting'
  BY <1>1, <1>2, <1>3, <1>4, <1>5, <1>6 DEF IInv, Accepting
<1>8. Entered'
  BY <1>1, <1>2, <1>3, <1>6 DEF IInv, Entered
<1>9. Made' /\ HandleOf'
  BY <1>1 DEF IInv, Made, HandleOf
<1>10. OwnIndex'
  BY <1>1, <1>3, <1>6 DEF IInv, OwnIndex
<1>11. OwnHandle'
  <2> SUFFICES ASSUME crossed = {} PROVE OwnHandle'
    BY <1>1 DEF OwnHandle
  <2>1. \A i \in 1 .. n : database_'[i].status = (tpc[database_'[i].conn] # "ended")
    BY <1>3 DEF IInv, OwnHandle
  <2>2. database_'[n + 1].status = (tpc[database_'[n + 1].conn] # "ended")
    BY <1>2, <1>6
  <2>3. \A i \in DOMAIN database_' : database_'[i].status = (tpc[database_'[i].conn] # "ended")
    BY <1>6, <2>1, <2>2
  <2> QED
    BY <1>1, <2>3 DEF IInv, OwnHandle
<1> QED
  BY <1>7, <1>8, <1>9, <1>10, <1>11 DEF IInv

(* The thread of a connection starts, with its index or recorded as crossed. *)
LEMMA SpawnKeeps ==
  ASSUME IInv, TypeOK', NEW s \in Servers, Spawn(s)
  PROVE  IInv'
<1> DEFINE k == client[s]
<1>0. TypeOK /\ NONE \notin Conns /\ NONE \notin Handles
  BY HandlesAssumption DEF IInv, NONE, Conns, Handles
<1>1. PICK i \in IndexRead(s) :
        /\ spc[s] = "spawn" /\ spc' = [spc EXCEPT ![s] = IF close_ THEN "join" ELSE "accept"]
        /\ tpc' = [tpc EXCEPT ![k] = "recv"]
        /\ id' = [id EXCEPT ![k] = i]
        /\ crossed' = IF i \in DOMAIN database_ /\ database_[i].conn = k THEN crossed ELSE crossed \cup {k}
        /\ client' = [client EXCEPT ![s] = NONE]
        /\ UNCHANGED <<sock, database_, c, made, at>>
  BY DEF Spawn, Goto, connVars
<1>2. k \in Conns /\ at[k] = s /\ c[k] # NONE /\ tpc[k] = "none"
  BY <1>0, <1>1 DEF IInv, Accepting
<1>3. /\ tpc'[k] = "recv" /\ id'[k] = i /\ client'[s] = NONE /\ spc'[s] \in {"join", "accept"}
      /\ \A l \in Conns \ {k} : tpc'[l] = tpc[l] /\ id'[l] = id[l]
      /\ \A r \in Servers \ {s} : client'[r] = client[r] /\ spc'[r] = spc[r]
  BY <1>0, <1>1, <1>2 DEF TypeOK
<1>4. \A r \in Servers \ {s} : client[r] # k
  BY <1>2, AcceptedBy
<1>5. Accepting'
  BY <1>1, <1>2, <1>3, <1>4 DEF IInv, Accepting
<1>6. Entered' /\ Made' /\ HandleOf'
  BY <1>1, <1>2, <1>3 DEF IInv, Entered, Made, HandleOf
<1>7. OwnIndex'
  BY <1>1, <1>3 DEF IInv, OwnIndex
<1>8. OwnHandle'
  <2> SUFFICES ASSUME crossed' = {} PROVE OwnHandle'
    BY DEF OwnHandle
  <2>1. crossed = {}
    BY <1>1
  <2>2. \A l \in Conns : tpc'[l] = "ended" <=> tpc[l] = "ended"
    BY <1>2, <1>3
  <2>3. \A j \in DOMAIN database_ : database_[j].conn \in Conns
    BY <1>0, Table
  <2> QED
    BY <1>1, <2>1, <2>2, <2>3 DEF IInv, OwnHandle
<1> QED
  BY <1>5, <1>6, <1>7, <1>8 DEF IInv

(* The thread of a connection ends and closes what its index names. *)
LEMMA CloseClientKeeps ==
  ASSUME IInv, TypeOK', NEW k \in Conns, CloseClient(k)
  PROVE  IInv'
<1>0. TypeOK /\ NONE \notin Conns /\ NONE \notin Handles
  BY HandlesAssumption DEF IInv, NONE, Conns, Handles
<1>1. /\ tpc[k] = "close" /\ tpc' = [tpc EXCEPT ![k] = "ended"]
      /\ UNCHANGED <<spc, client, c, id, crossed, made, at>>
  BY DEF CloseClient, Step, connVars, serveVars
<1>2. tpc'[k] = "ended" /\ \A l \in Conns \ {k} : tpc'[l] = tpc[l]
  BY <1>0, <1>1 DEF TypeOK
<1>3. \A r \in Servers : client[r] # k
  BY <1>0, <1>1 DEF IInv, Accepting
<1>4. c[k] \in Handles
  BY <1>0, <1>1 DEF IInv, Entered, TypeOK
<1>5. /\ DOMAIN database_' = DOMAIN database_
      /\ \A i \in DOMAIN database_ : /\ database_'[i].conn = database_[i].conn
                                     /\ database_'[i].handle = database_[i].handle
      /\ \A h \in Handles : sock'[h] = sock[h] \/ sock'[h] = NONE
  <2>1. CASE id[k] \in DOMAIN database_
    <3>1. /\ database_[id[k]] \in Entry /\ sock' = [sock EXCEPT ![database_[id[k]].handle] = NONE]
          /\ DOMAIN database_' = DOMAIN database_
          /\ \A i \in DOMAIN database_ : /\ database_'[i].conn = database_[i].conn
                                         /\ database_'[i].handle = database_[i].handle
      BY <1>0, <2>1, Marked, ZenonT(30)
    <3> QED
      BY <1>0, <3>1 DEF TypeOK
  <2>2. CASE id[k] \notin DOMAIN database_
    BY <2>2 DEF CloseClient
  <2> QED
    BY <2>1, <2>2
<1>6. Accepting'
  BY <1>1, <1>2, <1>3, <1>5 DEF IInv, Accepting
<1>7. Entered' /\ Made'
  BY <1>1, <1>2, <1>5 DEF IInv, Entered, Made
<1>8. HandleOf'
  BY <1>0, <1>1, <1>5 DEF IInv, HandleOf
<1>9. OwnIndex'
  BY <1>1, <1>2, <1>5 DEF IInv, OwnIndex
<1>10. OwnHandle'
  <2> SUFFICES ASSUME crossed = {} PROVE OwnHandle'
    BY <1>1 DEF OwnHandle
  <2>1. /\ id[k] \in DOMAIN database_ /\ database_[id[k]].conn = k
        /\ database_[id[k]].handle = c[k]
    BY <1>1 DEF IInv, OwnIndex, Entered
  <2>2. /\ sock' = [sock EXCEPT ![c[k]] = NONE]
        /\ \A i \in DOMAIN database_ : database_'[i].status = IF i = id[k] THEN FALSE ELSE database_[i].status
    BY <1>0, <2>1, Marked
  <2>3. sock'[c[k]] = NONE /\ \A h \in Handles \ {c[k]} : sock'[h] = sock[h]
    BY <1>0, <1>4, <2>2 DEF TypeOK
  <2>4. sock[c[k]] = k \/ c[k] \in Servers
    BY <1>0, <1>1, <1>4 DEF IInv, OwnHandle
  <2>5. \A l \in Conns \ {k} : c[l] # NONE /\ tpc[l] # "ended" => sock'[c[l]] = l \/ c[l] \in Servers
    <3> SUFFICES ASSUME NEW l \in Conns \ {k}, c[l] # NONE, tpc[l] # "ended", c[l] \notin Servers
                 PROVE  sock'[c[l]] = l
      OBVIOUS
    <3>1. sock[c[l]] = l /\ c[l] \in Handles
      BY <1>0 DEF IInv, OwnHandle, TypeOK
    <3>2. c[l] # c[k]
      BY <2>4, <3>1
    <3> QED
      BY <2>3, <3>1, <3>2
  <2>6. \A l \in Conns : tpc'[l] = "ended" => sock'[c[l]] # l
    <3> SUFFICES ASSUME NEW l \in Conns, tpc'[l] = "ended" PROVE sock'[c[l]] # l
      OBVIOUS
    <3>1. CASE l = k
      BY <1>0, <2>3, <3>1
    <3>2. CASE l # k
      <4>1. tpc[l] = "ended" /\ sock[c[l]] # l
        BY <1>2, <3>2 DEF IInv, OwnHandle
      <4>2. c[l] \in Handles
        BY <1>0, <4>1 DEF IInv, Entered, TypeOK
      <4> QED
        BY <1>0, <1>5, <4>1, <4>2
    <3> QED
      BY <3>1, <3>2
  <2>7. \A i \in DOMAIN database_ : database_'[i].status = (tpc'[database_[i].conn] # "ended")
    <3> SUFFICES ASSUME NEW i \in DOMAIN database_
                 PROVE  database_'[i].status = (tpc'[database_[i].conn] # "ended")
      OBVIOUS
    <3>1. CASE i = id[k]
      BY <1>2, <2>1, <2>2, <3>1
    <3>2. CASE i # id[k]
      <4>1. database_[i].conn \in Conns \ {k}
        BY <1>0, <2>1, <3>2, Table DEF IInv, Entered
      <4> QED
        BY <1>2, <2>2, <3>2, <4>1 DEF IInv, OwnHandle
    <3> QED
      BY <3>1, <3>2
  <2> QED
    BY <1>1, <1>2, <1>5, <2>5, <2>6, <2>7 DEF OwnHandle
<1> QED
  BY <1>6, <1>7, <1>8, <1>9, <1>10 DEF IInv

(* A new connection waits in the queue of its listening socket. *)
LEMMA ConnectKeeps ==
  ASSUME IInv, TypeOK', NEW p \in Clients, NEW s \in Servers, Connect(p, s)
  PROVE  IInv'
<1>0. TypeOK /\ made < MaxConn /\ MaxConn \in Nat /\ made \in Nat
  <2>1. TypeOK /\ made < MaxConn /\ made \in 0 .. MaxConn
    BY DEF IInv, Connect, TypeOK
  <2> QED
    BY <2>1, BoundsAssumption
<1>1. /\ made' = made + 1 /\ at' = [at EXCEPT ![made + 1] = s]
      /\ UNCHANGED <<sock, database_, spc, client, tpc, c, id, crossed>>
  BY DEF Connect, serveVars, threadVars
<1>2. made + 1 \in Conns /\ at[made + 1] = NONE
  BY <1>0 DEF Conns, IInv, Made
<1>3. \A k \in Conns \ {made + 1} : at'[k] = at[k]
  BY <1>0, <1>1 DEF TypeOK
<1>4. Accepting'
  <2>1. \A r \in Servers : client[r] # made + 1
    BY <1>2, AcceptedBy, HandlesAssumption DEF NONE
  <2> QED
    BY <1>1, <1>3, <2>1 DEF IInv, Accepting
<1>5. Made'
  <2>1. at'[made + 1] = s /\ s # NONE
    BY <1>0, <1>1, <1>2, HandlesAssumption DEF TypeOK, NONE
  <2> QED
    BY <1>0, <1>1, <1>3, <2>1 DEF IInv, Made, Conns
<1> QED
  BY <1>1, <1>4, <1>5 DEF IInv, Entered, HandleOf, OwnIndex, OwnHandle

(* The initial states satisfy it, *)
LEMMA InitIInv == Init => IInv
<1> SUFFICES ASSUME Init PROVE IInv
  OBVIOUS
<1>1. database_ = << >> /\ DOMAIN database_ = {} /\ database_ \in Seq(Entry)
  BY EmptySeq, LenProperties DEF Init
<1>2. TypeOK
  <2>1. /\ sock \in [Handles -> Conns \cup {NONE, LISTEN}] /\ client \in [Servers -> Conns \cup {NONE}]
        /\ c \in [Conns -> Handles \cup {NONE}] /\ at \in [Conns -> Servers \cup {NONE}]
        /\ socket_ \in [Clients -> Conns \cup {NONE}]
    BY DEF Init
  <2>2. /\ id \in [Conns -> 0 .. MaxConn] /\ made \in 0 .. MaxConn
        /\ inbox \in [Conns -> 0 .. MaxData] /\ fin \in [Conns -> BOOLEAN]
    BY BoundsAssumption DEF Init
  <2>3. /\ spc \in [Servers -> {"start", "listen", "accept", "push", "spawn", "join", "returned"}]
        /\ tpc \in [Conns -> {"none", "recv", "respond", "close", "ended"}]
    BY DEF Init
  <2> QED
    BY <1>1, <2>1, <2>2, <2>3 DEF Init, TypeOK, Entry
<1>3. Accepting /\ Entered /\ Made
  BY <1>1 DEF Init, Accepting, Entered, Made, NONE
<1>4. HandleOf
  BY DEF Init, HandleOf, NONE, LISTEN, Conns
<1>5. OwnIndex /\ OwnHandle
  BY <1>1 DEF Init, OwnIndex, OwnHandle
<1> QED
  BY <1>2, <1>3, <1>4, <1>5 DEF IInv

(* and every step keeps it. *)
LEMMA NextIInv == IInv /\ [Next]_vars => IInv'
<1> SUFFICES ASSUME IInv, [Next]_vars PROVE IInv'
  OBVIOUS
<1>1. ASSUME NEW s \in Servers, Serve(s) PROVE IInv'
  <2>0. TypeOK'
    BY <1>1, ServeType
  <2>1. CASE accept(s)
    BY <2>0, <2>1, AcceptKeeps
  <2>2. CASE PushBack(s)
    BY <2>0, <2>2, PushBackKeeps
  <2>3. CASE Spawn(s)
    BY <2>0, <2>3, SpawnKeeps
  <2>4. CASE Register(s) \/ Listen(s) \/ ListenFails(s) \/ AcceptFails(s) \/ Join(s)
    BY <2>0, <2>4, QuietSteps, QuietKeeps
  <2> QED
    BY <1>1, <2>1, <2>2, <2>3, <2>4 DEF Serve
<1>2. ASSUME NEW k \in Conns, Thread(k) PROVE IInv'
  <2>0. TypeOK'
    BY <1>2, OtherType
  <2>1. CASE CloseClient(k)
    BY <2>0, <2>1, CloseClientKeeps
  <2>2. CASE RecvData(k) \/ RecvEnds(k) \/ Respond(k) \/ SendFails(k)
    BY <2>0, <2>2, QuietSteps, QuietKeeps
  <2> QED
    BY <1>2, <2>1, <2>2 DEF Thread
<1>3. CASE Close \/ LockList \/ CloseListed \/ UnlockList
  BY <1>3, OtherType, QuietSteps, QuietKeeps
<1>4. ASSUME NEW p \in Clients, Send(p) \/ ReceiveEnds(p) \/ Shutdown(p) PROVE IInv'
  BY <1>4, OtherType, QuietSteps, QuietKeeps
<1>5. ASSUME NEW p \in Clients, NEW s \in Servers, Connect(p, s) PROVE IInv'
  BY <1>5, OtherType, ConnectKeeps
<1>6. CASE UNCHANGED vars
  BY <1>6 DEF vars, closeVars, serveVars, threadVars, connVars, IInv, TypeOK, Accepting, Entered, Made,
              HandleOf, OwnIndex, OwnHandle
<1> QED
  BY <1>1, <1>2, <1>3, <1>4, <1>5, <1>6 DEF Next, CloseAll, Rest

(* The invariant is inductive. *)
THEOREM Inductive == Spec => []IInv
BY InitIInv, NextIInv, PTL DEF Spec

(* Every variable keeps its type; the index read for a thread, the size of  *)
(* the table, never exceeds the number of connections.                      *)
THEOREM TypeCorrect == Spec => []TypeOK
<1>1. IInv => TypeOK
  BY DEF IInv
<1> QED
  BY <1>1, Inductive, PTL

(* As long as every thread got its own index, nobody else closes the        *)
(* connection of a thread that runs (unless its handle was a listening      *)
(* socket's), and when the thread ends its entry and no other is marked and *)
(* no handle stands for the connection any more, though handles are used    *)
(* again.                                                                   *)
THEOREM OwnConnectionHolds == Spec => []OwnConnection
<1>1. ASSUME IInv PROVE OwnConnection
  <2> SUFFICES ASSUME crossed = {}, NEW i \in DOMAIN database_
               PROVE  /\ tpc[database_[i].conn] # "ended" =>
                           sock[c[database_[i].conn]] = database_[i].conn \/ c[database_[i].conn] \in Servers
                      /\ tpc[database_[i].conn] = "ended" => database_[i].conn \notin Range(sock)
                      /\ database_[i].status = (tpc[database_[i].conn] # "ended")
    BY DEF OwnConnection
  <2> DEFINE k == database_[i].conn
  <2>1. TypeOK /\ k \in Conns /\ c[k] = database_[i].handle /\ c[k] \in Handles /\ NONE \notin Handles
    BY <1>1, Table, HandlesAssumption DEF IInv, Entered, Handles, NONE
  <2>2. tpc[k] # "ended" => sock[c[k]] = k \/ c[k] \in Servers
    BY <1>1, <2>1 DEF IInv, OwnHandle
  <2>3. ASSUME tpc[k] = "ended" PROVE k \notin Range(sock)
    <3>1. sock[c[k]] # k
      BY <1>1, <2>1, <2>3 DEF IInv, OwnHandle
    <3>2. \A h \in Handles : sock[h] # k
      BY <1>1, <2>1, <3>1 DEF IInv, HandleOf
    <3> QED
      BY <2>1, <3>2 DEF Range, TypeOK
  <2>4. database_[i].status = (tpc[k] # "ended")
    BY <1>1 DEF IInv, OwnHandle
  <2> QED
    BY <2>2, <2>3, <2>4
<1> QED
  BY <1>1, Inductive, PTL

-----------------------------------------------------------------------------
(* A single Serve *)

(* The connection that a single Serve enters is the last of the table until *)
(* its thread has been given the size as its index.                         *)
LastEntered ==
  /\ crossed = {}
  /\ \A s \in Servers : spc[s] = "spawn" => /\ database_ # << >>
                                           /\ database_[Len(database_)].conn = client[s]

(* With one call of Serve, every thread is given its own index: only a      *)
(* second one can enter a connection between push_back and size.            *)
THEOREM SingleServe ==
  ASSUME NEW s \in Servers, Servers = {s}
  PROVE  Spec => [](crossed = {})
<1>1. Init => LastEntered
  BY DEF Init, LastEntered
<1>2. ASSUME IInv, LastEntered, [Next]_vars PROVE LastEntered'
  <2>0. TypeOK
    BY <1>2 DEF IInv
  <2>1. CASE PushBack(s)
    <3>1. client[s] \in Conns /\ c[client[s]] \in Handles
      BY <1>2, <2>0, <2>1 DEF IInv, Accepting, PushBack, Goto, TypeOK
    <3>2. [handle |-> c[client[s]], status |-> TRUE, conn |-> client[s]] \in Entry
      BY <3>1 DEF Entry
    <3>3. /\ database_' # << >>
          /\ database_'[Len(database_')] = [handle |-> c[client[s]], status |-> TRUE, conn |-> client[s]]
      <4>1. database_ \in Seq(Entry) /\ database_' = Append(database_, [handle |-> c[client[s]], status |-> TRUE, conn |-> client[s]])
        BY <2>0, <2>1, Table DEF PushBack
      <4> QED
        BY <3>2, <4>1, AppendProperties
    <3>4. database_'[Len(database_')].conn = client[s]
      BY <3>3
    <3> QED
      BY <1>2, <2>1, <3>3, <3>4 DEF PushBack, LastEntered, threadVars
  <2>2. CASE Spawn(s)
    <3>1. PICK i \in IndexRead(s) :
            /\ spc[s] = "spawn" /\ spc' = [spc EXCEPT ![s] = IF close_ THEN "join" ELSE "accept"]
            /\ crossed' = IF i \in DOMAIN database_ /\ database_[i].conn = client[s]
                            THEN crossed ELSE crossed \cup {client[s]}
      BY <2>2 DEF Spawn, Goto
    <3>2. i = Len(database_)
      BY DEF IndexRead
    <3>3. i \in DOMAIN database_ /\ database_[i].conn = client[s]
      <4>1. database_ # << >> /\ database_[Len(database_)].conn = client[s]
        BY <1>2, <3>1 DEF LastEntered
      <4>2. Len(database_) \in DOMAIN database_
        BY <2>0, <4>1, Table, EmptySeq
      <4> QED
        BY <3>2, <4>1, <4>2
    <3>4. spc'[s] # "spawn"
      BY <2>0, <3>1 DEF TypeOK
    <3> QED
      BY <1>2, <3>1, <3>3, <3>4 DEF LastEntered
  <2>3. CASE Quiet
    BY <1>2, <2>3 DEF LastEntered, Quiet
  <2>4. CASE accept(s)
    BY <1>2, <2>0, <2>4 DEF LastEntered, accept, Goto, TypeOK
  <2>5. ASSUME NEW k \in Conns, CloseClient(k) PROVE LastEntered'
    <3>1. UNCHANGED <<spc, client, crossed>>
      BY <2>5 DEF CloseClient, serveVars
    <3>2. CASE id[k] \in DOMAIN database_
      <4>1. /\ database_' \in Seq(Entry) /\ DOMAIN database_' = DOMAIN database_
            /\ \A j \in DOMAIN database_ : database_'[j].conn = database_[j].conn
        BY <2>0, <2>5, <3>2, Marked
      <4>2. Len(database_') = Len(database_) /\ (database_' # << >> <=> database_ # << >>)
        BY <2>0, <4>1, Table, LenProperties, EmptySeq
      <4>3. database_ # << >> => Len(database_) \in DOMAIN database_
        BY <2>0, Table, EmptySeq
      <4> QED
        BY <1>2, <3>1, <4>1, <4>2, <4>3 DEF LastEntered
    <3>3. CASE id[k] \notin DOMAIN database_
      BY <1>2, <2>5, <3>1, <3>3 DEF LastEntered, CloseClient
    <3> QED
      BY <3>2, <3>3
  <2>6. ASSUME NEW p \in Clients, NEW r \in Servers, Connect(p, r) PROVE LastEntered'
    BY <1>2, <2>6 DEF LastEntered, Connect, serveVars, threadVars
  <2>7. CASE UNCHANGED vars
    BY <1>2, <2>7 DEF LastEntered, vars, serveVars, threadVars
  <2> QED
    <3>1. CASE Serve(s)
      BY <1>2, <2>1, <2>2, <2>3, <2>4, <3>1, QuietSteps DEF Serve
    <3>2. ASSUME NEW k \in Conns, Thread(k) PROVE LastEntered'
      BY <1>2, <2>3, <2>5, <3>2, QuietSteps DEF Thread
    <3>3. CASE Close \/ LockList \/ CloseListed \/ UnlockList
      BY <1>2, <2>3, <3>3, QuietSteps
    <3>4. ASSUME NEW p \in Clients, Send(p) \/ ReceiveEnds(p) \/ Shutdown(p) PROVE LastEntered'
      BY <1>2, <2>3, <3>4, QuietSteps
    <3> QED
      BY <1>2, <2>6, <2>7, <3>1, <3>2, <3>3, <3>4 DEF Next, CloseAll, Rest
<1>3. LastEntered => crossed = {}
  BY DEF LastEntered
<1> QED
  BY <1>1, <1>2, <1>3, Inductive, PTL DEF Spec
=============================================================================
