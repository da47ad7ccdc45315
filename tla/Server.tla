-------------------------------- MODULE Server --------------------------------
(***************************************************************************)
(* Server and Client of include/coplus/socket.h.  A thread in Serve        *)
(* accepts connections on one listening socket, enters them in the table   *)
(* shared by all Serve calls of the Server, and starts a thread for each.  *)
(* Close, called by some other thread, is meant to make every Serve        *)
(* return.  The clients are Client objects.                                *)
(*                                                                         *)
(* Sockets are handles that the system uses again after closesocket: a     *)
(* call with an old handle reaches whatever has it now.  What messages say *)
(* and what the response function replies is left out.                     *)
(***************************************************************************)
EXTENDS Integers, Sequences, FiniteSets, Functions

CONSTANTS
  Servers,  \* the handles of the listening sockets, one for each call of Serve
  Spare,    \* the other handles of the process
  Clients,  \* Client objects
  MaxConn,  \* bound of the model: connections made
  MaxData   \* bound of the model: messages on their way on each connection

(* 0 stands for INVALID_SOCKET. *)
ASSUME HandlesAssumption == Servers \cap Spare = {} /\ 0 \notin Servers \cup Spare
ASSUME BoundsAssumption == MaxConn \in Nat /\ MaxData \in Nat

Handles == Servers \cup Spare
Conns == 1 .. MaxConn
NONE == 0      \* INVALID_SOCKET, or a handle that is not open
LISTEN == -1   \* a listening socket

VARIABLES
  sock,            \* what each handle stands for: a connection, LISTEN, or NONE
  database_,       \* the table of connections
  delegated_list_, \* the listening sockets that Close closes
  close_,
  closer,          \* where the call of Close is; in "list" it holds list_lock_
  unclosed,        \* the listed sockets that it has still to close
  spc, client,     \* per Serve: where it is, the connection it has accepted
  tpc, c, id,      \* per connection: where its thread is, its handle and index in the table
  made,            \* how many connections have been made
  at, inbox, fin,  \* per connection: whose it is, its messages, whether the client shut it
  socket_,         \* per Client: its connection
  crossed          \* history: connections whose thread was given another one's index

serveVars == <<spc, client>>
threadVars == <<tpc, c, id, crossed>>
connVars == <<made, at, inbox, fin, socket_>>
closeVars == <<close_, closer, unclosed>>
vars == <<sock, database_, delegated_list_, closeVars, serveVars, threadVars, connVars>>

Init ==
  /\ sock = [h \in Handles |-> IF h \in Servers THEN LISTEN ELSE NONE]
  /\ database_ = << >>
  /\ delegated_list_ = {}
  /\ close_ = FALSE
  /\ closer = "idle"
  /\ unclosed = {}
  /\ spc = [s \in Servers |-> "start"]
  /\ client = [s \in Servers |-> NONE]
  /\ tpc = [k \in Conns |-> "none"]
  /\ c = [k \in Conns |-> NONE]
  /\ id = [k \in Conns |-> 0]
  /\ made = 0
  /\ at = [k \in Conns |-> NONE]
  /\ inbox = [k \in Conns |-> 0]
  /\ fin = [k \in Conns |-> FALSE]
  /\ socket_ = [p \in Clients |-> NONE]
  /\ crossed = {}

(* closesocket, whatever the handle stands for by now *)
closesocket(h) == sock' = [sock EXCEPT ![h] = NONE]

Goto(s, from, to) == spc[s] = from /\ spc' = [spc EXCEPT ![s] = to]

-----------------------------------------------------------------------------
(* Serve *)

Register(s) ==
  /\ closer # "list"
  /\ Goto(s, "start", "listen")
  /\ delegated_list_' = delegated_list_ \cup {s}
  /\ UNCHANGED <<sock, database_, closeVars, client, threadVars, connVars>>

Listen(s) ==
  /\ sock[s] = LISTEN
  /\ Goto(s, "listen", "accept")
  /\ UNCHANGED <<sock, database_, delegated_list_, closeVars, client, threadVars, connVars>>

ListenFails(s) ==
  /\ sock[s] # LISTEN
  /\ Goto(s, "listen", "returned")
  /\ closesocket(s)
  /\ UNCHANGED <<database_, delegated_list_, closeVars, client, threadVars, connVars>>

(* a connection in the queue of the listening socket gets a free handle *)
accept(s) ==
  \E k \in Conns, h \in Handles :
    /\ sock[s] = LISTEN
    /\ at[k] = s /\ c[k] = NONE
    /\ sock[h] = NONE
    /\ Goto(s, "accept", "push")
    /\ sock' = [sock EXCEPT ![h] = k]
    /\ c' = [c EXCEPT ![k] = h]
    /\ client' = [client EXCEPT ![s] = k]
    /\ UNCHANGED <<database_, delegated_list_, closeVars, tpc, id, crossed, connVars>>

(* Mutant: an accept that fails is tried again. *)
AcceptFailsRetries(s) ==
  /\ sock[s] # LISTEN \/ \A h \in Handles : sock[h] # NONE
  /\ Goto(s, "accept", "accept")
  /\ UNCHANGED <<sock, database_, delegated_list_, closeVars, client, threadVars, connVars>>

(* INVALID_SOCKET: the listening socket is closed, or no handle is left *)
AcceptFails(s) ==
  /\ sock[s] # LISTEN \/ \A h \in Handles : sock[h] # NONE
  /\ Goto(s, "accept", "join")
  /\ UNCHANGED <<sock, database_, delegated_list_, closeVars, client, threadVars, connVars>>

PushBack(s) ==
  /\ Goto(s, "push", "spawn")
  /\ database_' = Append(database_, [handle |-> c[client[s]], status |-> TRUE, conn |-> client[s]])
  /\ UNCHANGED <<sock, delegated_list_, closeVars, client, threadVars, connVars>>

(* The index is read after the lock is released: another Serve may have     *)
(* entered a connection since, or may be entering one, and then what is     *)
(* read is any number (0 and those behind the table are out of range).      *)
IndexRead(s) ==
  IF \E r \in Servers \ {s} : spc[r] = "push" THEN 0 .. MaxConn ELSE {Len(database_)}

(* Mutant: the index is the size. *)
SpawnPastEnd(s) ==
  /\ Goto(s, "spawn", IF close_ THEN "join" ELSE "accept")
  /\ tpc' = [tpc EXCEPT ![client[s]] = "recv"]
  /\ id' = [id EXCEPT ![client[s]] = Len(database_) + 1]
  /\ client' = [client EXCEPT ![s] = NONE]
  /\ UNCHANGED <<sock, database_, delegated_list_, closeVars, c, crossed, connVars>>

(* The loop goes on unless the server is closed. *)
Spawn(s) ==
  LET k == client[s]
  IN  \E i \in IndexRead(s) :
        /\ Goto(s, "spawn", IF close_ THEN "join" ELSE "accept")
        /\ tpc' = [tpc EXCEPT ![k] = "recv"]
        /\ id' = [id EXCEPT ![k] = i]
        /\ crossed' = IF i \in DOMAIN database_ /\ database_[i].conn = k THEN crossed ELSE crossed \cup {k}
        /\ client' = [client EXCEPT ![s] = NONE]
        /\ UNCHANGED <<sock, database_, delegated_list_, closeVars, c, connVars>>

Threads(s) == {k \in Conns : at[k] = s /\ tpc[k] # "none"}

(* every thread has been joined *)
Join(s) ==
  /\ \A k \in Threads(s) : tpc[k] = "ended"
  /\ Goto(s, "join", "returned")
  /\ closesocket(s)
  /\ UNCHANGED <<database_, delegated_list_, closeVars, client, threadVars, connVars>>

-----------------------------------------------------------------------------
(* The thread of a connection *)

Step(k, from, to) == tpc[k] = from /\ tpc' = [tpc EXCEPT ![k] = to]

RecvData(k) ==
  LET o == sock[c[k]]
  IN  /\ Step(k, "recv", "respond")
      /\ o \in Conns
      /\ inbox[o] > 0
      /\ inbox' = [inbox EXCEPT ![o] = @ - 1]
      /\ UNCHANGED <<sock, database_, delegated_list_, closeVars, serveVars,
                     c, id, crossed, made, at, fin, socket_>>

(* recv returns 0 when the client has shut the connection, and an error     *)
(* when the handle is not a connection                                      *)
RecvEnds(k) ==
  LET o == sock[c[k]]
  IN  /\ Step(k, "recv", "close")
      /\ o \in Conns => inbox[o] = 0 /\ fin[o]
      /\ UNCHANGED <<sock, database_, delegated_list_, closeVars, serveVars,
                     c, id, crossed, connVars>>

(* the replies are sent, or there are none *)
Respond(k) ==
  /\ Step(k, "respond", IF close_ THEN "close" ELSE "recv")
  /\ UNCHANGED <<sock, database_, delegated_list_, closeVars, serveVars,
                 c, id, crossed, connVars>>

SendFails(k) ==
  /\ Step(k, "respond", "close")
  /\ UNCHANGED <<sock, database_, delegated_list_, closeVars, serveVars,
                 c, id, crossed, connVars>>

(* Mutant: a thread marks its entry and leaves the socket open. *)
CloseClientLeaks(k) ==
  /\ Step(k, "close", "ended")
  /\ database_' = IF id[k] \in DOMAIN database_
                    THEN [database_ EXCEPT ![id[k]].status = FALSE] ELSE database_
  /\ UNCHANGED <<sock, delegated_list_, closeVars, serveVars, c, id, crossed, connVars>>

(* nothing is closed when the index is out of range *)
CloseClient(k) ==
  /\ Step(k, "close", "ended")
  /\ IF id[k] \in DOMAIN database_
       THEN /\ database_' = [database_ EXCEPT ![id[k]].status = FALSE]
            /\ closesocket(database_[id[k]].handle)
       ELSE UNCHANGED <<database_, sock>>
  /\ UNCHANGED <<delegated_list_, closeVars, serveVars, c, id, crossed, connVars>>

-----------------------------------------------------------------------------
(* Close, called once.  It closes the listed sockets one after the other,   *)
(* in the order in which they were listed, which is any order of the calls. *)

Close ==
  /\ closer = "idle"
  /\ closer' = "lock"
  /\ close_' = TRUE
  /\ UNCHANGED <<sock, database_, delegated_list_, unclosed, serveVars, threadVars, connVars>>

LockList ==
  /\ closer = "lock"
  /\ closer' = "list"
  /\ unclosed' = delegated_list_
  /\ UNCHANGED <<sock, database_, delegated_list_, close_, serveVars, threadVars, connVars>>

CloseListed ==
  \E s \in unclosed :
    /\ closesocket(s)
    /\ unclosed' = unclosed \ {s}
    /\ UNCHANGED <<database_, delegated_list_, close_, closer, serveVars, threadVars, connVars>>

UnlockList ==
  /\ closer = "list"
  /\ unclosed = {}
  /\ closer' = "done"
  /\ UNCHANGED <<sock, database_, delegated_list_, close_, unclosed, serveVars, threadVars, connVars>>

CloseAll == LockList \/ CloseListed \/ UnlockList

-----------------------------------------------------------------------------
(* Client *)

(* the other end is gone *)
Gone(k) == IF c[k] = NONE THEN sock[at[k]] # LISTEN ELSE k \notin Range(sock)

Connect(p, s) ==
  /\ socket_[p] = NONE
  /\ made < MaxConn
  /\ sock[s] = LISTEN /\ spc[s] \notin {"start", "listen"}
  /\ made' = made + 1
  /\ at' = [at EXCEPT ![made'] = s]
  /\ socket_' = [socket_ EXCEPT ![p] = made']
  /\ UNCHANGED <<sock, database_, delegated_list_, closeVars, serveVars, threadVars, inbox, fin>>

Send(p) ==
  LET k == socket_[p]
  IN  /\ k # NONE
      /\ ~Gone(k)
      /\ inbox[k] < MaxData
      /\ inbox' = [inbox EXCEPT ![k] = @ + 1]
      /\ UNCHANGED <<sock, database_, delegated_list_, closeVars, serveVars, threadVars,
                     made, at, fin, socket_>>

(* Receive on a connection whose other end is gone *)
ReceiveEnds(p) ==
  /\ socket_[p] # NONE
  /\ Gone(socket_[p])
  /\ socket_' = [socket_ EXCEPT ![p] = NONE]
  /\ UNCHANGED <<sock, database_, delegated_list_, closeVars, serveVars, threadVars,
                 made, at, inbox, fin>>

(* Client::Close shuts its direction of the connection and forgets it *)
Shutdown(p) ==
  /\ socket_[p] # NONE
  /\ fin' = [fin EXCEPT ![socket_[p]] = TRUE]
  /\ socket_' = [socket_ EXCEPT ![p] = NONE]
  /\ UNCHANGED <<sock, database_, delegated_list_, closeVars, serveVars, threadVars,
                 made, at, inbox>>

-----------------------------------------------------------------------------
Serve(s) ==
  \/ Register(s) \/ Listen(s) \/ ListenFails(s) \/ accept(s) \/ AcceptFails(s)
  \/ PushBack(s) \/ Spawn(s) \/ Join(s)

Thread(k) == RecvData(k) \/ RecvEnds(k) \/ Respond(k) \/ SendFails(k) \/ CloseClient(k)

(* A Serve may wait for a connection for ever, a thread for its client. *)
Rest ==
  /\ \A s \in Servers : spc[s] \in {"accept", "returned"}
  /\ \A k \in Conns : tpc[k] \in {"none", "recv", "ended"}
  /\ UNCHANGED vars

Next ==
  \/ \E s \in Servers : Serve(s)
  \/ \E k \in Conns : Thread(k)
  \/ Close \/ CloseAll
  \/ \E p \in Clients : Send(p) \/ ReceiveEnds(p) \/ Shutdown(p) \/ \E s \in Servers : Connect(p, s)
  \/ Rest

(* Threads are scheduled, and every client closes its connection in the end. *)
Fairness ==
  /\ \A s \in Servers : WF_vars(Serve(s))
  /\ \A k \in Conns : WF_vars(Thread(k))
  /\ WF_vars(CloseAll)
  /\ \A p \in Clients : WF_vars(Shutdown(p))

Spec == Init /\ [][Next]_vars
FairSpec == Spec /\ Fairness

-----------------------------------------------------------------------------
(* Properties *)

TypeOK ==
  /\ sock \in [Handles -> Conns \cup {NONE, LISTEN}]
  /\ database_ \in Seq([handle : Handles, status : BOOLEAN, conn : Conns])
  /\ delegated_list_ \subseteq Servers
  /\ close_ \in BOOLEAN
  /\ closer \in {"idle", "lock", "list", "done"}
  /\ unclosed \subseteq Servers
  /\ spc \in [Servers -> {"start", "listen", "accept", "push", "spawn", "join", "returned"}]
  /\ client \in [Servers -> Conns \cup {NONE}]
  /\ tpc \in [Conns -> {"none", "recv", "respond", "close", "ended"}]
  /\ c \in [Conns -> Handles \cup {NONE}]
  /\ id \in [Conns -> 0 .. MaxConn]
  /\ made \in 0 .. MaxConn
  /\ at \in [Conns -> Servers \cup {NONE}]
  /\ inbox \in [Conns -> 0 .. MaxData]
  /\ fin \in [Conns -> BOOLEAN]
  /\ socket_ \in [Clients -> Conns \cup {NONE}]
  /\ crossed \subseteq Conns

(* As long as every thread got its own index, a connection and its entry    *)
(* belong to its thread: nobody else closes the connection while the thread *)
(* runs (a handle that was a listening socket's may be closed once more),   *)
(* and when it ends both are closed, though handles are used again.         *)
OwnConnection ==
  crossed = {} =>
    \A i \in DOMAIN database_ :
      LET k == database_[i].conn
      IN  /\ tpc[k] # "ended" => sock[c[k]] = k \/ c[k] \in Servers
          /\ tpc[k] = "ended" => k \notin Range(sock)
          /\ database_[i].status = (tpc[k] # "ended")

(* A Serve whose listening socket Close has closed returns, when the        *)
(* clients that are still connected have hung up.                           *)
ServeReturns == \A s \in Servers : (sock[s] # LISTEN) ~> (spc[s] = "returned")
=============================================================================
