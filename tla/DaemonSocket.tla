---------------------------- MODULE DaemonSocket ----------------------------
(***************************************************************************)
(* The compiler daemon and its clients: newm2-driver/src/daemon_unix.rs    *)
(* (serve) and newm2-runtime/src/proc.rs (daemon_request, the fallback of  *)
(* nm2_ide_complete and nm2_ide_describe).  Daemons are processes around   *)
(* one socket path; a step is one system call.  A daemon may die, or hang  *)
(* in a request, at any time.                                              *)
(***************************************************************************)
EXTENDS Integers, Sequences, Functions

CONSTANTS
    Daemons,       \* daemon processes, each started at most once
    Clients,       \* threads that ask for completions and descriptions
    NoFile,        \* nothing at the socket path
    RequestLimit,  \* bound on the requests made
    FailLimit      \* bound on deaths and hangs of daemons

ASSUME SocketAssumption == NoFile \notin Daemons /\ Daemons # {} /\ RequestLimit \in Nat

VARIABLES
    path,     \* the daemon whose socket the path names, dead or not, or NoFile
    dstate,   \* where each daemon is
    queue,    \* per listening socket: connections not closed by the daemon
    after,    \* history: who has begun to listen since d, about to remove the
              \* path, found it dead
    lost,     \* history: daemons whose socket another removed
    cstate,   \* where each client is
    req,      \* its request, the number of its connection
    made,     \* requests so far
    conn,     \* state of each request's connection
    fails     \* deaths and hangs so far

daemonVars == <<path, dstate, queue, after, lost>>
clientVars == <<cstate, req, made>>
socketVars == <<path, dstate, queue, after, lost, cstate, req, made, conn, fails>>

Requests == 1 .. RequestLimit

\* A connect to d's socket succeeds: d listens, busy or not.  Before listen(2)
\* the path is there and a connect is refused.
Alive(d) == d # NoFile /\ dstate[d] \in {"listen", "serve", "hung", "halt"}

\* A file may be there, of a daemon that died earlier.
DaemonInit ==
    /\ path \in {NoFile, CHOOSE d \in Daemons : TRUE}
    /\ dstate = [d \in Daemons |-> IF d = path THEN "gone" ELSE "off"]
    /\ queue = [d \in Daemons |-> <<>>]
    /\ after = [d \in Daemons |-> {}]
    /\ lost = {}
    /\ cstate = [c \in Clients |-> "idle"]
    /\ req = [c \in Clients |-> 0]
    /\ made = 0
    /\ conn = [n \in Requests |-> "none"]
    /\ fails = 0

\* Daemons not yet started; it does not matter which one is next.
Unused == {d \in Daemons : dstate[d] = "off"}

Goto(d, at) == dstate' = [dstate EXCEPT ![d] = at]
Go(c, at) == cstate' = [cstate EXCEPT ![c] = at]
Conn(n, s) == conn' = [conn EXCEPT ![n] = s]

\* The listener and its connections go with the process.
Hangup(d) ==
    /\ queue' = [queue EXCEPT ![d] = <<>>]
    /\ conn' = [n \in Requests |->
                  IF n \in Range(queue[d]) /\ conn[n] # "closed" THEN "reset" ELSE conn[n]]

-----------------------------------------------------------------------------

(* serve: UnixListener::bind.  Its bind(2) fails when the path exists,       *)
(* whatever is there ...                                                     *)
Bind(d) ==
    /\ dstate[d] \in {"bind", "rebind"}
    /\ IF path = NoFile
         THEN path' = d /\ Goto(d, "bound")
         ELSE UNCHANGED path /\ Goto(d, IF dstate[d] = "bind" THEN "probe" ELSE "gone")
    /\ UNCHANGED <<queue, after, lost, clientVars, conn, fails>>

(* ... and its listen(2) follows, whatever the path names by then.           *)
Listen(d) ==
    /\ dstate[d] = "bound"
    /\ Goto(d, "listen")
    /\ after' = [e \in Daemons |-> IF dstate[e] = "remove" THEN after[e] \cup {d} ELSE {}]
    /\ UNCHANGED <<path, queue, lost, clientVars, conn, fails>>

\* Mutant: the file is taken for stale without a look.
ProbeNot(d) ==
    /\ dstate[d] = "probe"
    /\ Goto(d, "remove")
    /\ UNCHANGED <<path, queue, after, lost, clientVars, conn, fails>>

(* A daemon that answers is left alone; no answer means a stale file.        *)
Probe(d) ==
    /\ dstate[d] = "probe"
    /\ Goto(d, IF Alive(path) THEN "gone" ELSE "remove")
    /\ UNCHANGED <<path, queue, after, lost, clientVars, conn, fails>>

(* remove_file: whatever the path names by now.                              *)
RemoveStale(d) ==
    /\ dstate[d] = "remove"
    /\ path' = NoFile
    /\ Goto(d, "rebind")
    /\ lost' = lost \cup {path}
    /\ after' = [after EXCEPT ![d] = {}]
    /\ UNCHANGED <<queue, clientVars, conn, fails>>

(* for conn in listener.incoming(): one connection at a time.                *)
Accept(d) ==
    /\ dstate[d] = "listen"
    /\ queue[d] # <<>>
    /\ Goto(d, "serve")
    /\ UNCHANGED <<path, queue, after, lost, clientVars, conn, fails>>

(* read_frame, handle, write_frame.                                          *)
Reply(d) ==
    /\ dstate[d] = "serve"
    /\ conn[Head(queue[d])] = "sent"
    /\ Conn(Head(queue[d]), "replied")
    /\ UNCHANGED <<daemonVars, clientVars, fails>>

(* The client has closed its end: read_frame or write_frame fails.           *)
EndOfConnection(d) ==
    /\ dstate[d] = "serve"
    /\ conn[Head(queue[d])] = "closed"
    /\ queue' = [queue EXCEPT ![d] = Tail(queue[d])]
    /\ Goto(d, "listen")
    /\ UNCHANGED <<path, after, lost, clientVars, conn, fails>>

(* A request to shut down is answered first ...                              *)
Shutdown(d) ==
    /\ dstate[d] = "serve"
    /\ conn[Head(queue[d])] = "sent"
    /\ Conn(Head(queue[d]), "replied")
    /\ Goto(d, "halt")
    /\ UNCHANGED <<path, queue, after, lost, clientVars, fails>>

(* ... then the path is removed and the process ends.                        *)
Halt(d) ==
    /\ dstate[d] = "halt"
    /\ path' = NoFile
    /\ Goto(d, "gone")
    /\ lost' = lost \cup ({path} \ {d})
    /\ Hangup(d)
    /\ UNCHANGED <<after, clientVars, fails>>

(* A daemon dies, its socket file stays; or it hangs in a request.           *)
Die(d) ==
    /\ fails < FailLimit
    /\ dstate[d] \notin {"off", "gone"}
    /\ fails' = fails + 1
    /\ Goto(d, "gone")
    /\ Hangup(d)
    /\ UNCHANGED <<path, after, lost, clientVars>>

Hang(d) ==
    /\ fails < FailLimit
    /\ dstate[d] = "serve"
    /\ fails' = fails + 1
    /\ Goto(d, "hung")
    /\ UNCHANGED <<path, queue, after, lost, clientVars, conn>>

-----------------------------------------------------------------------------

(* A completion or description is asked for.                                 *)
Ask(c) ==
    /\ cstate[c] = "idle"
    /\ made < RequestLimit
    /\ made' = made + 1
    /\ req' = [req EXCEPT ![c] = made + 1]
    /\ Go(c, "first")
    /\ UNCHANGED <<daemonVars, conn, fails>>

(* daemon_request: attempt 0, and attempt 1 after start_daemon.              *)
Connect(c) ==
    /\ cstate[c] \in {"first", "second"}
    /\ Alive(path)
    /\ queue' = [queue EXCEPT ![path] = Append(@, req[c])]
    /\ Conn(req[c], "open")
    /\ Go(c, "write")
    /\ UNCHANGED <<path, dstate, after, lost, req, made, fails>>

StartDaemon(c) ==
    /\ cstate[c] = "first"
    /\ ~Alive(path)
    /\ IF Unused = {} THEN UNCHANGED dstate ELSE Goto(CHOOSE d \in Unused : TRUE, "bind")
    /\ Go(c, "second")
    /\ UNCHANGED <<path, queue, after, lost, req, made, conn, fails>>

GiveUp(c) ==
    /\ cstate[c] = "second"
    /\ ~Alive(path)
    /\ Go(c, "child")
    /\ UNCHANGED <<daemonVars, req, made, conn, fails>>

Send(c) ==
    /\ cstate[c] = "write"
    /\ IF conn[req[c]] = "open"
         THEN Conn(req[c], "sent") /\ Go(c, "read")
         ELSE Go(c, "child") /\ UNCHANGED conn
    /\ UNCHANGED <<daemonVars, req, made, fails>>

(* An answer that starts with "error" sends the caller to the fallback.      *)
Receive(c) ==
    /\ cstate[c] = "read"
    /\ conn[req[c]] \in {"replied", "reset"}
    /\ IF conn[req[c]] = "reset"
         THEN Go(c, "child")
         ELSE Go(c, "idle") \/ Go(c, "child")
    /\ Conn(req[c], "closed")
    /\ UNCHANGED <<daemonVars, req, made, fails>>

\* Mutant: no read timeout.
TimeOutNot(c) ==
    /\ cstate[c] = "read"
    /\ conn[req[c]] = "none"
    /\ UNCHANGED socketVars

(* The read timeout of four seconds; the stream is dropped.                  *)
TimeOut(c) ==
    /\ cstate[c] = "read"
    /\ conn[req[c]] = "sent"
    /\ Conn(req[c], "closed")
    /\ Go(c, "child")
    /\ UNCHANGED <<daemonVars, req, made, fails>>

(* The fallback: the child exits, or is killed at the watchdog's deadline.   *)
ChildEnds(c) ==
    /\ cstate[c] = "child"
    /\ Go(c, "idle")
    /\ UNCHANGED <<daemonVars, req, made, conn, fails>>

Serving(d) ==
    \/ Bind(d) \/ Listen(d) \/ Probe(d) \/ RemoveStale(d) \/ Accept(d) \/ Reply(d)
    \/ EndOfConnection(d) \/ Halt(d)

InRequest(c) ==
    \/ Connect(c) \/ StartDaemon(c) \/ GiveUp(c) \/ Send(c)
    \/ Receive(c) \/ TimeOut(c) \/ ChildEnds(c)

DaemonNext ==
    \/ \E d \in Daemons : Serving(d) \/ Shutdown(d) \/ Die(d) \/ Hang(d)
    \/ \E c \in Clients : Ask(c) \/ InRequest(c)

DaemonSpec == DaemonInit /\ [][DaemonNext]_socketVars

\* Processes are scheduled; deadlines arrive.  Daemons may die or hang.
DaemonFairness ==
    /\ \A d \in Daemons : WF_socketVars(Serving(d))
    /\ \A c \in Clients : WF_socketVars(InRequest(c))

DaemonFairSpec == DaemonSpec /\ DaemonFairness

-----------------------------------------------------------------------------

(* The shape of the state; each connection is in at most one queue, once.    *)
TypeOKDaemon ==
    /\ path \in Daemons \cup {NoFile}
    /\ dstate \in [Daemons -> {"off", "bind", "probe", "remove", "rebind", "bound",
                               "listen", "serve", "hung", "halt", "gone"}]
    /\ \A d \in Daemons : IsInjective(queue[d]) /\ Range(queue[d]) \subseteq Requests
    /\ \A d, e \in Daemons : d # e => Range(queue[d]) \cap Range(queue[e]) = {}
    /\ cstate \in [Clients -> {"idle", "first", "second", "write", "read", "child"}]
    /\ conn \in [Requests -> {"none", "open", "sent", "replied", "closed", "reset"}]

(* "Never steal a live one out from under it" (daemon_unix.rs:47-48), as far *)
(* as probing can see: a daemon removes a listening daemon's socket only if  *)
(* that one was not listening yet when the remover probed the path: it bound *)
(* the path later, or had bound it and not come to listen(2).  A daemon that *)
(* shuts down removes another's only if its own was taken from it before.    *)
StealsOnlyRacing ==
    [][ \A d \in Daemons :
          /\ RemoveStale(d) /\ Alive(path) => path \in after[d]
          /\ Halt(d) /\ path # d /\ Alive(path) => d \in lost ]_socketVars

(* The IDE's main thread never hangs in a request, dead, hanging and busy    *)
(* daemons included: "the deadline makes that impossible", proc.rs:358-361.  *)
RequestsEnd == \A c \in Clients : cstate[c] # "idle" ~> cstate[c] = "idle"

=============================================================================
