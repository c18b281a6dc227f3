-------------------------------- MODULE Doors --------------------------------
(***************************************************************************)
(* The MCP process (mcp/): the main server and the sandboxes' narrow doors *)
(* over one shared ServerContext, from the parsing of the door settings to *)
(* the end of the process, and the tool calls that run on them meanwhile.  *)
(*                                                                         *)
(* Server 0 is the main one, server i the i-th door.  Only the lifespan of *)
(* the main server opens the store; every tool reads the context when it   *)
(* is called and keeps the store it read until it returns.  A call is two  *)
(* steps: the checks up to its first await, then its work on the store.    *)
(* A record is known by its project; memory_search and memory_search_items *)
(* are one tool here, since they check and read alike.                     *)
(***************************************************************************)
EXTENDS Integers, Sequences, FiniteSets

CONSTANTS
  Projects,   \* well-formed project names
  Reserved,   \* RESERVED_PROJECTS
  Extends,    \* pairs <<p, q>>: the name q begins with p
  Settings,   \* [doors, single]: the two sandbox settings, as read
  MainPort,   \* settings.mcp_port
  Shelves,    \* projects that have records at the start
  Requests,   \* [op, on, ok, sup]: tool, project, valid arguments, declared supersession
  Slots,      \* bound: tool calls at a time
  None

\* The resource memory://projects, and the tools.
Tools == {"list", "search", "write", "supersede", "publish"}

ASSUME DoorsAssumption ==
  /\ Reserved \subseteq Projects /\ Shelves \subseteq Projects
  /\ Extends \subseteq Projects \X Projects /\ \A p \in Projects : <<p, p>> \in Extends
  /\ \A s \in Settings :
       /\ s.doors \in Seq([port : Nat, projects : Seq(Projects \cup {""})])
       /\ s.single \in Nat \cup {None}
  /\ Requests \subseteq [op : Tools, on : Projects, ok : BOOLEAN, sup : BOOLEAN]
  /\ None \notin Nat /\ None \notin Projects /\ "" \notin Projects
  /\ None \notin {"done", "client", "infrastructure", "dropped"}

VARIABLES
  settings,
  process,   \* "new", "up", "ending" once the grace is over, "ended", "refused"
  server,    \* state of each server
  context,   \* context.store: the server that opened it, or None
  pools,     \* servers whose pool is open
  shelves,   \* projects with records in the store
  call,      \* [at, req, store, why, out] of the call in each slot
  saw, put   \* history: projects whose records or names a door returned, and
             \* projects it changed

vars == <<settings, process, server, context, pools, shelves, call, saw, put>>
serverVars == <<settings, process, server, context, pools>>

-----------------------------------------------------------------------------
(***************************************************************************)
(* parse_sandbox_doors and build_servers.                                  *)
(***************************************************************************)
Entry(i) == settings.doors[i]
Entries == DOMAIN settings.doors

Named(i, k) == Entry(i).projects[k]
Mentions == UNION {{<<i, k>> : k \in DOMAIN Entry(i).projects} : i \in Entries}

PortsFit ==
  /\ \A i \in Entries : Entry(i).port \in 1 .. 65535 /\ Entry(i).port # MainPort
  /\ \A i, j \in Entries : Entry(i).port = Entry(j).port => i = j

ListedOnce == \A m, n \in Mentions : Named(m[1], m[2]) = Named(n[1], n[2]) => m = n

WellFormed ==
  /\ PortsFit /\ ListedOnce
  /\ \A i \in Entries : Entry(i).projects # <<>>
  /\ \A m \in Mentions : Named(m[1], m[2]) \in Projects \ Reserved

Servers == 0 .. (IF settings.single # None THEN 1 ELSE Len(settings.doors))

ServerIds == {0, 1} \cup UNION {0 .. Len(x.doors) : x \in Settings}

\* sandbox and allowed_projects, as register_all gets them.
Sandbox(s) == s > 0
Scoped(s) == Sandbox(s) /\ settings.single = None
Allowed(s) == {Entry(s).projects[k] : k \in DOMAIN Entry(s).projects}

\* Mutant: every server opens a store of its own.
EveryServerOpens(s) == TRUE

OpensStore(s) == s = 0

Idle == [at |-> None, req |-> None, store |-> None, why |-> None, out |-> None]
Doors == Servers \ {0}

Init ==
  /\ settings \in Settings
  /\ process = "new"
  /\ server = [s \in Servers |-> "down"]
  /\ context = None /\ pools = {}
  /\ shelves = Shelves
  /\ call = [c \in Slots |-> Idle]
  /\ saw = [s \in Doors |-> {}] /\ put = [s \in Doors |-> {}]

\* The service starts, or refuses to.
Build ==
  /\ process = "new"
  /\ \/ /\ WellFormed /\ ~(settings.doors # <<>> /\ settings.single # None)
        /\ process' = "up"
        /\ server' = [s \in Servers |-> "entering"]
     \/ /\ ~WellFormed \/ (settings.doors # <<>> /\ settings.single # None)
        /\ process' = "refused"
        /\ UNCHANGED server
  /\ UNCHANGED <<settings, context, pools, shelves, call, saw, put>>

-----------------------------------------------------------------------------
(***************************************************************************)
(* The lifespan of a server.                                               *)
(***************************************************************************)
Turn(s, from, to) ==
  /\ process \in {"up", "ending"}
  /\ server[s] = from
  /\ server' = [server EXCEPT ![s] = to]

Enter(s) ==
  /\ Turn(s, "entering", IF OpensStore(s) /\ context = None THEN "opening" ELSE "serving")
  /\ UNCHANGED <<settings, process, context, pools, shelves, call, saw, put>>

\* async_store_context is entered.
Opened(s) ==
  /\ Turn(s, "opening", "owner")
  /\ pools' = pools \cup {s} /\ context' = s
  /\ UNCHANGED <<settings, process, shelves, call, saw, put>>

\* Postgres is unreachable: the server serves without a store, for good.
OpenFails(s) ==
  /\ Turn(s, "opening", "serving")
  /\ UNCHANGED <<settings, process, context, pools, shelves, call, saw, put>>

\* Mutant: the pool is closed before the context is reset.
CloseFirst(s) ==
  /\ Turn(s, "owner", "closing")
  /\ pools' = pools \ {s}
  /\ UNCHANGED <<settings, process, context, shelves, call, saw, put>>

\* The owner leaves: the context is reset, then the pool is closed.
Reset(s) ==
  /\ Turn(s, "owner", "closing")
  /\ context' = None
  /\ UNCHANGED <<settings, process, pools, shelves, call, saw, put>>

Close(s) ==
  /\ Turn(s, "closing", "stopped")
  /\ pools' = pools \ {s} /\ context' = None
  /\ UNCHANGED <<settings, process, shelves, call, saw, put>>

\* Any other server just stops.
Quit(s) ==
  /\ \E from \in {"entering", "opening", "serving"} : Turn(s, from, "stopped")
  /\ UNCHANGED <<settings, process, context, pools, shelves, call, saw, put>>

Leave(s) == Reset(s) \/ Quit(s)

\* A signal, or a failure of one of them.
Stop(s) == process = "up" /\ Leave(s)

InFlight(c) == call[c].at # None /\ call[c].out = None
Running == {s \in Servers : server[s] # "stopped"}

\* Mutant: the other servers are waited for without a limit.
WaitForever ==
  /\ process = "up" /\ Running = {}
  /\ process' = "ending"
  /\ UNCHANGED <<settings, server, context, pools, shelves, call, saw, put>>

\* _serve_both: some server has stopped, and the grace of the others is over.
GraceOver ==
  /\ process = "up" /\ Running # Servers
  /\ process' = "ending"
  /\ UNCHANGED <<settings, server, context, pools, shelves, call, saw, put>>

\* task.cancel()
Cancel(s) == process = "ending" /\ Leave(s)

\* The process ends, and with it every call.
End ==
  /\ process = "ending" /\ Running = {}
  /\ process' = "ended"
  /\ call' = [c \in Slots |->
                IF InFlight(c) THEN [call[c] EXCEPT !.out = "dropped"] ELSE call[c]]
  /\ UNCHANGED <<settings, server, context, pools, shelves, saw, put>>

-----------------------------------------------------------------------------
(***************************************************************************)
(* The tools.                                                              *)
(***************************************************************************)
\* What register_all offers on a server.
Offered(s) ==
  {"list", "search", "write"} \cup (IF Sandbox(s) THEN {} ELSE {"supersede", "publish"})

\* check_door_project
Serves(s, p) == Scoped(s) => p \in Allowed(s)

\* Mutant: the sandbox's write does not look at the shelf.
SandboxTakesAny(s, r) == Sandbox(s) => ~r.sup

\* Step 3b of memory_write_payload.  A payload other than a build outcome is refused
\* like one that supersedes something.
SandboxTakes(s, r) == Sandbox(s) => ~r.sup /\ r.on \notin Reserved

\* The checks of a tool: the arguments, the payload or the envelope are valid, and the
\* door takes them.
Passes(s, r) ==
  /\ r.op # "list" => r.ok
  /\ r.op = "write" => SandboxTakes(s, r)
  /\ r.op \in {"search", "write"} => Serves(s, r.on)

\* The searches raise a ValueError for a missing store too, after their checks, which
\* tool_safe takes for the client's fault; the other tools look at the store first.
Refusal(r) == IF context = None /\ r.op # "search" THEN "infrastructure" ELSE "client"

\* A call comes in, up to its first await.
Invoke(c, s, r) ==
  /\ ~InFlight(c) /\ server[s] \in {"serving", "owner"} /\ r.op \in Offered(s)
  /\ call' = [call EXCEPT ![c] =
       [at |-> s, req |-> r, store |-> context, why |-> None,
        out |-> IF context # None /\ Passes(s, r) THEN None ELSE Refusal(r)]]
  /\ UNCHANGED <<serverVars, shelves, saw, put>>

\* Mutant: the rows are taken as the namespace prefix selects them.
TakeAll(q, p) == TRUE

\* _matches_project
MatchesProject(q, p) == q = p

\* asearch selects by the beginning of the namespace.
Found(p) == {q \in shelves : <<p, q>> \in Extends /\ MatchesProject(q, p)}

\* memory://projects
Listed(s) == IF Scoped(s) THEN shelves \cap Allowed(s) ELSE shelves

Noted(history, s, ps) == IF Sandbox(s) THEN [history EXCEPT ![s] = @ \cup ps] ELSE history

\* The store answers.
Succeed(c) ==
  LET s == call[c].at
      r == call[c].req IN
  /\ InFlight(c) /\ call[c].store \in pools
  /\ call' = [call EXCEPT ![c].out = "done"]
  /\ \/ /\ r.op \in {"list", "search"}
        /\ saw' = Noted(saw, s, IF r.op = "list" THEN Listed(s) ELSE Found(r.on))
        /\ UNCHANGED <<shelves, put>>
     \/ /\ r.op \in {"write", "publish"}
        /\ shelves' = shelves \cup {r.on}
        /\ put' = Noted(put, s, {r.on})
        /\ UNCHANGED saw
     \/ /\ r.op = "supersede"
        /\ put' = Noted(put, s, {r.on})
        /\ UNCHANGED <<shelves, saw>>
  /\ UNCHANGED serverVars

\* What a call may meet on the way; a closed pool raises an exception of its own.
\* Two failures are the same at every attempt: the embedding server refuses the content,
\* or the service is configured for vectors of another length than the model's.
Refused == {"EmbedRequestError"}
Mismatch == {"EmbedDimensionError"}
Certain == Refused \cup Mismatch
Faults == {"TimeoutError", "EmbedServiceError", "EmbedTimeoutError", "OtherError"} \cup Certain

\* Mutant: an exception nobody listed is the client's fault.
UnknownIsClient(op, x) == IF x = "OtherError" THEN "client" ELSE "infrastructure"

\* _map_exception_to_result: EmbedDimensionError is a ValueError, EmbedRequestError an
\* EmbedServiceError.  memory_publish_envelope has the relay's classification instead.
ErrorType(op, x) ==
  IF x = "EmbedDimensionError" \/ (op = "publish" /\ x = "EmbedRequestError")
    THEN "client" ELSE "infrastructure"

Fault(c, x) ==
  LET op == call[c].req.op IN
  /\ InFlight(c)
  /\ call[c].store \in pools \/ x = "OtherError"
  /\ op = "list" => x \in {"TimeoutError", "OtherError"}
  /\ call' = [call EXCEPT ![c].why = x, ![c].out = ErrorType(op, x)]
  /\ UNCHANGED <<serverVars, shelves, saw, put>>

\* The server that took the call has stopped serving.
Drop(c) ==
  /\ InFlight(c) /\ server[call[c].at] \in {"closing", "stopped"}
  /\ call' = [call EXCEPT ![c].out = "dropped"]
  /\ UNCHANGED <<serverVars, shelves, saw, put>>

-----------------------------------------------------------------------------
Shutdown(s) == Close(s) \/ Cancel(s)

Next ==
  \/ Build \/ GraceOver \/ End
  \/ \E s \in Servers : Enter(s) \/ Opened(s) \/ OpenFails(s) \/ Stop(s) \/ Shutdown(s)
  \/ \E c \in Slots : Succeed(c) \/ Drop(c) \/ \E x \in Faults : Fault(c, x)
  \/ \E c \in Slots, s \in Servers, r \in Requests : Invoke(c, s, r)

Spec == Init /\ [][Next]_vars

\* Fairness: the event loop runs on: the five seconds pass, a task that is cancelled
\* or leaving gets to its end, and gather returns.
FairSpec ==
  /\ Spec
  /\ WF_vars(GraceOver) /\ WF_vars(End)
  /\ \A s \in ServerIds : WF_vars(s \in Servers /\ Shutdown(s))

-----------------------------------------------------------------------------
(***************************************************************************)
(* Properties.                                                             *)
(***************************************************************************)
\* doors.py, "two sandboxes sharing a project would share its memory": nothing a door
\* with a list ever returned or changed, a name in a listing or a row that the store's
\* prefix match let in included, is of a project that another door returns or
\* changes, or of a factory shelf.  And, whatever the settings, no call through any
\* sandbox door changes a record "on the factory's own shelves" (write.py).
DoorsIsolated ==
  \A s \in Doors :
    /\ put[s] \cap Reserved = {}
    /\ Scoped(s) =>
         /\ saw[s] \cap Reserved = {}
         /\ \A t \in Doors \ {s} : (saw[s] \cup put[s]) \cap (saw[t] \cup put[t]) = {}

\* server.py, "there is one database pool, not two" and "a stopped server never leaves
\* tools holding a closed pool": whatever server is starting, serving or stopping, the
\* process has one pool at most, and a tool that reads the context gets an open pool or
\* none.
ContextIsOpen == Cardinality(pools) <= 1 /\ (context # None => context \in pools)

\* degradation.py: a call that an outage, a closed pool or a missing store defeats is
\* reported as infrastructure, so that the client tries again; "client" is for what fails
\* with everything up, be it that the content is refused or, which is not the client's
\* doing, that the configuration does not fit the model.  The searches without a store are
\* the exception: see DegradedIsReported.
BlameIsRight ==
  \A c \in Slots :
    call[c].out = "client" =>
      \/ ~Passes(call[c].at, call[c].req)
      \/ call[c].why \in Certain
      \/ call[c].req.op = "search" /\ call[c].store = None

\* server.py, "the documented contract is degraded mode - tools return structured
\* infrastructure errors": a valid call on the main server, which serves without a store
\* only when that could not be opened.  The searches do not keep to it.
DegradedIsReported ==
  \A c \in Slots :
    call[c].at = 0 /\ call[c].store = None /\ Passes(0, call[c].req) =>
      call[c].out = "infrastructure"

\* _serve_both, "when any stops, the process ends": as soon as one server has stopped,
\* the process ends with every pool closed and no call pending.
StopsTogether ==
  (\E s \in Servers : server[s] = "stopped")
    ~> (process = "ended" /\ pools = {} /\ \A c \in Slots : ~InFlight(c))

=============================================================================
