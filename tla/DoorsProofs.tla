---------------------------- MODULE DoorsProofs ----------------------------
(***************************************************************************)
(* Proofs about Doors, for any projects, settings, doors, requests and     *)
(* calls at a time.                                                        *)
(***************************************************************************)
EXTENDS Doors, FiniteSetTheorems, TLAPS

Calls ==
  [at : Servers \cup {None}, req : Requests \cup {None}, store : Servers \cup {None},
   why : Faults \cup {None}, out : {None, "done", "client", "infrastructure", "dropped"}]

DoorsType ==
  /\ settings \in Settings
  /\ server \in [Servers -> {"down", "entering", "opening", "serving", "owner", "closing",
                             "stopped"}]
  /\ shelves \subseteq Projects
  /\ call \in [Slots -> Calls]
  /\ saw \in [Doors -> SUBSET Projects] /\ put \in [Doors -> SUBSET Projects]

\* Only the main server opens a pool; the context offers it while the server owns it, and
\* no longer while it closes it.
PoolOK ==
  /\ \A s \in Servers \ {0} : server[s] \notin {"opening", "owner", "closing"}
  /\ pools = IF server[0] \in {"owner", "closing"} THEN {0} ELSE {}
  /\ context = IF server[0] = "owner" THEN 0 ELSE None

\* Nothing is served before the settings have passed.
BuiltOK ==
  IF process \in {"new", "refused"}
    THEN (\A s \in Servers : server[s] = "down") /\ (\A c \in Slots : ~InFlight(c))
    ELSE WellFormed /\ (settings.doors = <<>> \/ settings.single = None)

\* A call at work has passed the checks of the server it came to.
CallOK ==
  \A c \in Slots : InFlight(c) =>
    /\ call[c].at \in Servers /\ call[c].req \in Requests
    /\ call[c].req.op \in Offered(call[c].at) /\ Passes(call[c].at, call[c].req)

\* What a door returned or changed is of its own projects.
HistoryOK ==
  \A s \in Doors :
    /\ put[s] \cap Reserved = {}
    /\ Scoped(s) => saw[s] \cup put[s] \subseteq Allowed(s)
    /\ process \in {"new", "refused"} => saw[s] = {} /\ put[s] = {}

DoorsInv == DoorsType /\ PoolOK /\ BuiltOK /\ CallOK /\ HistoryOK /\ BlameIsRight

-----------------------------------------------------------------------------
(***************************************************************************)
(* The settings.                                                           *)
(***************************************************************************)
LEMMA DoorSettings ==
  ASSUME settings \in Settings
  PROVE  Len(settings.doors) \in Nat /\ Entries = 1 .. Len(settings.doors)
  <1>1. settings.doors \in Seq([port : Nat, projects : Seq(Projects \cup {""})])
    BY DoorsAssumption
  <1>2. \A T : \A q \in Seq(T) : Len(q) \in Nat /\ DOMAIN q = 1 .. Len(q)
    OBVIOUS
  <1>3. QED
    BY <1>1, <1>2 DEF Entries

LEMMA MainServes ==
  ASSUME settings \in Settings PROVE 0 \in Servers
  <1>1. CASE settings.single # None
    BY <1>1 DEF Servers
  <1>2. CASE settings.single = None
    BY <1>2, DoorSettings DEF Servers
  <1>3. QED
    BY <1>1, <1>2

\* When the doors are given as a list, each of them is an entry of it.
LEMMA ScopedHasEntry ==
  ASSUME settings \in Settings, settings.single = None
  PROVE  \A s \in Doors : s \in Entries /\ Scoped(s)
  <1>1. Servers = 0 .. Len(settings.doors)
    BY DEF Servers
  <1>2. QED
    BY <1>1, DoorSettings DEF Doors, Scoped, Sandbox

\* parse_sandbox_doors: accepted lists name no project twice and no factory shelf.
LEMMA ListsAreDisjoint ==
  ASSUME settings \in Settings, WellFormed, NEW s \in Doors, Scoped(s)
  PROVE  /\ Allowed(s) \cap Reserved = {}
         /\ \A t \in Doors \ {s} : Allowed(s) \cap Allowed(t) = {}
  <1>1. \A t \in Doors : t \in Entries
    BY ScopedHasEntry DEF Scoped
  <1>2. \A t \in Doors : \A p \in Allowed(t) :
          \E k \in DOMAIN Entry(t).projects : <<t, k>> \in Mentions /\ Named(t, k) = p
    BY <1>1 DEF Allowed, Mentions, Named
  <1>3. \A p \in Allowed(s) : p \notin Reserved
    BY <1>2 DEF WellFormed
  <1>4. ASSUME NEW t \in Doors, NEW p \in Allowed(s), p \in Allowed(t)
        PROVE  s = t
    <2>1. PICK j \in DOMAIN Entry(s).projects : <<s, j>> \in Mentions /\ Named(s, j) = p
      BY <1>2
    <2>2. PICK k \in DOMAIN Entry(t).projects : <<t, k>> \in Mentions /\ Named(t, k) = p
      BY <1>2, <1>4
    <2>3. ListedOnce
      BY DEF WellFormed
    <2>4. <<s, j>> = <<t, k>>
      BY <2>1, <2>2, <2>3 DEF ListedOnce
    <2>5. QED
      BY <2>4
  <1>5. QED
    BY <1>3, <1>4

LEMMA InitInv == Init => DoorsInv
  <1> SUFFICES ASSUME Init PROVE DoorsInv
    OBVIOUS
  <1>0. 0 \in Servers
    BY MainServes DEF Init
  <1>1. DoorsType
    BY DoorsAssumption DEF Init, DoorsType, Calls, Idle
  <1>2. PoolOK
    BY <1>0 DEF Init, PoolOK
  <1>3. BuiltOK /\ CallOK /\ HistoryOK /\ BlameIsRight
    BY DoorsAssumption DEF Init, Idle, InFlight, BuiltOK, CallOK, HistoryOK, BlameIsRight
  <1>4. QED
    BY <1>1, <1>2, <1>3 DEF DoorsInv

-----------------------------------------------------------------------------
(***************************************************************************)
(* The steps.                                                              *)
(***************************************************************************)
\* What the tools may rely on depends on the settings only, which never change.
LEMMA SameSettings ==
  ASSUME UNCHANGED settings
  PROVE  /\ Servers' = Servers /\ Doors' = Doors /\ WellFormed' = WellFormed
         /\ \A s : Scoped(s)' = Scoped(s) /\ Allowed(s)' = Allowed(s)
         /\ \A s, r : Passes(s, r)' = Passes(s, r) /\ Offered(s)' = Offered(s)
         /\ Calls' = Calls
  BY DEF Servers, Doors, WellFormed, PortsFit, ListedOnce, Mentions, Named, Entry, Entries,
         Scoped, Sandbox, Allowed, Passes, SandboxTakes, Serves, Offered, Calls

\* A server turns from one state of its lifespan to another.
Turning ==
  \/ Build
  \/ \E s \in Servers : Enter(s) \/ Opened(s) \/ OpenFails(s) \/ Stop(s) \/ Shutdown(s)

LEMMA TurningStep ==
  ASSUME DoorsInv, Turning
  PROVE  DoorsInv'
  <1> USE DEF DoorsInv
  <1>0. UNCHANGED <<settings, shelves, call, saw, put>>
    BY DEF Turning, Build, Enter, Opened, OpenFails, Stop, Shutdown, Close, Cancel, Leave, Reset,
           Quit
  <1>a. 0 \in Servers
    BY MainServes DEF DoorsType
  <1>1. DoorsType'
    BY <1>0, SameSettings
       DEF Turning, Build, Enter, Opened, OpenFails, Stop, Shutdown, Close, Cancel, Leave,
           Reset, Quit, Turn, DoorsType
  <1>2. PoolOK'
    <2>1. CASE Build
      BY <1>0, <1>a, <2>1, SameSettings DEF Build, BuiltOK, PoolOK
    <2>2. ASSUME NEW s \in Servers, Enter(s) \/ Opened(s) \/ OpenFails(s) \/ Reset(s) \/ Close(s)
                                     \/ Quit(s)
          PROVE  PoolOK'
      BY <1>0, <1>a, <2>2, SameSettings
         DEF Enter, Opened, OpenFails, Reset, Close, Quit, Turn, OpensStore, PoolOK, DoorsType
    <2>3. QED
      BY <2>1, <2>2 DEF Turning, Stop, Shutdown, Cancel, Leave
  <1>3. process \notin {"new", "refused"} => process' = process
    BY DEF Turning, Build, Enter, Opened, OpenFails, Stop, Shutdown, Close, Cancel, Leave,
           Reset, Quit
  <1>4. BuiltOK'
    BY <1>0, <1>3, SameSettings
       DEF Turning, Build, Enter, Opened, OpenFails, Stop, Shutdown, Close, Cancel, Leave,
           Reset, Quit, Turn, BuiltOK, InFlight
  <1>5. CallOK' /\ BlameIsRight'
    BY <1>0, SameSettings DEF CallOK, InFlight, BlameIsRight
  <1>6. HistoryOK'
    BY <1>0, <1>3, SameSettings DEF HistoryOK
  <1>7. QED
    BY <1>1, <1>2, <1>4, <1>5, <1>6

\* A call that has its answer is not at work, and dropping it blames nobody.
LEMMA NoneIsNoAnswer ==
  /\ None # "done" /\ None # "client" /\ None # "infrastructure" /\ None # "dropped"
  BY DoorsAssumption

LEMMA EndStep ==
  ASSUME DoorsInv, GraceOver \/ End
  PROVE  DoorsInv'
  <1> USE DEF DoorsInv
  <1>0. /\ UNCHANGED <<settings, server, context, pools, shelves, saw, put>>
        /\ process \notin {"new", "refused"} /\ process' \notin {"new", "refused"}
    BY DEF GraceOver, End
  <1>1. \A c \in Slots :
          call'[c] = call[c]
            \/ (InFlight(c) /\ call'[c] = [call[c] EXCEPT !.out = "dropped"])
    BY DEF GraceOver, End
  <1>2. \A c \in Slots : call[c] \in Calls
    BY DEF DoorsType
  <1>3. \A c \in Slots : call'[c] \in Calls
    <2> SUFFICES ASSUME NEW c \in Slots PROVE call'[c] \in Calls
      OBVIOUS
    <2>1. call[c] \in Calls
      BY <1>2
    <2>2. [call[c] EXCEPT !.out = "dropped"] \in Calls
      BY <2>1 DEF Calls
    <2>3. QED
      BY <1>1, <2>1, <2>2, Zenon
  <1>4. call' \in [Slots -> Calls]
    <2>1. CASE GraceOver
      BY <2>1 DEF GraceOver, DoorsType
    <2>2. CASE End
      BY <1>3, <2>2 DEF End
    <2>3. QED
      BY <2>1, <2>2
  <1>5. DoorsType'
    BY <1>0, <1>4, SameSettings DEF DoorsType
  <1>6. \A c \in Slots :
          \/ call'[c] = call[c]
          \/ call'[c].out = "dropped"
    BY <1>1, <1>2 DEF Calls
  <1>7. CallOK' /\ BlameIsRight'
    BY <1>0, <1>6, SameSettings, NoneIsNoAnswer DEF CallOK, InFlight, BlameIsRight
  <1>8. PoolOK' /\ BuiltOK' /\ HistoryOK'
    BY <1>0, SameSettings DEF PoolOK, BuiltOK, HistoryOK
  <1>9. QED
    BY <1>5, <1>7, <1>8

\* A call comes in: it is at work only when its server offers the tool and the checks
\* passed.
LEMMA InvokeStep ==
  ASSUME DoorsInv, NEW c \in Slots, NEW s \in Servers, NEW r \in Requests, Invoke(c, s, r)
  PROVE  DoorsInv'
  <1> USE DEF DoorsInv
  <1> DEFINE new == [at |-> s, req |-> r, store |-> context, why |-> None,
                     out |-> IF context # None /\ Passes(s, r) THEN None ELSE Refusal(r)]
  <1>0. /\ UNCHANGED <<settings, process, server, context, pools, shelves, saw, put>>
        /\ call' = [call EXCEPT ![c] = new]
        /\ server[s] \in {"serving", "owner"} /\ r.op \in Offered(s)
    BY DEF Invoke, serverVars
  <1>1. context \in Servers \cup {None}
    BY MainServes DEF DoorsType, PoolOK
  <1>2. new.out \in {None, "client", "infrastructure"} /\ new \in Calls
    BY <1>1 DEF Refusal, Calls
  <1>3. call' \in [Slots -> Calls]
    BY <1>0, <1>2 DEF DoorsType
  <1>4. DoorsType'
    BY <1>0, <1>3, SameSettings DEF DoorsType
  <1>5. \A d \in Slots : call'[d] = IF d = c THEN new ELSE call[d]
    BY <1>0 DEF DoorsType
  <1>6. process \notin {"new", "refused"}
    BY <1>0 DEF BuiltOK
  <1>7. PoolOK' /\ BuiltOK' /\ HistoryOK'
    BY <1>0, <1>6, SameSettings DEF PoolOK, BuiltOK, HistoryOK
  <1>8. new.out = None => Passes(s, r)
    BY NoneIsNoAnswer DEF Refusal
  <1>9. CallOK'
    BY <1>0, <1>5, <1>8, SameSettings DEF CallOK, InFlight
  <1>10. new.out = "client" => ~Passes(s, r) \/ (r.op = "search" /\ new.store = None)
    BY NoneIsNoAnswer DEF Refusal
  <1>11. BlameIsRight'
    BY <1>5, <1>10, SameSettings, <1>0 DEF BlameIsRight
  <1>12. QED
    BY <1>4, <1>7, <1>9, <1>11

\* A call is answered: whatever the answer, the other calls are as they were.
LEMMA AnswerStep ==
  ASSUME DoorsInv, UNCHANGED serverVars, NEW c \in Slots, InFlight(c),
         NEW new \in Calls, new.out # None, new.at = call[c].at, new.req = call[c].req,
         new.store = call[c].store, new.out = "client" => new.why \in Certain,
         call' = [call EXCEPT ![c] = new]
  PROVE  /\ call' \in [Slots -> Calls'] /\ PoolOK' /\ BuiltOK' /\ CallOK' /\ BlameIsRight'
         /\ process \notin {"new", "refused"}
  <1> USE DEF DoorsInv
  <1>0. UNCHANGED <<settings, process, server, context, pools>>
    BY DEF serverVars
  <1>1. call' \in [Slots -> Calls']
    BY <1>0, SameSettings DEF DoorsType
  <1>2. \A d \in Slots : call'[d] = IF d = c THEN new ELSE call[d]
    BY DEF DoorsType
  <1>3. process \notin {"new", "refused"}
    BY DEF BuiltOK
  <1>4. PoolOK' /\ BuiltOK'
    BY <1>0, <1>3, SameSettings DEF PoolOK, BuiltOK
  <1>5. CallOK' /\ BlameIsRight'
    BY <1>0, <1>2, SameSettings DEF CallOK, InFlight, BlameIsRight
  <1>6. QED
    BY <1>1, <1>3, <1>4, <1>5

LEMMA FaultStep ==
  ASSUME DoorsInv, NEW c \in Slots, Drop(c) \/ \E x \in Faults : Fault(c, x)
  PROVE  DoorsInv'
  <1>0. /\ UNCHANGED serverVars /\ UNCHANGED <<shelves, saw, put>> /\ InFlight(c)
        /\ call[c] \in Calls
    BY DEF Drop, Fault, DoorsInv, DoorsType
  <1>1. PICK new \in Calls :
          /\ new.out # None /\ new.at = call[c].at /\ new.req = call[c].req
          /\ new.store = call[c].store /\ (new.out = "client" => new.why \in Certain)
          /\ call' = [call EXCEPT ![c] = new]
    <2>1. CASE Drop(c)
      <3> DEFINE n == [call[c] EXCEPT !.out = "dropped"]
      <3>1. call' = [call EXCEPT ![c] = n]
        BY <2>1 DEF Drop
      <3>2. /\ n \in Calls /\ n.out = "dropped" /\ n.at = call[c].at /\ n.req = call[c].req
            /\ n.store = call[c].store
        BY <1>0 DEF Calls
      <3>3. QED
        BY <3>1, <3>2, NoneIsNoAnswer
    <2>2. ASSUME NEW x \in Faults, Fault(c, x)
          PROVE  \E new \in Calls :
            /\ new.out # None /\ new.at = call[c].at /\ new.req = call[c].req
            /\ new.store = call[c].store /\ (new.out = "client" => new.why \in Certain)
            /\ call' = [call EXCEPT ![c] = new]
      <3> DEFINE e == ErrorType(call[c].req.op, x)
                 n == [call[c] EXCEPT !.why = x, !.out = e]
      <3>1. call' = [call EXCEPT ![c] = n]
        BY <2>2 DEF Fault
      <3>2. e \in {"client", "infrastructure"} /\ (e = "client" => x \in Certain)
        BY DEF ErrorType, Certain, Refused, Mismatch
      <3>3. /\ n \in Calls /\ n.out = e /\ n.why = x /\ n.at = call[c].at
            /\ n.req = call[c].req /\ n.store = call[c].store
        BY <1>0, <3>2 DEF Calls
      <3>4. QED
        BY <3>1, <3>2, <3>3, NoneIsNoAnswer
    <2>3. QED
      BY <2>1, <2>2
  <1>2. /\ call' \in [Slots -> Calls'] /\ PoolOK' /\ BuiltOK' /\ CallOK' /\ BlameIsRight'
    BY <1>0, <1>1, AnswerStep
  <1>3. DoorsType' /\ HistoryOK'
    BY <1>0, <1>2, SameSettings DEF serverVars, DoorsInv, DoorsType, HistoryOK
  <1>4. QED
    BY <1>2, <1>3 DEF DoorsInv

\* The store answers.  A door finds rows of the very project asked for, lists the shelves
\* of its own list, and writes only where its checks let it.
LEMMA SucceedStep ==
  ASSUME DoorsInv, NEW c \in Slots, Succeed(c)
  PROVE  DoorsInv'
  <1> DEFINE s == call[c].at
             r == call[c].req
             n == [call[c] EXCEPT !.out = "done"]
  <1>0. UNCHANGED serverVars /\ InFlight(c) /\ call[c] \in Calls /\ call' = [call EXCEPT ![c] = n]
    BY DEF Succeed, DoorsInv, DoorsType
  <1>1. /\ n \in Calls /\ n.out = "done" /\ n.at = call[c].at /\ n.req = call[c].req
        /\ n.store = call[c].store
    BY <1>0 DEF Calls
  <1>2. /\ call' \in [Slots -> Calls'] /\ PoolOK' /\ BuiltOK' /\ CallOK' /\ BlameIsRight'
        /\ process \notin {"new", "refused"}
    BY <1>0, <1>1, NoneIsNoAnswer, AnswerStep
  <1>3. s \in Servers /\ r \in Requests /\ r.op \in Offered(s) /\ Passes(s, r)
    BY <1>0 DEF DoorsInv, CallOK
  <1>4. r.on \in Projects
    BY <1>3, DoorsAssumption
  <1>5. Found(r.on) \subseteq shelves /\ (\A q \in Found(r.on) : q = r.on)
    BY DEF Found, MatchesProject
  <1>6. Listed(s) \subseteq shelves /\ (Scoped(s) => Listed(s) \subseteq Allowed(s))
    BY DEF Listed
  <1>7. Sandbox(s) => s \in Doors
    BY <1>3, DoorSettings DEF Sandbox, Doors, DoorsInv, DoorsType
  <1>8. shelves \subseteq Projects /\ shelves' \subseteq Projects
    BY <1>4 DEF Succeed, DoorsInv, DoorsType
  <1>9. /\ saw \in [Doors -> SUBSET Projects] /\ put \in [Doors -> SUBSET Projects]
        /\ UNCHANGED <<settings, process>>
    BY <1>0 DEF DoorsInv, DoorsType, serverVars
  <1>10. \/ saw' = saw
         \/ /\ r.op \in {"list", "search"} /\ put' = put
            /\ saw' = Noted(saw, s, IF r.op = "list" THEN Listed(s) ELSE Found(r.on))
    BY DEF Succeed
  <1>11. \/ put' = put
         \/ /\ r.op \in {"write", "publish", "supersede"} /\ saw' = saw
            /\ put' = Noted(put, s, {r.on})
    BY DEF Succeed
  <1>12. ASSUME NEW h \in [Doors -> SUBSET Projects], NEW ps \in SUBSET Projects
         PROVE  /\ Noted(h, s, ps) \in [Doors -> SUBSET Projects]
                /\ \A d \in Doors : Noted(h, s, ps)[d] \subseteq h[d] \cup ps
                /\ \A d \in Doors : d # s => Noted(h, s, ps)[d] = h[d]
    BY <1>7 DEF Noted
  <1>13. saw' \in [Doors -> SUBSET Projects] /\ put' \in [Doors -> SUBSET Projects]
    BY <1>4, <1>5, <1>6, <1>8, <1>9, <1>10, <1>11, <1>12
  <1>14. DoorsType'
    BY <1>0, <1>2, <1>8, <1>13, SameSettings DEF serverVars, DoorsInv, DoorsType
  <1>15. ASSUME NEW d \in Doors
         PROVE  /\ put'[d] \cap Reserved = {}
                /\ Scoped(d) => saw'[d] \cup put'[d] \subseteq Allowed(d)
    <2>1. /\ put[d] \cap Reserved = {}
          /\ Scoped(d) => saw[d] \subseteq Allowed(d) /\ put[d] \subseteq Allowed(d)
      BY DEF DoorsInv, HistoryOK
    <2>2. Sandbox(d)
      BY DoorSettings DEF Sandbox, Doors, Servers, DoorsInv, DoorsType
    <2>3. put'[d] \cap Reserved = {} /\ (Scoped(d) => put'[d] \subseteq Allowed(d))
      <3>1. CASE put'[d] = put[d]
        BY <2>1, <3>1
      <3>2. CASE put'[d] # put[d]
        <4>1. /\ s = d /\ r.op \in {"write", "publish", "supersede"}
              /\ put'[d] \subseteq put[d] \cup {r.on}
          BY <1>4, <1>9, <1>11, <1>12, <3>2
        <4>2. r.op = "write"
          BY <1>3, <2>2, <4>1 DEF Offered
        <4>3. r.on \notin Reserved /\ (Scoped(d) => r.on \in Allowed(d))
          BY <1>3, <2>2, <4>1, <4>2 DEF Passes, SandboxTakes, Serves
        <4>4. QED
          BY <2>1, <4>1, <4>3
      <3>3. QED
        BY <3>1, <3>2
    <2>4. Scoped(d) => saw'[d] \subseteq Allowed(d)
      <3>1. CASE saw'[d] = saw[d]
        BY <2>1, <3>1
      <3>2. CASE saw'[d] # saw[d]
        <4> DEFINE ps == IF r.op = "list" THEN Listed(s) ELSE Found(r.on)
        <4>0. ps \in SUBSET Projects
          BY <1>5, <1>6, <1>8
        <4>1. /\ s = d /\ r.op \in {"list", "search"} /\ saw'[d] \subseteq saw[d] \cup ps
          BY <1>9, <1>10, <1>12, <3>2, <4>0
        <4>2. r.op = "search" => (Scoped(d) => r.on \in Allowed(d))
          BY <1>3, <4>1 DEF Passes, Serves
        <4>3. Scoped(d) => ps \subseteq Allowed(d)
          BY <1>5, <1>6, <4>1, <4>2
        <4>4. QED
          BY <2>1, <4>1, <4>3
      <3>3. QED
        BY <3>1, <3>2
    <2>5. QED
      BY <2>3, <2>4
  <1>16. HistoryOK'
    BY <1>2, <1>9, <1>15, SameSettings DEF HistoryOK
  <1>17. QED
    BY <1>2, <1>14, <1>16 DEF DoorsInv

LEMMA NextInv ==
  ASSUME DoorsInv, [Next]_vars
  PROVE  DoorsInv'
  <1>1. CASE UNCHANGED vars
    <2>1. /\ UNCHANGED <<settings, process, server, context, pools, shelves, call, saw, put>>
      BY <1>1 DEF vars
    <2>2. DoorsType' /\ PoolOK' /\ BuiltOK' /\ HistoryOK'
      BY <2>1, SameSettings
         DEF DoorsInv, DoorsType, PoolOK, BuiltOK, HistoryOK, InFlight
    <2>3. CallOK' /\ BlameIsRight'
      BY <2>1, SameSettings DEF DoorsInv, CallOK, BlameIsRight, InFlight
    <2>4. QED
      BY <2>2, <2>3 DEF DoorsInv
  <1>2. CASE Next
    BY <1>2, TurningStep, EndStep, InvokeStep, FaultStep, SucceedStep DEF Next, Turning
  <1>3. QED
    BY <1>1, <1>2

LEMMA Invariance == Spec => []DoorsInv
  BY InitInv, NextInv, PTL DEF Spec

-----------------------------------------------------------------------------
(***************************************************************************)
(* The theorems.                                                           *)
(***************************************************************************)
\* doors.py: for any settings the service accepts, however many doors, calls and requests
\* there are, no door ever returned or changed a record of another door or of a factory
\* shelf; and no door, with or without a list, changed one on a factory shelf.
THEOREM DoorsAreIsolated == Spec => []DoorsIsolated
  <1>1. ASSUME DoorsInv PROVE DoorsIsolated
    <2> SUFFICES ASSUME NEW s \in Doors
                 PROVE  /\ put[s] \cap Reserved = {}
                        /\ Scoped(s) =>
                             /\ saw[s] \cap Reserved = {}
                             /\ \A t \in Doors \ {s} :
                                  (saw[s] \cup put[s]) \cap (saw[t] \cup put[t]) = {}
      BY DEF DoorsIsolated
    <2>1. put[s] \cap Reserved = {}
      BY <1>1 DEF DoorsInv, HistoryOK
    <2>2. CASE process \in {"new", "refused"}
      BY <1>1, <2>1, <2>2 DEF DoorsInv, HistoryOK
    <2>3. CASE process \notin {"new", "refused"} /\ Scoped(s)
      <3>1. WellFormed /\ settings \in Settings
        BY <1>1, <2>3 DEF DoorsInv, BuiltOK, DoorsType
      <3>2. \A t \in Doors : saw[t] \cup put[t] \subseteq Allowed(t)
        BY <1>1, <2>3, <3>1, ScopedHasEntry DEF DoorsInv, HistoryOK, Scoped
      <3>3. QED
        BY <2>1, <2>3, <3>1, <3>2, ListsAreDisjoint
    <2>4. QED
      BY <2>1, <2>2, <2>3
  <1>2. QED
    BY <1>1, Invariance, PTL

\* server.py: whatever servers start, fail to open the store, serve and stop, the process
\* has at most one pool, and a tool that reads the context never gets a closed one.
THEOREM ContextHoldsAnOpenPool == Spec => []ContextIsOpen
  <1>1. ASSUME DoorsInv PROVE ContextIsOpen
    <2>1. Cardinality({}) = 0 /\ Cardinality({0}) = 1
      BY FS_EmptySet, FS_Singleton
    <2>2. pools = {} \/ pools = {0}
      BY <1>1 DEF DoorsInv, PoolOK
    <2>3. Cardinality(pools) <= 1
      BY <2>1, <2>2
    <2>4. context # None => context \in pools
      BY <1>1 DEF DoorsInv, PoolOK
    <2>5. QED
      BY <2>3, <2>4 DEF ContextIsOpen
  <1>2. QED
    BY <1>1, Invariance, PTL

\* degradation.py: a call is reported as the client's fault only for what would be refused
\* with everything up, or for a mismatched embedding dimension, the searches without a
\* store excepted.
THEOREM BlameIsDeserved == Spec => []BlameIsRight
  BY Invariance, PTL DEF DoorsInv

-----------------------------------------------------------------------------
(***************************************************************************)
(* The end of the process.                                                 *)
(***************************************************************************)
EndedClean ==
  process = "ended" =>
    /\ \A s \in Servers : server[s] = "stopped"
    /\ pools = {} /\ context = None /\ \A c \in Slots : ~InFlight(c)

LEMMA EndedStep ==
  ASSUME DoorsInv, EndedClean, [Next]_vars
  PROVE  EndedClean'
  <1> SUFFICES ASSUME process' = "ended"
               PROVE  /\ \A s \in Servers' : server'[s] = "stopped"
                      /\ pools' = {} /\ context' = None /\ \A c \in Slots : ~InFlight(c)'
    BY DEF EndedClean
  <1>0. 0 \in Servers
    BY MainServes DEF DoorsInv, DoorsType
  <1>1. CASE process = "ended"
    <2>1. /\ \A s \in Servers : server[s] = "stopped"
          /\ pools = {} /\ context = None /\ \A c \in Slots : ~InFlight(c)
      BY <1>1 DEF EndedClean
    <2>2. UNCHANGED <<settings, server, pools, context, call>>
      BY <1>1, <2>1
         DEF Next, Build, GraceOver, End, Enter, Opened, OpenFails, Stop, Shutdown, Close,
             Cancel, Leave, Reset, Quit, Turn, Succeed, Drop, Fault, Invoke, vars
    <2>3. QED
      BY <2>1, <2>2, SameSettings DEF InFlight
  <1>2. CASE process # "ended"
    <2>1. End
      BY <1>2 DEF Next, Build, GraceOver, Enter, Opened, OpenFails, Stop, Shutdown, Close,
                  Cancel, Leave, Reset, Quit, Turn, Succeed, Drop, Fault, Invoke, vars,
                  serverVars
    <2>2. /\ Running = {} /\ UNCHANGED <<settings, server, pools, context>>
          /\ call' = [c \in Slots |->
                IF InFlight(c) THEN [call[c] EXCEPT !.out = "dropped"] ELSE call[c]]
      BY <2>1 DEF End
    <2>3. \A s \in Servers : server[s] = "stopped"
      BY <2>2 DEF Running
    <2>4. pools = {} /\ context = None
      BY <1>0, <2>3 DEF DoorsInv, PoolOK
    <2>5. ASSUME NEW c \in Slots PROVE ~InFlight(c)'
      <3>1. call[c] \in Calls
        BY DEF DoorsInv, DoorsType
      <3>2. CASE InFlight(c)
        <4>1. call'[c] = [call[c] EXCEPT !.out = "dropped"]
          BY <2>2, <3>2
        <4>2. call'[c].out = "dropped"
          BY <3>1, <4>1 DEF Calls
        <4>3. QED
          BY <4>2, NoneIsNoAnswer DEF InFlight
      <3>3. CASE ~InFlight(c)
        <4>1. call'[c] = call[c]
          BY <2>2, <3>3
        <4>2. QED
          BY <3>3, <4>1 DEF InFlight
      <3>4. QED BY <3>2, <3>3
    <2>6. QED
      BY <2>2, <2>3, <2>4, <2>5, SameSettings
  <1>3. QED BY <1>1, <1>2

\* _serve_both: the process ends only when every server has left its lifespan, and from
\* then on there is no open pool, no store in the context and no call at work, however
\* many servers and calls there were.  It is the safety half of StopsTogether.
THEOREM EndIsClean == Spec => []EndedClean
  <1>1. Init => EndedClean
    BY DEF Init, EndedClean
  <1>2. QED
    BY <1>1, Invariance, EndedStep, PTL DEF Spec
=============================================================================
