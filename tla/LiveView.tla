------------------------------ MODULE LiveView ------------------------------
(***************************************************************************)
(* A dashboard: the page's state, its asynchronous tasks and its stream,   *)
(* over EventChannel.                                                      *)
(*                                                                         *)
(* The page runs one handler at a time, up to its next await.  A task      *)
(* waits for an answer of the Worker, and others, gestures and events of   *)
(* the stream come in between.  The list of projects does not change and   *)
(* is not empty; heartbeats and the agent's detail are left out.           *)
(***************************************************************************)
EXTENDS EventChannel

CONSTANTS
  Preferred,     (* The project connect selects.                            *)
  Tasks,         (* Names of tasks: bounds how many overlap.                *)
  MaxGestures,   (* Bound on what the operator does.                        *)
  NoProject, NoSocket, NoTimer

ASSUME ViewAssumption ==
  /\ Preferred \in Projects /\ NoProject \notin Projects
  /\ NoSocket \notin Sockets /\ MaxGestures \in Nat

VARIABLES
  token,         (* Whether state.token is set.                             *)
  project,       (* state.projectId.                                        *)
  generation, socket, timer,   (* state.streamGeneration, .socket, .reconnectTimer. *)
  opener,        (* What each socket's handlers closed over.                *)
  label,         (* What the page says of the stream.                       *)
  view,          (* The project titled and the agents listed.               *)
  task,
  gestures,
  disturbed      (* Whether tasks have overlapped, or one has failed.       *)

stream == <<generation, socket, timer, opener, label>>
page == <<token, project, view, task, gestures, disturbed>>
vars == <<channel, stream, page>>

Idle == [at |-> "idle"]

-----------------------------------------------------------------------------
LiveInit ==
  /\ ChannelInit
  /\ token = FALSE /\ project = NoProject
  /\ generation = 0 /\ socket = NoSocket /\ timer = NoTimer
  /\ opener = [s \in Sockets |-> [project |-> NoProject, generation |-> 0]]
  /\ label = "disconnected"
  /\ view = [project |-> NoProject, agents |-> {}]
  /\ task = [t \in Tasks |-> Idle]
  /\ gestures = 0 /\ disturbed = FALSE

(* Nothing is left of these at either end. *)
Free == {s \in Sockets : /\ link[s] = "gone"
                         /\ \A p \in Projects : s \notin pending[p] \cup attached[p]}

(* socket.close(): what is in flight is not delivered any more. *)
HungUp == [s \in Sockets |-> IF s = socket THEN "down" ELSE link[s]]
Silenced == [s \in Sockets |-> IF s = socket THEN {} ELSE wire[s]]

CloseStream ==
  /\ generation' = generation + 1
  /\ timer' = NoTimer /\ socket' = NoSocket /\ label' = "disconnected"
  /\ link' = HungUp /\ wire' = Silenced
  /\ UNCHANGED <<opener, stage, pending, attached, sockets, awake, handed, faults>>

(* new WebSocket: the request leaves, or the constructor throws and is     *)
(* tried again later.  The other links stay as the caller left them.       *)
NewSocket(p, g, links) ==
  /\ label' = "reconnecting"
  /\ \/ \E s \in Free :
          /\ socket' = s /\ timer' = NoTimer
          /\ link' = [links EXCEPT ![s] = "connecting"]
          /\ opener' = [opener EXCEPT ![s] = [project |-> p, generation |-> g]]
          /\ pending' = [pending EXCEPT ![p] = @ \cup {s}]
          /\ handed' = [handed EXCEPT ![s] = {}]
          /\ UNCHANGED faults
     \/ /\ socket' = NoSocket /\ timer' = [project |-> p, generation |-> g]
        /\ link' = links
        /\ Fault
        /\ UNCHANGED <<opener, pending, handed>>

(* closeStream, and openStream for the project selected by now. *)
ConnectStream ==
  IF token
  THEN /\ generation' = generation + 1
       /\ NewSocket(project, generation + 1, HungUp) /\ wire' = Silenced
       /\ UNCHANGED <<stage, attached, sockets, awake>>
  ELSE CloseStream

-----------------------------------------------------------------------------
(* The operator. *)

Gesture ==
  /\ gestures < MaxGestures /\ gestures' = gestures + 1
  /\ disturbed' = (disturbed \/ \E t \in Tasks : task[t] # Idle)

Start(t, work) == task[t] = Idle /\ task' = [task EXCEPT ![t] = work]

Become(t, work) == task' = [task EXCEPT ![t] = work] /\ UNCHANGED gestures

(* connect() asks for the projects ... *)
Connect(t) ==
  /\ Gesture /\ Start(t, [at |-> "listing"])
  /\ CloseStream
  /\ token' = TRUE
  /\ UNCHANGED <<project, view>>

(* ... unless the token's field is empty. *)
ConnectWithoutToken ==
  /\ Gesture
  /\ CloseStream
  /\ token' = FALSE
  /\ UNCHANGED <<project, view, task>>

(* project-select's change handler. *)
ChangeProject(t, p) ==
  /\ project # NoProject /\ p # project
  /\ Gesture /\ Start(t, [at |-> "loading", project |-> p, authorized |-> token])
  /\ CloseStream
  /\ project' = p
  /\ UNCHANGED <<token, view>>

(* agent-form's submit handler. *)
SubmitAgent(t) ==
  /\ project # NoProject
  /\ Gesture /\ Start(t, [at |-> "registering", project |-> project, authorized |-> token])
  /\ UNCHANGED <<channel, stream, token, project, view>>

(* disconnect() removes the token and reloads the page. *)
Disconnect ==
  /\ gestures < MaxGestures /\ gestures' = gestures + 1
  /\ token' = FALSE /\ project' = NoProject
  /\ generation' = 0 /\ socket' = NoSocket /\ timer' = NoTimer /\ label' = "disconnected"
  /\ link' = [s \in Sockets |-> "gone"]
  /\ wire' = [s \in Sockets |-> {}]
  /\ view' = [project |-> NoProject, agents |-> {}]
  /\ task' = [t \in Tasks |-> Idle]
  /\ disturbed' = FALSE
  /\ UNCHANGED <<opener, stage, pending, attached, sockets, awake, handed, faults>>

-----------------------------------------------------------------------------
(* Tasks. *)

(* The list arrives: connect() selects a project and loads it. *)
Listed(t) ==
  /\ task[t].at = "listing"
  /\ project' = Preferred
  /\ Become(t, [at |-> "loading", project |-> Preferred, authorized |-> token])
  /\ UNCHANGED <<channel, stream, token, view, disturbed>>

Read_everyProject(t) ==                \* mutant: the query does not ask for the project
  /\ task[t].at = "loading" /\ task[t].authorized
  /\ Become(t, [at |-> "loaded", project |-> task[t].project,
                agents |-> {a \in Agents : stage[a] # "none"}])
  /\ UNCHANGED <<channel, stream, token, project, view, disturbed>>

(* The Worker reads the agents of the task's project. *)
Read(t) ==
  /\ task[t].at = "loading" /\ task[t].authorized
  /\ Become(t, [at |-> "loaded", project |-> task[t].project,
                agents |-> {a \in Agents : Home[a] = task[t].project /\ stage[a] # "none"}])
  /\ UNCHANGED <<channel, stream, token, project, view, disturbed>>

Render_keepsStream(t) ==               \* mutant: a stream that is there is kept
  /\ task[t].at = "loaded"
  /\ view' = [project |-> task[t].project, agents |-> task[t].agents]
  /\ IF socket # NoSocket THEN UNCHANGED <<channel, stream>> ELSE ConnectStream
  /\ Become(t, Idle)
  /\ UNCHANGED <<token, project, disturbed>>

(* loadProject draws what was read, and its caller connects the stream.    *)
Render(t) ==
  /\ task[t].at = "loaded"
  /\ view' = [project |-> task[t].project, agents |-> task[t].agents]
  /\ ConnectStream
  /\ Become(t, Idle)
  /\ UNCHANGED <<token, project, disturbed>>

(* The Worker registers an agent for the form. *)
StoreForm(t, a) ==
  /\ task[t].at = "registering" /\ task[t].authorized
  /\ Home[a] = task[t].project
  /\ RegisterAgent(a)
  /\ Become(t, [at |-> "registered", agent |-> a])
  /\ UNCHANGED <<stream, token, project, view, disturbed>>

(* It answers after the event is published; the page lists the agent.      *)
Registered(t) ==
  /\ task[t].at = "registered" /\ stage[task[t].agent] = "published"
  /\ view' = [view EXCEPT !.agents = @ \cup {task[t].agent}]
  /\ Become(t, Idle)
  /\ UNCHANGED <<channel, stream, token, project, disturbed>>

(* Each of the fetches may fail; the handler reports it and ends.          *)
TaskFails(t) ==
  /\ task[t] # Idle
  /\ Become(t, Idle)
  /\ disturbed' = TRUE
  /\ UNCHANGED <<channel, stream, token, project, view>>

Task(t) == Listed(t) \/ Read(t) \/ Render(t) \/ Registered(t)

-----------------------------------------------------------------------------
(* The stream's own handlers. *)

Current(s) == opener[s].generation = generation /\ socket = s

OpenEvent(s) ==
  /\ link[s] = "connecting" /\ \E p \in Projects : s \in attached[p]
  /\ link' = [link EXCEPT ![s] = "open"]
  /\ label' = IF Current(s) THEN "connected" ELSE label
  /\ UNCHANGED <<stage, pending, attached, sockets, awake, wire, handed, faults>>
  /\ UNCHANGED <<generation, socket, timer, opener, page>>

(* handleStreamEvent adds an agent it does not know. *)
MessageEvent(s) ==
  /\ link[s] = "open"
  /\ \E a \in wire[s] :
       /\ wire' = [wire EXCEPT ![s] = @ \ {a}]
       /\ view' = IF Current(s) THEN [view EXCEPT !.agents = @ \cup {a}] ELSE view
  /\ UNCHANGED <<stage, pending, attached, sockets, awake, link, handed, faults>>
  /\ UNCHANGED <<stream, token, project, task, gestures, disturbed>>

CloseEvent_anySocket(s) ==             \* mutant: the handler does not look whose event it is
  /\ link[s] = "down"
  /\ link' = [link EXCEPT ![s] = "gone"]
  /\ socket' = NoSocket
  /\ IF opener[s].project = project /\ token
     THEN timer' = opener[s] /\ label' = "reconnecting"
     ELSE UNCHANGED <<timer, label>>
  /\ UNCHANGED <<stage, pending, attached, sockets, awake, wire, handed, faults>>
  /\ UNCHANGED <<generation, opener, page>>

CloseEvent_onlyOnce(s) ==              \* mutant: no reconnection is scheduled
  /\ link[s] = "down"
  /\ link' = [link EXCEPT ![s] = "gone"]
  /\ socket' = IF Current(s) THEN NoSocket ELSE socket
  /\ UNCHANGED <<timer, label>>
  /\ UNCHANGED <<stage, pending, attached, sockets, awake, wire, handed, faults>>
  /\ UNCHANGED <<generation, opener, page>>

(* The close event of the current socket sets the timer, if the project    *)
(* is still the one selected.  If the connection failed an error event,    *)
(* which only sets the label, comes with it.                               *)
CloseEvent(s) ==
  /\ link[s] = "down"
  /\ link' = [link EXCEPT ![s] = "gone"]
  /\ socket' = IF Current(s) THEN NoSocket ELSE socket
  /\ IF Current(s) /\ opener[s].project = project /\ token
     THEN timer' = opener[s] /\ label' = "reconnecting"
     ELSE timer' = timer /\ label' \in {label} \cup {x \in {"reconnecting"} : Current(s)}
  /\ UNCHANGED <<stage, pending, attached, sockets, awake, wire, handed, faults>>
  /\ UNCHANGED <<generation, opener, page>>

(* The reconnection: the agents are not loaded again.                      *)
TimerEvent ==
  /\ timer # NoTimer
  /\ IF timer.generation = generation /\ timer.project = project /\ token
     THEN /\ NewSocket(timer.project, timer.generation, link)
          /\ UNCHANGED generation
     ELSE /\ timer' = NoTimer
          /\ UNCHANGED <<generation, socket, label, opener, pending, link, handed, faults>>
  /\ UNCHANGED <<stage, attached, sockets, awake, wire, page>>

Stream == TimerEvent \/ \E s \in Sockets : OpenEvent(s) \/ MessageEvent(s) \/ CloseEvent(s)

-----------------------------------------------------------------------------
LiveNext ==
  \/ ChannelNext /\ UNCHANGED <<stream, page>>
  \/ ConnectWithoutToken \/ Disconnect
  \/ \E t \in Tasks : \/ Connect(t) \/ SubmitAgent(t)
                      \/ \E p \in Projects : ChangeProject(t, p)
                      \/ Task(t) \/ TaskFails(t)
                      \/ \E a \in Agents : StoreForm(t, a)
  \/ Stream

(* Upgrades are answered, the page's handlers run, both ends learn of a    *)
(* connection that is down; answers of the Worker need not come.           *)
LiveSpec ==
  /\ LiveInit /\ [][LiveNext]_vars
  /\ \A s \in Sockets :
       /\ WF_vars((\E p \in Projects : Accept(s, p)) /\ UNCHANGED <<stream, page>>)
       /\ WF_vars((\E p \in Projects : Detach(s, p)) /\ UNCHANGED <<stream, page>>)
       /\ WF_vars(OpenEvent(s)) /\ WF_vars(CloseEvent(s))
  /\ WF_vars(TimerEvent)

-----------------------------------------------------------------------------
Works ==
  [at : {"idle", "listing"}]
  \cup [at : {"loading", "registering"}, project : Projects, authorized : BOOLEAN]
  \cup [at : {"loaded"}, project : Projects, agents : SUBSET Agents]
  \cup [at : {"registered"}, agent : Agents]

(* Types; the object in memory knows only sockets that are attached.       *)
LiveTypeOK ==
  /\ stage \in [Agents -> {"none", "stored", "published", "lost"}]
  /\ pending \in [Projects -> SUBSET Sockets]
  /\ attached \in [Projects -> SUBSET Sockets]
  /\ awake \in [Projects -> BOOLEAN]
  /\ sockets \in [Projects -> SUBSET Sockets]
  /\ \A p \in Projects : sockets[p] \subseteq attached[p]
  /\ link \in [Sockets -> {"connecting", "open", "down", "gone"}]
  /\ wire \in [Sockets -> SUBSET Agents] /\ handed \in [Sockets -> SUBSET Agents]
  /\ faults \in 0 .. MaxFaults /\ gestures \in 0 .. MaxGestures
  /\ token \in BOOLEAN /\ disturbed \in BOOLEAN
  /\ project \in Projects \cup {NoProject}
  /\ generation \in Nat /\ socket \in Sockets \cup {NoSocket}
  /\ opener \in [Sockets -> [project : Projects \cup {NoProject}, generation : Nat]]
  /\ timer \in {NoTimer} \cup [project : Projects, generation : Nat]
  /\ label \in {"disconnected", "reconnecting", "connected"}
  /\ view \in [project : Projects \cup {NoProject}, agents : SUBSET Agents]
  /\ task \in [Tasks -> Works]

(* The page has one stream at most: every socket that is up is the current *)
(* one, opened for the current generation, and while a reconnection is     *)
(* scheduled there is none: nothing that was superseded still listens.  As *)
(* long as no tasks overlap, the label does not outlive the socket either. *)
(* (A close event that finds another project selected leaves it.)          *)
OneStream ==
  /\ Up \subseteq {socket}
  /\ socket # NoSocket => timer = NoTimer /\ opener[socket].generation = generation
  /\ timer # NoTimer => timer.generation = generation
  /\ label = "connected" => disturbed \/ socket # NoSocket

(* Whatever the tasks overwrite, an event that the current stream was sent *)
(* is listed, or will be when it arrives.                                  *)
NothingHandedIsLost ==
  socket \in Up => handed[socket] \subseteq view.agents \cup wire[socket]

(* As long as no two tasks overlap and none fails, the page lists agents   *)
(* of the project in its title only, and its stream is that project's;     *)
(* once no task is under way, the project selected is the one shown.       *)
(* Neither loadProject nor the form's handler looks whether the project is *)
(* still selected when its answer arrives.                                 *)
ViewIsOfOneProject ==
  ~disturbed =>
    /\ \A a \in view.agents : Home[a] = view.project
    /\ socket # NoSocket => opener[socket].project = view.project
    /\ (\A t \in Tasks : task[t] = Idle) => view.project = project

(* docs/ARCHITECTURE.md: "A disconnected dashboard does not lose state." A *)
(* page that says STREAM CONNECTED, and has received all that it was sent, *)
(* lists every agent of its project whose event was published.             *)
ConnectedShowsAgents ==
  label = "connected" /\ ~disturbed /\ wire[socket] = {} =>
    \A a \in Agents :
      Home[a] = view.project /\ stage[a] = "published" => a \in view.agents

(* A stream that is opening, or waiting to be opened again, becomes        *)
(* connected, unless the operator closes it or connect() selects another   *)
(* project, which leaves the stream as it is: it will not come back.       *)
Foreign ==
  \/ timer # NoTimer /\ timer.project # project
  \/ socket # NoSocket /\ opener[socket].project # project

StreamRecovers ==
  timer # NoTimer \/ socket # NoSocket ~> label \in {"connected", "disconnected"} \/ Foreign

=============================================================================
