---------------------------- MODULE Registration ----------------------------
(***************************************************************************)
(* POST /api/projects and POST /api/agents/register: how projects,         *)
(* machines, agents and credentials come to exist.                         *)
(*                                                                         *)
(* As in HeartbeatApi, every await is an action and a request may end at   *)
(* any of them with what it has written so far.  createAgent stores the    *)
(* machine and the agent in two statements.  The credential is drawn by    *)
(* the handler, stored as a hash, and only the 201 carries it.             *)
(*                                                                         *)
(* Rows get fresh random ids: the name of the request that writes a row    *)
(* stands for its id, and for the credential of an agent.  No route        *)
(* deletes a row or revokes an agent.                                      *)
(***************************************************************************)
EXTENDS Naturals, Sequences

CONSTANTS
  Requests,
  Founded,       (* Projects that exist to begin with.                      *)
  Names,         (* Names of machines.                                      *)
  NoProject,     (* An id that no project has.                              *)
  Malformed      (* A body that readJson or the parsers reject.             *)

VARIABLES
  projects,      (* D1: ids of projects.                                    *)
  machines,      (* D1: rows of machines.                                   *)
  agents,        (* D1: rows of agents.                                     *)
  audits,        (* D1: rows of audit_events.                               *)
  channel,       (* What each project's event channel was handed, in order. *)
  phase,         (* Where each request is, or how it was answered.          *)
  input          (* What each request asks for, once parsed.                *)

vars == <<projects, machines, agents, audits, channel, phase, input>>

-----------------------------------------------------------------------------
Projects == Founded \cup Requests

(* ProjectInput and AgentRegistrationInput. *)
ProjectInput == [kind |-> "project"]

AgentInputs == [kind : {"agent"}, project : Projects \cup {NoProject}, name : Names]

Inputs == {Malformed, ProjectInput} \cup AgentInputs

Awaiting == {"read", "insertProject", "auditProject", "projectExists", "insertMachine",
             "insertAgent", "auditAgent", "publish", "respond"}

(* 201; 401; 400 or 413; 404; 500; and no answer at all. *)
Answers == {"created", "denied", "invalid", "notFound", "failed", "aborted"}

Machine(r) == [id |-> r, project |-> input[r].project, name |-> input[r].name]

Agent(r) == [id |-> r, machine |-> r]

ProjectAudit(r) == [type |-> "project.created", project |-> r, resource |-> r]

AgentAudit(r) == [type |-> "agent.registered", project |-> input[r].project, resource |-> r]

Event_agentTwice(r) == [agent |-> Agent(r), machine |-> Agent(r)]
                                       \* mutant: the payload lacks the machine

(* The live event repeats the columns of both rows. *)
RegisteredEvent(r) == [agent |-> Agent(r), machine |-> Machine(r)]

Asks(r, kind) == input[r] # Malformed /\ input[r].kind = kind

-----------------------------------------------------------------------------
Init ==
  /\ projects = Founded
  /\ machines = {} /\ agents = {} /\ audits = {}
  /\ channel = [p \in Projects |-> <<>>]
  /\ phase = [r \in Requests |-> "unsent"]
  /\ input = [r \in Requests |-> Malformed]

Step(r, from, to) == phase[r] = from /\ phase' = [phase EXCEPT ![r] = to]

(* The operator knows the ids of the projects that exist, from GET         *)
(* /api/projects, and may have a wrong one.                                *)
Arrive(r) ==
  /\ Step(r, "unsent", "read")
  /\ \E i \in Inputs :
       /\ i \in AgentInputs => i.project \in projects \cup {NoProject}
       /\ input' = [input EXCEPT ![r] = i]
  /\ UNCHANGED <<projects, machines, agents, audits, channel>>

(* adminAuthorized says no. *)
Deny(r) ==
  /\ Step(r, "unsent", "denied")
  /\ UNCHANGED <<projects, machines, agents, audits, channel, input>>

Parse(r) ==
  /\ Step(r, "read", CASE input[r] = Malformed -> "invalid"
                       [] Asks(r, "project")   -> "insertProject"
                       [] Asks(r, "agent")     -> "projectExists")
  /\ UNCHANGED <<projects, machines, agents, audits, channel, input>>

InsertProject(r) ==
  /\ Step(r, "insertProject", "auditProject")
  /\ projects' = projects \cup {r}
  /\ UNCHANGED <<machines, agents, audits, channel, input>>

AuditProject(r) ==
  /\ Step(r, "auditProject", "respond")
  /\ audits' = audits \cup {ProjectAudit(r)}
  /\ UNCHANGED <<projects, machines, agents, channel, input>>

ProjectExists(r) ==
  /\ Step(r, "projectExists", IF input[r].project \in projects THEN "insertMachine"
                                                               ELSE "notFound")
  /\ UNCHANGED <<projects, machines, agents, audits, channel, input>>

(* UNIQUE (project_id, name). *)
NameTaken(r) ==
  \E m \in machines : m.project = input[r].project /\ m.name = input[r].name

Machine_withoutIndex(r) ==             \* mutant: the index is missing
  /\ Step(r, "insertMachine", "insertAgent")
  /\ machines' = machines \cup {Machine(r)}
  /\ UNCHANGED <<projects, agents, audits, channel, input>>

InsertMachine(r) ==
  /\ Step(r, "insertMachine", "insertAgent")
  /\ ~NameTaken(r)
  /\ machines' = machines \cup {Machine(r)}
  /\ UNCHANGED <<projects, agents, audits, channel, input>>

(* This route does not tell a conflict from any other error: 500. *)
NameConflict(r) ==
  /\ Step(r, "insertMachine", "failed")
  /\ NameTaken(r)
  /\ UNCHANGED <<projects, machines, agents, audits, channel, input>>

Agent_unawaited(r) ==                  \* mutant: the INSERT is not awaited, and is lost
  /\ Step(r, "insertAgent", "auditAgent")
  /\ UNCHANGED <<projects, machines, agents, audits, channel, input>>

InsertAgent(r) ==
  /\ Step(r, "insertAgent", "auditAgent")
  /\ agents' = agents \cup {Agent(r)}
  /\ UNCHANGED <<projects, machines, audits, channel, input>>

Audit_unawaited(r) ==                  \* mutant: the audit is not awaited, and is lost
  /\ Step(r, "auditAgent", "publish")
  /\ UNCHANGED <<projects, machines, agents, audits, channel, input>>

Audit_afterEvent(r) ==                 \* mutant: published before it is audited
  /\ Step(r, "auditAgent", "respond")
  /\ channel' = [channel EXCEPT ![input[r].project] = Append(@, RegisteredEvent(r))]
  /\ UNCHANGED <<projects, machines, agents, audits, input>>

AuditAgent(r) ==
  /\ Step(r, "auditAgent", "publish")
  /\ audits' = audits \cup {AgentAudit(r)}
  /\ UNCHANGED <<projects, machines, agents, channel, input>>

Publish(r) ==
  /\ Step(r, "publish", "respond")
  /\ channel' = [channel EXCEPT ![input[r].project] = Append(@, RegisteredEvent(r))]
  /\ UNCHANGED <<projects, machines, agents, audits, input>>

Respond(r) ==
  /\ Step(r, "respond", "created")
  /\ UNCHANGED <<projects, machines, agents, audits, channel, input>>

(* An await rejects, or its answer is lost; the outer catch answers 500.   *)
Fail(r) ==
  /\ phase[r] \in Awaiting
  /\ phase' = [phase EXCEPT ![r] = "failed"]
  /\ UNCHANGED <<projects, machines, agents, audits, channel, input>>

(* The handler is dropped: no answer. *)
Abort(r) ==
  /\ phase[r] \in Awaiting
  /\ phase' = [phase EXCEPT ![r] = "aborted"]
  /\ UNCHANGED <<projects, machines, agents, audits, channel, input>>

AllAnswered == \A r \in Requests : phase[r] \in Answers

Rest == AllAnswered /\ UNCHANGED vars

Next ==
  \/ \E r \in Requests :
       \/ Arrive(r) \/ Deny(r) \/ Parse(r)
       \/ InsertProject(r) \/ AuditProject(r)
       \/ ProjectExists(r) \/ InsertMachine(r) \/ NameConflict(r) \/ InsertAgent(r)
       \/ AuditAgent(r) \/ Publish(r) \/ Respond(r)
       \/ Fail(r) \/ Abort(r)
  \/ Rest

Spec == Init /\ [][Next]_vars

-----------------------------------------------------------------------------
(* Every variable stays in its set. *)
RegTypeOK ==
  /\ projects \subseteq Projects
  /\ machines \subseteq [id : Requests, project : Projects, name : Names]
  /\ agents \subseteq [id : Requests, machine : Requests]
  /\ audits \subseteq [type : {"project.created", "agent.registered"},
                       project : Projects, resource : Requests]
  /\ \A p \in Projects : \A i \in DOMAIN channel[p] :
       channel[p][i] \in [agent   : [id : Requests, machine : Requests],
                          machine : [id : Requests, project : Projects, name : Names]]
  /\ phase \in [Requests -> {"unsent"} \cup Awaiting \cup Answers]
  /\ input \in [Requests -> Inputs]

MachinesNamed(p, n) == {m \in machines : m.project = p /\ m.name = n}

(* However often a registration is repeated, concurrently or after a lost  *)
(* answer, a name in a project stands for one machine with at most one     *)
(* agent, and one request at most holds a credential for it.               *)
OneAgentPerName ==
  /\ \A m, n \in machines : m.project = n.project /\ m.name = n.name => m = n
  /\ \A a, b \in agents : a.machine = b.machine => a = b
  /\ \A r, s \in Requests :
       /\ phase[r] = "created" /\ phase[s] = "created"
       /\ Asks(r, "agent") /\ input[r] = input[s]
       => r = s

(* Foreign keys, across statements: what is stored refers to what is       *)
(* stored, and a machine without an agent (which keeps its name for good)  *)
(* is one whose registration is about to store it or was cut short there.  *)
NothingDangles ==
  /\ \A m \in machines : m.project \in projects
  /\ \A a \in agents : \E m \in machines : m.id = a.machine
  /\ \A m \in machines :
       \/ \E a \in agents : a.machine = m.id
       \/ phase[m.id] \in {"insertAgent", "failed", "aborted"}

(* A 201 means everything happened: rows, audit event, and for an agent    *)
(* the live event on its own project's channel.                            *)
CreatedIsComplete ==
  \A r \in Requests : phase[r] = "created" =>
    IF Asks(r, "project")
    THEN r \in projects /\ ProjectAudit(r) \in audits
    ELSE /\ Machine(r) \in machines /\ Agent(r) \in agents
         /\ AgentAudit(r) \in audits
         /\ \E i \in DOMAIN channel[input[r].project] :
              channel[input[r].project][i] = RegisteredEvent(r)

(* A dashboard adds an agent from its live event alone.  It will find the  *)
(* same agent, machine and audit event when it reloads, in that project,   *)
(* and it hears of each agent once.                                        *)
AnnouncedIsRegistered ==
  \A p \in Projects : \A i \in DOMAIN channel[p] :
    LET e == channel[p][i] IN
    /\ e.machine.project = p
    /\ e.machine \in machines /\ e.agent \in agents
    /\ [type |-> "agent.registered", project |-> p, resource |-> e.agent.id] \in audits
    /\ \A j \in DOMAIN channel[p] : channel[p][j] = e => j = i

-----------------------------------------------------------------------------
(* What NameRegistry promises, and how the rows and phases above read as   *)
(* its entries and verdicts.  Requests that ask for no agent have none.    *)

VerdictAt(at) ==
  CASE at \in {"read", "projectExists", "insertMachine"} -> "pending"
    [] at = "insertAgent"                                -> "taken"
    [] at \in {"auditAgent", "publish", "respond"}       -> "issued"
    [] at = "created"                                    -> "granted"
    [] at = "notFound"                                   -> "refused"
    [] at \in {"failed", "aborted"}                      -> "lost"

Registry == INSTANCE NameRegistry WITH
  names       <- {[project |-> m.project, name |-> m.name, by |-> m.id] : m \in machines},
  credentials <- {a.id : a \in agents},
  claim       <- [r \in Requests |-> IF Asks(r, "agent") THEN input[r] ELSE Malformed],
  verdict     <- [r \in Requests |-> IF Asks(r, "agent") THEN VerdictAt(phase[r]) ELSE "none"]

(* The routes implement the registry: a name is taken once and never given *)
(* back or moved to another project, its credential follows it, and 201 is *)
(* told to nobody else.                                                    *)
ImplementsRegistry == Registry!Spec

-----------------------------------------------------------------------------
(* docs/CONNECTOR_PROTOCOL.md: "An operator creates an agent through       *)
(* `POST /api/agents/register`[...] The response returns a credential      *)
(* exactly once."  At rest, every agent that exists had its credential     *)
(* returned.                                                               *)
CredentialReturned ==
  AllAnswered => \A a \in agents : phase[a.id] = "created"

=============================================================================
