------------------------- MODULE RegistrationProofs -------------------------
(***************************************************************************)
(* The safety properties of Registration, for any number of requests,      *)
(* founded projects and names.                                             *)
(*                                                                         *)
(* A request's phase tells what it has stored, and every row and event     *)
(* tells which request made it and how far that one has come.  Together    *)
(* with the UNIQUE index these are inductive.                              *)
(***************************************************************************)
EXTENDS Registration, TLAPS

Machines == [id : Requests, project : Projects, name : Names]
Agents   == [id : Requests, machine : Requests]
Events   == [agent : Agents, machine : Machines]

Registering == {"insertMachine", "insertAgent", "auditAgent", "publish"}

(* Answered with 201, or about to be. *)
Done(r, kind) == phase[r] \in {"respond", "created"} /\ Asks(r, kind)

(* What a request has stored by the time it is where it is.                *)
Stages ==
  \A r \in Requests :
    /\ phase[r] \in {"insertProject", "auditProject"} => Asks(r, "project")
    /\ phase[r] \in {"projectExists"} \cup Registering => Asks(r, "agent")
    /\ phase[r] \in {"respond", "created"} => Asks(r, "project") \/ Asks(r, "agent")
    /\ phase[r] = "auditProject" \/ Done(r, "project") => r \in projects
    /\ Done(r, "project") => ProjectAudit(r) \in audits
    /\ phase[r] \in Registering => input[r].project \in projects
    /\ phase[r] \in {"insertAgent", "auditAgent", "publish"} \/ Done(r, "agent") =>
         Machine(r) \in machines
    /\ phase[r] \in {"auditAgent", "publish"} \/ Done(r, "agent") => Agent(r) \in agents
    /\ phase[r] = "publish" \/ Done(r, "agent") => AgentAudit(r) \in audits
    /\ Done(r, "agent") =>
         \E i \in DOMAIN channel[input[r].project] : channel[input[r].project][i] = RegisteredEvent(r)

Stopped == {"failed", "aborted"}

(* Who made a row, and how far it has come since.                          *)
MachineOrigins ==
  \A m \in machines :
    /\ m.id \in Requests /\ m = Machine(m.id) /\ Asks(m.id, "agent") /\ m.project \in projects
    /\ phase[m.id] \in {"insertAgent", "auditAgent", "publish", "respond", "created"} \cup Stopped

AgentOrigins ==
  \A a \in agents :
    /\ a.id \in Requests /\ a = Agent(a.id) /\ Machine(a.id) \in machines
    /\ phase[a.id] \in {"auditAgent", "publish", "respond", "created"} \cup Stopped

EventOrigins ==
  \A p \in Projects : \A i \in DOMAIN channel[p] : \E r \in Requests :
    /\ channel[p][i] = RegisteredEvent(r) /\ Asks(r, "agent")
    /\ input[r].project = p
    /\ Machine(r) \in machines /\ Agent(r) \in agents /\ AgentAudit(r) \in audits
    /\ phase[r] \in {"respond", "created"} \cup Stopped

Origins == MachineOrigins /\ AgentOrigins /\ EventOrigins

(* UNIQUE (project_id, name), and that no request publishes twice.         *)
Once ==
  /\ \A m, n \in machines : m.project = n.project /\ m.name = n.name => m = n
  /\ \A p \in Projects : \A i, j \in DOMAIN channel[p] :
       channel[p][i].agent.id = channel[p][j].agent.id => i = j

Channels == channel \in [Projects -> Seq(Events)]

RegInv == RegTypeOK /\ Channels /\ Stages /\ Origins /\ Once

LEMMA RegInit == Init => RegInv
<1> SUFFICES ASSUME Init PROVE RegInv
  OBVIOUS
<1>1. RegTypeOK
  BY DEF Init, RegTypeOK, Projects, Inputs
<1>2. Channels
  BY DEF Init, Channels
<1>3. Stages /\ Origins /\ Once
  BY DEF Init, Stages, Origins, MachineOrigins, AgentOrigins, EventOrigins, Once, Done, Registering
<1> QED BY <1>1, <1>2, <1>3 DEF RegInv

(* What is asked, of whom it is asked. *)
LEMMA InputTypes ==
  ASSUME RegTypeOK, NEW r \in Requests
  PROVE  /\ phase[r] \in {"unsent"} \cup Awaiting \cup Answers
         /\ Asks(r, "agent") => input[r] \in AgentInputs
         /\ Asks(r, "project") => input[r] = ProjectInput
         /\ ~(Asks(r, "agent") /\ Asks(r, "project"))
         /\ input[r] # Malformed => Asks(r, "agent") \/ Asks(r, "project")
<1>1. input[r] \in Inputs
  BY DEF RegTypeOK
<1>2. ProjectInput.kind = "project" /\ \A i \in AgentInputs : i.kind = "agent"
  BY DEF ProjectInput, AgentInputs
<1>3. phase[r] \in {"unsent"} \cup Awaiting \cup Answers
  BY DEF RegTypeOK
<1> QED BY <1>1, <1>2, <1>3 DEF Inputs, Asks

(* A step of one request leaves the phases of the others alone.            *)
LEMMA StepMoves ==
  ASSUME RegTypeOK, NEW r \in Requests, NEW from, NEW to \in {"unsent"} \cup Awaiting \cup Answers,
         Step(r, from, to)
  PROVE  /\ phase[r] = from /\ phase'[r] = to
         /\ \A s \in Requests : s # r => phase'[s] = phase[s]
         /\ phase' \in [Requests -> {"unsent"} \cup Awaiting \cup Answers]
BY DEF RegTypeOK, Step

(* An answer that stops a request, and whatever stores nothing.            *)
(* What is stored stays, and whoever stored it stays past that point.      *)
LEMMA OriginsKept ==
  ASSUME RegInv, NEW r \in Requests,
         \A s \in Requests : s # r => phase'[s] = phase[s] /\ input'[s] = input[s],
         phase[r] # "unsent" => input'[r] = input[r],
         projects \subseteq projects', machines \subseteq machines', agents \subseteq agents',
         audits \subseteq audits',
         phase[r] = "insertAgent" => phase'[r] \in {"auditAgent"} \cup Stopped,
         phase[r] = "auditAgent" => phase'[r] \in {"publish"} \cup Stopped,
         phase[r] = "publish" => phase'[r] \in {"respond"} \cup Stopped,
         phase[r] = "respond" => phase'[r] \in {"created"} \cup Stopped,
         phase[r] \notin Answers
  PROVE  /\ machines' = machines => MachineOrigins'
         /\ agents' = agents => AgentOrigins'
         /\ channel' = channel => EventOrigins'
<1> USE DEF RegInv, Origins
<1>1. \A s \in Requests :
        phase[s] \in {"insertAgent", "auditAgent", "publish", "respond", "created"} \cup Stopped =>
          input'[s] = input[s]
  BY DEF Stopped
<1>2. \A s \in Requests :
        /\ phase[s] \in {"insertAgent", "auditAgent", "publish", "respond", "created"} \cup Stopped =>
             phase'[s] \in {"insertAgent", "auditAgent", "publish", "respond", "created"} \cup Stopped
        /\ phase[s] \in {"auditAgent", "publish", "respond", "created"} \cup Stopped =>
             phase'[s] \in {"auditAgent", "publish", "respond", "created"} \cup Stopped
        /\ phase[s] \in {"respond", "created"} \cup Stopped =>
             phase'[s] \in {"respond", "created"} \cup Stopped
  BY DEF Stopped, Answers
<1>3. machines' = machines => MachineOrigins'
  BY <1>1, <1>2 DEF MachineOrigins, Machine, Asks
<1>4. agents' = agents => AgentOrigins'
  BY <1>1, <1>2 DEF AgentOrigins, Machine, Agent
<1>5. ASSUME channel' = channel PROVE EventOrigins'
  <2> SUFFICES ASSUME NEW p \in Projects, NEW i \in DOMAIN channel[p]
               PROVE  \E s \in Requests :
                        /\ channel[p][i] = RegisteredEvent(s)' /\ Asks(s, "agent")'
                        /\ input'[s].project = p
                        /\ Machine(s)' \in machines' /\ Agent(s)' \in agents' /\ AgentAudit(s)' \in audits'
                        /\ phase'[s] \in {"respond", "created"} \cup Stopped
    BY <1>5 DEF EventOrigins
  <2>1. PICK s \in Requests :
          /\ channel[p][i] = RegisteredEvent(s) /\ Asks(s, "agent")
          /\ input[s].project = p
          /\ Machine(s) \in machines /\ Agent(s) \in agents /\ AgentAudit(s) \in audits
          /\ phase[s] \in {"respond", "created"} \cup Stopped
    BY DEF EventOrigins
  <2>2. input'[s] = input[s] /\ phase'[s] \in {"respond", "created"} \cup Stopped
    BY <1>1, <1>2, <2>1
  <2>3. Machine(s)' = Machine(s) /\ Agent(s)' = Agent(s) /\ AgentAudit(s)' = AgentAudit(s)
        /\ RegisteredEvent(s)' = RegisteredEvent(s) /\ (Asks(s, "agent")' <=> Asks(s, "agent"))
    BY <2>2 DEF Machine, Agent, AgentAudit, RegisteredEvent, Asks
  <2> QED BY <2>1, <2>2, <2>3
<1> QED BY <1>3, <1>4, <1>5

(* What the other requests have stored is still there.                     *)
LEMMA StagesKept ==
  ASSUME RegInv, NEW r \in Requests,
         \A s \in Requests : s # r => phase'[s] = phase[s] /\ input'[s] = input[s],
         projects \subseteq projects', machines \subseteq machines', agents \subseteq agents',
         audits \subseteq audits',
         \A p \in Projects : \A i \in DOMAIN channel[p] :
           i \in DOMAIN channel'[p] /\ channel'[p][i] = channel[p][i],
         /\ phase'[r] \in {"insertProject", "auditProject"} => Asks(r, "project")'
         /\ phase'[r] \in {"projectExists"} \cup Registering => Asks(r, "agent")'
         /\ phase'[r] \in {"respond", "created"} => Asks(r, "project")' \/ Asks(r, "agent")'
         /\ phase'[r] = "auditProject" \/ Done(r, "project")' => r \in projects'
         /\ Done(r, "project")' => ProjectAudit(r) \in audits'
         /\ phase'[r] \in Registering => input'[r].project \in projects'
         /\ phase'[r] \in {"insertAgent", "auditAgent", "publish"} \/ Done(r, "agent")' =>
              Machine(r)' \in machines'
         /\ phase'[r] \in {"auditAgent", "publish"} \/ Done(r, "agent")' => Agent(r) \in agents'
         /\ phase'[r] = "publish" \/ Done(r, "agent")' => AgentAudit(r)' \in audits'
         /\ Done(r, "agent")' =>
              \E i \in DOMAIN channel'[input'[r].project] :
                 channel'[input'[r].project][i] = RegisteredEvent(r)'
  PROVE  Stages'
<1> SUFFICES ASSUME NEW s \in Requests, s # r
             PROVE
    /\ phase'[s] \in {"insertProject", "auditProject"} => Asks(s, "project")'
    /\ phase'[s] \in {"projectExists"} \cup Registering => Asks(s, "agent")'
    /\ phase'[s] \in {"respond", "created"} => Asks(s, "project")' \/ Asks(s, "agent")'
    /\ phase'[s] = "auditProject" \/ Done(s, "project")' => s \in projects'
    /\ Done(s, "project")' => ProjectAudit(s) \in audits'
    /\ phase'[s] \in Registering => input'[s].project \in projects'
    /\ phase'[s] \in {"insertAgent", "auditAgent", "publish"} \/ Done(s, "agent")' =>
         Machine(s)' \in machines'
    /\ phase'[s] \in {"auditAgent", "publish"} \/ Done(s, "agent")' => Agent(s) \in agents'
    /\ phase'[s] = "publish" \/ Done(s, "agent")' => AgentAudit(s)' \in audits'
    /\ Done(s, "agent")' =>
         \E i \in DOMAIN channel'[input'[s].project] :
           channel'[input'[s].project][i] = RegisteredEvent(s)'
  BY DEF Stages, ProjectAudit, Agent
<1>1. /\ phase'[s] = phase[s] /\ input'[s] = input[s]
      /\ Asks(s, "agent")' <=> Asks(s, "agent")
      /\ Asks(s, "project")' <=> Asks(s, "project")
      /\ Machine(s)' = Machine(s) /\ AgentAudit(s)' = AgentAudit(s)
      /\ RegisteredEvent(s)' = RegisteredEvent(s)
  BY DEF Asks, Machine, Agent, AgentAudit, RegisteredEvent
<1>2. (Done(s, "agent")' <=> Done(s, "agent")) /\ (Done(s, "project")' <=> Done(s, "project"))
  BY <1>1 DEF Done
<1>3. ASSUME Done(s, "agent")
      PROVE  \E i \in DOMAIN channel'[input'[s].project] :
               channel'[input'[s].project][i] = RegisteredEvent(s)'
  <2>1. input[s].project \in Projects
    <3>1. Machine(s) \in machines
      BY <1>3 DEF RegInv, Stages
    <3> QED BY <3>1 DEF RegInv, RegTypeOK, Machine
  <2>2. PICK i \in DOMAIN channel[input[s].project] : channel[input[s].project][i] = RegisteredEvent(s)
    BY <1>3 DEF RegInv, Stages
  <2> QED BY <1>1, <2>1, <2>2
<1> QED BY <1>1, <1>2, <1>3 DEF RegInv, Stages

(* An answer that stops a request stores nothing.                          *)
LEMMA StoppedKeeps ==
  ASSUME RegInv, NEW r \in Requests,
         phase[r] \notin Answers,
         phase' \in [Requests -> {"unsent"} \cup Awaiting \cup Answers],
         \A s \in Requests : s # r => phase'[s] = phase[s],
         phase'[r] \in Stopped \cup {"denied", "invalid", "notFound"},
         phase[r] \in {"unsent", "read", "projectExists"} \/ phase'[r] \in Stopped,
         UNCHANGED <<projects, machines, agents, audits, channel, input>>
  PROVE  RegInv'
<1>1. RegTypeOK' /\ Channels' /\ Once'
  BY DEF RegInv, RegTypeOK, Channels, Once
<1>2. Stages'
  BY StagesKept DEF Stopped, Done, Registering
<1>3. Origins'
  BY OriginsKept DEF Stopped, Origins
<1> QED BY <1>1, <1>2, <1>3 DEF RegInv

(* Steps of which only the phase, and perhaps one table, is news.          *)
LEMMA ReadingKeeps ==
  ASSUME RegInv, NEW r \in Requests,
         Arrive(r) \/ Deny(r) \/ Parse(r) \/ ProjectExists(r) \/ NameConflict(r) \/ Fail(r) \/ Abort(r)
  PROVE  RegInv'
<1>0. RegTypeOK
  BY DEF RegInv
<1>1. CASE Arrive(r)
  <2>1. /\ phase[r] = "unsent" /\ phase'[r] = "read"
        /\ \A s \in Requests : s # r => phase'[s] = phase[s] /\ input'[s] = input[s]
        /\ phase' \in [Requests -> {"unsent"} \cup Awaiting \cup Answers]
        /\ input' \in [Requests -> Inputs]
    BY <1>0, <1>1, StepMoves DEF Arrive, RegTypeOK, Awaiting
  <2>2. RegTypeOK' /\ Channels' /\ Once'
    BY <1>1, <2>1 DEF Arrive, RegInv, RegTypeOK, Channels, Once
  <2>3. Stages'
    BY <1>1, <2>1, StagesKept DEF Arrive, Done, Registering
  <2>4. Origins'
    BY <1>1, <2>1, OriginsKept DEF Arrive, Origins, Answers
  <2> QED BY <2>2, <2>3, <2>4 DEF RegInv
<1>2. CASE Deny(r) \/ NameConflict(r)
  <2>1. /\ phase[r] \in {"unsent", "insertMachine"}
        /\ phase[r] = "unsent" => phase'[r] = "denied"
        /\ phase[r] = "insertMachine" => phase'[r] = "failed"
        /\ \A s \in Requests : s # r => phase'[s] = phase[s]
        /\ phase' \in [Requests -> {"unsent"} \cup Awaiting \cup Answers]
    BY <1>0, <1>2, StepMoves DEF Deny, NameConflict, Answers
  <2> QED BY <1>2, <2>1, StoppedKeeps DEF Deny, NameConflict, Stopped, Answers
<1>3. CASE Fail(r) \/ Abort(r)
  <2>1. /\ phase[r] \in Awaiting /\ phase'[r] \in Stopped
        /\ \A s \in Requests : s # r => phase'[s] = phase[s]
        /\ phase' \in [Requests -> {"unsent"} \cup Awaiting \cup Answers]
    BY <1>0, <1>3 DEF Fail, Abort, RegTypeOK, Answers, Stopped
  <2> QED BY <1>3, <2>1, StoppedKeeps DEF Fail, Abort, Awaiting, Answers
<1>4. ASSUME Parse(r) PROVE RegInv'
  <2>1. /\ phase[r] = "read" /\ UNCHANGED <<projects, machines, agents, audits, channel, input>>
        /\ \/ phase'[r] = "invalid"
           \/ phase'[r] = "insertProject" /\ Asks(r, "project")
           \/ phase'[r] = "projectExists" /\ Asks(r, "agent")
        /\ \A s \in Requests : s # r => phase'[s] = phase[s]
        /\ phase' \in [Requests -> {"unsent"} \cup Awaiting \cup Answers]
    <3>1. CASE input[r] = Malformed
      <4>1. Step(r, "read", "invalid") /\ UNCHANGED <<projects, machines, agents, audits, channel, input>>
        BY <1>4, <3>1 DEF Parse, Asks
      <4> QED BY <1>0, <4>1, StepMoves DEF Answers
    <3>2. CASE Asks(r, "project")
      <4>1. Step(r, "read", "insertProject") /\ UNCHANGED <<projects, machines, agents, audits, channel, input>>
        BY <1>0, <1>4, <3>2, InputTypes DEF Parse, Asks
      <4> QED BY <1>0, <3>2, <4>1, StepMoves DEF Awaiting
    <3>3. CASE Asks(r, "agent")
      <4>1. Step(r, "read", "projectExists") /\ UNCHANGED <<projects, machines, agents, audits, channel, input>>
        BY <1>0, <1>4, <3>3, InputTypes DEF Parse, Asks
      <4> QED BY <1>0, <3>3, <4>1, StepMoves DEF Awaiting
    <3> QED BY <1>0, <3>1, <3>2, <3>3, InputTypes
  <2>2. RegTypeOK' /\ Channels' /\ Once'
    BY <2>1 DEF RegInv, RegTypeOK, Channels, Once
  <2>3. Asks(r, "project")' = Asks(r, "project") /\ Asks(r, "agent")' = Asks(r, "agent")
    BY <2>1 DEF Asks
  <2>4. Stages'
    BY <2>1, <2>3, StagesKept DEF Done, Registering
  <2>5. Origins'
    BY <2>1, OriginsKept DEF Origins, Answers
  <2> QED BY <2>2, <2>4, <2>5 DEF RegInv
<1>5. ASSUME ProjectExists(r) PROVE RegInv'
  <2>1. /\ phase[r] = "projectExists" /\ UNCHANGED <<projects, machines, agents, audits, channel, input>>
        /\ \/ phase'[r] = "insertMachine" /\ input[r].project \in projects
           \/ phase'[r] = "notFound"
        /\ \A s \in Requests : s # r => phase'[s] = phase[s]
        /\ phase' \in [Requests -> {"unsent"} \cup Awaiting \cup Answers]
    <3>1. CASE input[r].project \in projects
      <4>1. Step(r, "projectExists", "insertMachine") /\ UNCHANGED <<projects, machines, agents, audits, channel, input>>
        BY <1>5, <3>1 DEF ProjectExists
      <4> QED BY <1>0, <3>1, <4>1, StepMoves DEF Awaiting
    <3>2. CASE input[r].project \notin projects
      <4>1. Step(r, "projectExists", "notFound") /\ UNCHANGED <<projects, machines, agents, audits, channel, input>>
        BY <1>5, <3>2 DEF ProjectExists
      <4> QED BY <1>0, <4>1, StepMoves DEF Answers
    <3> QED BY <3>1, <3>2
  <2>2. RegTypeOK' /\ Channels' /\ Once'
    BY <2>1 DEF RegInv, RegTypeOK, Channels, Once
  <2>3. Asks(r, "agent") /\ (Asks(r, "agent")' <=> Asks(r, "agent"))
    BY <2>1 DEF Asks, RegInv, Stages
  <2>4. Stages'
    BY <2>1, <2>3, StagesKept DEF Done, Registering
  <2>5. Origins'
    BY <2>1, OriginsKept DEF Origins, Answers
  <2> QED BY <2>2, <2>4, <2>5 DEF RegInv
<1> QED BY <1>1, <1>2, <1>3, <1>4, <1>5

(* Projects are created in two writes. *)
LEMMA ProjectKeeps ==
  ASSUME RegInv, NEW r \in Requests, InsertProject(r) \/ AuditProject(r)
  PROVE  RegInv'
<1>0. RegTypeOK
  BY DEF RegInv
<1>1. /\ phase[r] \in {"insertProject", "auditProject"}
      /\ phase[r] = "insertProject" => phase'[r] = "auditProject"
      /\ phase[r] = "auditProject" => phase'[r] = "respond"
      /\ \A s \in Requests : s # r => phase'[s] = phase[s]
      /\ phase' \in [Requests -> {"unsent"} \cup Awaiting \cup Answers]
      /\ UNCHANGED <<machines, agents, channel, input>>
  BY <1>0, StepMoves DEF InsertProject, AuditProject, Awaiting
<1>2. /\ phase[r] = "insertProject" => projects' = projects \cup {r} /\ audits' = audits
      /\ phase[r] = "auditProject" => projects' = projects /\ audits' = audits \cup {ProjectAudit(r)}
  BY <1>0, StepMoves DEF InsertProject, AuditProject, Awaiting, Step
<1>3. /\ Asks(r, "project") /\ ~Asks(r, "agent")
      /\ (Asks(r, "agent")' <=> Asks(r, "agent")) /\ (Asks(r, "project")' <=> Asks(r, "project"))
  BY <1>0, <1>1, InputTypes DEF Asks, RegInv, Stages
<1>4. ProjectAudit(r) \in [type : {"project.created", "agent.registered"},
                          project : Projects, resource : Requests]
  BY DEF ProjectAudit, Projects
<1>5. RegTypeOK' /\ Channels' /\ Once'
  BY <1>1, <1>2, <1>4 DEF RegInv, RegTypeOK, Channels, Once, Projects
<1>6. phase[r] = "auditProject" => r \in projects
  BY DEF RegInv, Stages
<1>7. Stages'
  BY <1>1, <1>2, <1>3, <1>6, StagesKept DEF Done, Registering
<1>8. Origins'
  <2>1. projects \subseteq projects' /\ audits \subseteq audits'
    BY <1>1, <1>2
  <2> QED BY <1>1, <2>1, OriginsKept DEF Origins, Answers
<1> QED BY <1>5, <1>7, <1>8 DEF RegInv

(* What a registering request writes. *)
LEMMA RowTypes ==
  ASSUME RegInv, NEW r \in Requests, phase[r] \in Registering
  PROVE  /\ Asks(r, "agent") /\ ~Asks(r, "project") /\ input[r].project \in projects
         /\ input[r].project \in Projects
         /\ Machine(r) \in Machines /\ Agent(r) \in Agents /\ RegisteredEvent(r) \in Events
         /\ AgentAudit(r) \in [type : {"project.created", "agent.registered"},
                               project : Projects, resource : Requests]
<1>1. RegTypeOK
  BY DEF RegInv
<1>2. Asks(r, "agent") /\ ~Asks(r, "project") /\ input[r].project \in projects
  BY <1>1, InputTypes DEF RegInv, Stages, Registering
<1>3. input[r].project \in Projects /\ input[r].name \in Names
  BY <1>1, <1>2, InputTypes DEF RegTypeOK, AgentInputs
<1>4. Machine(r) \in Machines /\ Agent(r) \in Agents
  BY <1>3 DEF Machine, Agent, Machines, Agents
<1> QED BY <1>2, <1>3, <1>4 DEF RegisteredEvent, Events, AgentAudit

LEMMA MachineKeeps ==
  ASSUME RegInv, NEW r \in Requests, InsertMachine(r)
  PROVE  RegInv'
<1>0. RegTypeOK
  BY DEF RegInv
<1>1. /\ phase[r] = "insertMachine" /\ phase'[r] = "insertAgent"
      /\ \A s \in Requests : s # r => phase'[s] = phase[s]
      /\ phase' \in [Requests -> {"unsent"} \cup Awaiting \cup Answers]
      /\ machines' = machines \cup {Machine(r)}
      /\ UNCHANGED <<projects, agents, audits, channel, input>>
  BY <1>0, StepMoves DEF InsertMachine, Awaiting
<1>2. Asks(r, "agent") /\ ~Asks(r, "project") /\ input[r].project \in projects /\ Machine(r) \in Machines
  BY <1>1, RowTypes DEF Registering
<1>3. /\ (Asks(r, "agent")' <=> Asks(r, "agent")) /\ (Asks(r, "project")' <=> Asks(r, "project"))
      /\ Machine(r)' = Machine(r)
  BY <1>1 DEF Asks, Machine
<1>4. RegTypeOK' /\ Channels'
  BY <1>1, <1>2 DEF RegInv, RegTypeOK, Channels, Machines
<1>5. Once'
  <2>1. \A m \in machines : ~(m.project = Machine(r).project /\ m.name = Machine(r).name)
    BY DEF InsertMachine, NameTaken, Machine
  <2>2. \A m, n \in machines' : m.project = n.project /\ m.name = n.name => m = n
    BY <1>1, <2>1 DEF RegInv, Once
  <2> QED BY <1>1, <2>2 DEF RegInv, Once
<1>6. Stages'
  BY <1>1, <1>2, <1>3, StagesKept DEF Done, Registering
<1>7. MachineOrigins'
  <2>1. ASSUME NEW m \in machines
        PROVE  /\ m.id \in Requests /\ m.id # r /\ m = Machine(m.id) /\ Asks(m.id, "agent") /\ m.project \in projects
               /\ phase[m.id] \in {"insertAgent", "auditAgent", "publish", "respond", "created"} \cup Stopped
    BY <1>1 DEF RegInv, Origins, MachineOrigins, Stopped
  <2>2. Machine(r).id = r /\ Machine(r).project = input[r].project
    BY DEF Machine
  <2> QED BY <1>1, <1>2, <1>3, <2>1, <2>2 DEF MachineOrigins, Machine, Asks
<1>8. AgentOrigins' /\ EventOrigins'
  BY <1>1, OriginsKept DEF Answers
<1> QED BY <1>4, <1>5, <1>6, <1>7, <1>8 DEF RegInv, Origins

LEMMA AgentKeeps ==
  ASSUME RegInv, NEW r \in Requests, InsertAgent(r)
  PROVE  RegInv'
<1>0. RegTypeOK
  BY DEF RegInv
<1>1. /\ phase[r] = "insertAgent" /\ phase'[r] = "auditAgent"
      /\ \A s \in Requests : s # r => phase'[s] = phase[s]
      /\ phase' \in [Requests -> {"unsent"} \cup Awaiting \cup Answers]
      /\ agents' = agents \cup {Agent(r)}
      /\ UNCHANGED <<projects, machines, audits, channel, input>>
  BY <1>0, StepMoves DEF InsertAgent, Awaiting
<1>2. Asks(r, "agent") /\ ~Asks(r, "project") /\ input[r].project \in projects /\ Agent(r) \in Agents
  BY <1>1, RowTypes DEF Registering
<1>3. /\ (Asks(r, "agent")' <=> Asks(r, "agent")) /\ (Asks(r, "project")' <=> Asks(r, "project"))
      /\ Machine(r)' = Machine(r) /\ Machine(r) \in machines
  BY <1>1 DEF Asks, Machine, RegInv, Stages
<1>4. RegTypeOK' /\ Channels' /\ Once'
  BY <1>1, <1>2 DEF RegInv, RegTypeOK, Channels, Once, Agents
<1>5. Stages'
  BY <1>1, <1>2, <1>3, StagesKept DEF Done, Registering
<1>6. AgentOrigins'
  <2>1. ASSUME NEW a \in agents
        PROVE  /\ a.id \in Requests /\ a.id # r /\ a = Agent(a.id) /\ Machine(a.id) \in machines
               /\ phase[a.id] \in {"auditAgent", "publish", "respond", "created"} \cup Stopped
    BY <1>1 DEF RegInv, Origins, AgentOrigins, Stopped
  <2>2. Agent(r).id = r
    BY DEF Agent
  <2> QED BY <1>1, <1>2, <1>3, <2>1, <2>2 DEF AgentOrigins, Machine, Agent
<1>7. MachineOrigins' /\ EventOrigins'
  BY <1>1, OriginsKept DEF Answers
<1> QED BY <1>4, <1>5, <1>6, <1>7 DEF RegInv, Origins

LEMMA AuditKeeps ==
  ASSUME RegInv, NEW r \in Requests, AuditAgent(r)
  PROVE  RegInv'
<1>0. RegTypeOK
  BY DEF RegInv
<1>1. /\ phase[r] = "auditAgent" /\ phase'[r] = "publish"
      /\ \A s \in Requests : s # r => phase'[s] = phase[s]
      /\ phase' \in [Requests -> {"unsent"} \cup Awaiting \cup Answers]
      /\ audits' = audits \cup {AgentAudit(r)}
      /\ UNCHANGED <<projects, machines, agents, channel, input>>
  BY <1>0, StepMoves DEF AuditAgent, Awaiting
<1>2. /\ Asks(r, "agent") /\ ~Asks(r, "project") /\ input[r].project \in projects
      /\ AgentAudit(r) \in [type : {"project.created", "agent.registered"},
                            project : Projects, resource : Requests]
  BY <1>1, RowTypes DEF Registering
<1>3. /\ (Asks(r, "agent")' <=> Asks(r, "agent")) /\ (Asks(r, "project")' <=> Asks(r, "project"))
      /\ Machine(r)' = Machine(r) /\ Machine(r) \in machines /\ Agent(r) \in agents
      /\ AgentAudit(r)' = AgentAudit(r)
  BY <1>1 DEF Asks, Machine, AgentAudit, RegInv, Stages
<1>4. RegTypeOK' /\ Channels' /\ Once'
  BY <1>1, <1>2 DEF RegInv, RegTypeOK, Channels, Once
<1>5. Stages'
  BY <1>1, <1>2, <1>3, StagesKept DEF Done, Registering
<1>6. Origins'
  BY <1>1, OriginsKept DEF Answers, Origins
<1> QED BY <1>4, <1>5, <1>6 DEF RegInv

LEMMA PublishKeeps ==
  ASSUME RegInv, NEW r \in Requests, Publish(r)
  PROVE  RegInv'
<1> DEFINE p == input[r].project
           n == Len(channel[p]) + 1
<1>0. RegTypeOK /\ channel \in [Projects -> Seq(Events)]
  BY DEF RegInv, Channels
<1>1. /\ phase[r] = "publish" /\ phase'[r] = "respond"
      /\ \A s \in Requests : s # r => phase'[s] = phase[s]
      /\ phase' \in [Requests -> {"unsent"} \cup Awaiting \cup Answers]
      /\ channel' = [channel EXCEPT ![p] = Append(channel[p], RegisteredEvent(r))]
      /\ UNCHANGED <<projects, machines, agents, audits, input>>
  BY <1>0, StepMoves DEF Publish, Awaiting
<1>2. /\ Asks(r, "agent") /\ ~Asks(r, "project") /\ p \in Projects
      /\ RegisteredEvent(r) \in Events
  BY <1>1, RowTypes DEF Registering
<1>3. /\ (Asks(r, "agent")' <=> Asks(r, "agent")) /\ (Asks(r, "project")' <=> Asks(r, "project"))
      /\ Machine(r)' = Machine(r) /\ Machine(r) \in machines /\ Agent(r) \in agents
      /\ AgentAudit(r)' = AgentAudit(r) /\ AgentAudit(r) \in audits
      /\ RegisteredEvent(r)' = RegisteredEvent(r) /\ p' = p
  BY <1>1 DEF Asks, Machine, Agent, AgentAudit, RegisteredEvent, RegInv, Stages
<1>4. /\ \A q \in Projects : q # p => channel'[q] = channel[q]
      /\ DOMAIN channel[p] = 1 .. (n - 1) /\ DOMAIN channel'[p] = 1 .. n /\ n - 1 \in Nat /\ n \in Nat
      /\ \A i \in 1 .. (n - 1) : channel'[p][i] = channel[p][i]
      /\ channel'[p][n] = RegisteredEvent(r)
      /\ channel' \in [Projects -> Seq(Events)]
  <2>1. channel[p] \in Seq(Events) /\ channel'[p] = Append(channel[p], RegisteredEvent(r))
    BY <1>0, <1>1, <1>2
  <2>2. /\ DOMAIN channel[p] = 1 .. (n - 1) /\ DOMAIN channel'[p] = 1 .. n /\ n - 1 \in Nat /\ n \in Nat
        /\ \A i \in 1 .. (n - 1) : channel'[p][i] = channel[p][i]
        /\ channel'[p][n] = RegisteredEvent(r)
    BY <1>2, <2>1
  <2> QED BY <1>0, <1>1, <1>2, <2>1, <2>2
<1> HIDE DEF n
<1>5. \A q \in Projects : \A i \in DOMAIN channel[q] :
        i \in DOMAIN channel'[q] /\ channel'[q][i] = channel[q][i]
  BY <1>4
<1>6. ASSUME NEW q \in Projects, NEW i \in DOMAIN channel[q]
      PROVE  channel[q][i].agent.id # r
  <2>1. PICK s \in Requests : channel[q][i] = RegisteredEvent(s)
                             /\ phase[s] \in {"respond", "created"} \cup Stopped
    BY DEF RegInv, Origins, EventOrigins
  <2>2. s # r /\ channel[q][i].agent.id = s
    BY <1>1, <2>1 DEF RegisteredEvent, Agent, Stopped
  <2> QED BY <2>2
<1>7. RegisteredEvent(r).agent.id = r
  BY DEF RegisteredEvent, Agent
<1>8. RegTypeOK' /\ Channels'
  <2>1. Channels'
    BY <1>4 DEF Channels
  <2>2. \A q \in Projects : \A i \in DOMAIN channel'[q] : channel'[q][i] \in Events
    BY <1>4
  <2> QED BY <1>1, <2>1, <2>2 DEF RegInv, RegTypeOK, Events, Agents, Machines
<1>9. Once'
  <2>1. ASSUME NEW q \in Projects, NEW i \in DOMAIN channel'[q], NEW j \in DOMAIN channel'[q],
               channel'[q][i].agent.id = channel'[q][j].agent.id
        PROVE  i = j
    <3>1. CASE q # p
      BY <1>4, <2>1, <3>1 DEF RegInv, Once
    <3>2. CASE q = p /\ i # n /\ j # n
      BY <1>2, <1>4, <2>1, <3>2 DEF RegInv, Once
    <3>3. CASE q = p /\ (i = n \/ j = n)
      BY <1>2, <1>4, <1>6, <1>7, <2>1, <3>3
    <3> QED BY <3>1, <3>2, <3>3
  <2> QED BY <1>1, <2>1 DEF RegInv, Once
<1>10. Stages'
  <2>1. Done(r, "agent")' =>
          \E i \in DOMAIN channel'[p] : channel'[p][i] = RegisteredEvent(r)'
    BY <1>3, <1>4
  <2> QED BY <1>1, <1>2, <1>3, <1>5, <2>1, StagesKept DEF Done, Registering
<1>11. MachineOrigins' /\ AgentOrigins'
  BY <1>1, OriginsKept DEF Answers
<1>12. EventOrigins'
  <2>1. ASSUME NEW q \in Projects, NEW i \in DOMAIN channel'[q]
        PROVE  \E s \in Requests :
                 /\ channel'[q][i] = RegisteredEvent(s)' /\ Asks(s, "agent")'
                 /\ input'[s].project = q
                 /\ Machine(s)' \in machines' /\ Agent(s)' \in agents' /\ AgentAudit(s)' \in audits'
                 /\ phase'[s] \in {"respond", "created"} \cup Stopped
    <3>1. CASE q = p /\ i = n
      BY <1>1, <1>2, <1>3, <1>4, <3>1 DEF Agent
    <3>2. CASE ~(q = p /\ i = n)
      <4>1. i \in DOMAIN channel[q] /\ channel'[q][i] = channel[q][i]
        BY <1>4, <3>2
      <4>2. PICK s \in Requests :
              /\ channel[q][i] = RegisteredEvent(s) /\ Asks(s, "agent")
              /\ input[s].project = q
              /\ Machine(s) \in machines /\ Agent(s) \in agents /\ AgentAudit(s) \in audits
              /\ phase[s] \in {"respond", "created"} \cup Stopped
        BY <4>1 DEF RegInv, Origins, EventOrigins
      <4>3. phase'[s] \in {"respond", "created"} \cup Stopped
        BY <1>1, <4>2
      <4>4. Machine(s)' = Machine(s) /\ Agent(s)' = Agent(s) /\ AgentAudit(s)' = AgentAudit(s)
            /\ RegisteredEvent(s)' = RegisteredEvent(s) /\ (Asks(s, "agent")' <=> Asks(s, "agent"))
        BY <1>1 DEF Machine, Agent, AgentAudit, RegisteredEvent, Asks
      <4> QED BY <1>1, <4>1, <4>2, <4>3, <4>4
    <3> QED BY <3>1, <3>2
  <2> QED BY <2>1 DEF EventOrigins
<1> QED BY <1>8, <1>9, <1>10, <1>11, <1>12 DEF RegInv, Origins

LEMMA RespondKeeps ==
  ASSUME RegInv, NEW r \in Requests, Respond(r)
  PROVE  RegInv'
<1>0. RegTypeOK
  BY DEF RegInv
<1>1. /\ phase[r] = "respond" /\ phase'[r] = "created"
      /\ \A s \in Requests : s # r => phase'[s] = phase[s]
      /\ phase' \in [Requests -> {"unsent"} \cup Awaiting \cup Answers]
      /\ UNCHANGED <<projects, machines, agents, audits, channel, input>>
  BY <1>0, StepMoves DEF Respond, Answers
<1>2. RegTypeOK' /\ Channels' /\ Once'
  BY <1>1 DEF RegInv, RegTypeOK, Channels, Once
<1>3. /\ (Asks(r, "agent")' <=> Asks(r, "agent")) /\ (Asks(r, "project")' <=> Asks(r, "project"))
      /\ Machine(r)' = Machine(r) /\ AgentAudit(r)' = AgentAudit(r)
      /\ RegisteredEvent(r)' = RegisteredEvent(r)
      /\ (Done(r, "agent")' <=> Done(r, "agent")) /\ (Done(r, "project")' <=> Done(r, "project"))
  BY <1>1 DEF Asks, Machine, AgentAudit, RegisteredEvent, Done, Agent
<1>4. /\ Asks(r, "project") \/ Asks(r, "agent")
      /\ Done(r, "project") => r \in projects /\ ProjectAudit(r) \in audits
      /\ Done(r, "agent") => /\ Machine(r) \in machines /\ Agent(r) \in agents /\ AgentAudit(r) \in audits
                             /\ \E i \in DOMAIN channel[input[r].project] :
                                  channel[input[r].project][i] = RegisteredEvent(r)
  BY <1>1 DEF RegInv, Stages
<1>5. Stages'
  BY <1>1, <1>3, <1>4, StagesKept DEF Registering
<1>6. Origins'
  BY <1>1, OriginsKept DEF Answers, Origins
<1> QED BY <1>2, <1>5, <1>6 DEF RegInv

-----------------------------------------------------------------------------
(* In every state the tables and channels tell the phases of the requests, *)
(* and the other way round.                                                *)
THEOREM RegInvHolds == Spec => []RegInv
<1>1. RegInv /\ [Next]_vars => RegInv'
  <2>1. ASSUME RegInv, UNCHANGED vars PROVE RegInv'
    <3>1. UNCHANGED <<projects, machines, agents, audits, channel, phase, input>>
      BY <2>1 DEF vars
    <3>2. RegTypeOK' /\ Channels' /\ Once'
      BY <2>1, <3>1 DEF RegInv, RegTypeOK, Channels, Once
    <3>3. Stages'
      BY <2>1, <3>1 DEF RegInv, Stages, Done, Asks, Machine, Agent, ProjectAudit, AgentAudit,
                        RegisteredEvent
    <3>4. MachineOrigins' /\ AgentOrigins'
      BY <2>1, <3>1 DEF RegInv, Origins, MachineOrigins, AgentOrigins, Asks, Machine, Agent
    <3>5. EventOrigins'
      BY <2>1, <3>1 DEF RegInv, Origins, EventOrigins, Asks, Machine, Agent, AgentAudit,
                        RegisteredEvent
    <3> QED BY <3>2, <3>3, <3>4, <3>5 DEF RegInv, Origins
  <2> QED BY <2>1, ReadingKeeps, ProjectKeeps, MachineKeeps, AgentKeeps, AuditKeeps,
             PublishKeeps, RespondKeeps DEF Next, Rest
<1> QED BY <1>1, RegInit, PTL DEF Spec

(* Every variable stays in its set.                                        *)
THEOREM RegTypesCorrect == Spec => []RegTypeOK
<1>1. RegInv => RegTypeOK
  BY DEF RegInv
<1> QED BY <1>1, RegInvHolds, PTL

(* A name in a project is one machine, one agent and one credential,       *)
(* however many registrations race for it.                                 *)
THEOREM NamesAreUnique == Spec => []OneAgentPerName
<1>1. ASSUME RegInv PROVE OneAgentPerName
  <2>1. \A m, n \in machines : m.project = n.project /\ m.name = n.name => m = n
    BY <1>1 DEF RegInv, Once
  <2>2. \A a, b \in agents : a.machine = b.machine => a = b
    BY <1>1 DEF RegInv, Origins, AgentOrigins, Agent
  <2>3. ASSUME NEW r \in Requests, NEW s \in Requests, phase[r] = "created", phase[s] = "created",
               Asks(r, "agent"), input[r] = input[s]
        PROVE  r = s
    <3>1. Asks(s, "agent")
      BY <2>3 DEF Asks
    <3>2. Machine(r) \in machines /\ Machine(s) \in machines
      BY <1>1, <2>3, <3>1 DEF RegInv, Stages, Done
    <3>3. Machine(r) = Machine(s)
      BY <2>1, <2>3, <3>2 DEF Machine
    <3> QED BY <3>3 DEF Machine
  <2> QED BY <2>1, <2>2, <2>3 DEF OneAgentPerName
<1>2. RegInv => OneAgentPerName
  BY <1>1
<1> QED BY <1>2, RegInvHolds, PTL

(* What is stored refers to what is stored, whichever request died where.  *)
THEOREM ReferencesHold == Spec => []NothingDangles
<1>1. ASSUME RegInv PROVE NothingDangles
  <2>1. \A m \in machines : m.project \in projects
    BY <1>1 DEF RegInv, Origins, MachineOrigins
  <2>2. \A a \in agents : \E m \in machines : m.id = a.machine
    <3>1. \A a \in agents : a.machine = a.id /\ Machine(a.id) \in machines
      BY <1>1 DEF RegInv, Origins, AgentOrigins, Agent
    <3>2. \A r : Machine(r).id = r
      BY DEF Machine
    <3> QED BY <3>1, <3>2
  <2>3. ASSUME NEW m \in machines, phase[m.id] \notin {"insertAgent", "failed", "aborted"}
        PROVE  \E a \in agents : a.machine = m.id
    <3>1. Agent(m.id) \in agents
      BY <1>1, <2>3 DEF RegInv, Origins, MachineOrigins, Stages, Stopped, Done
    <3> QED BY <3>1 DEF Agent
  <2> QED BY <2>1, <2>2, <2>3 DEF NothingDangles
<1>2. RegInv => NothingDangles
  BY <1>1
<1> QED BY <1>2, RegInvHolds, PTL

(* A 201 means that everything happened.                                   *)
THEOREM CreatedMeansAll == Spec => []CreatedIsComplete
<1>1. ASSUME RegInv, NEW r \in Requests, phase[r] = "created"
      PROVE  IF Asks(r, "project")
             THEN r \in projects /\ ProjectAudit(r) \in audits
             ELSE /\ Machine(r) \in machines /\ Agent(r) \in agents
                  /\ AgentAudit(r) \in audits
                  /\ \E i \in DOMAIN channel[input[r].project] :
                       channel[input[r].project][i] = RegisteredEvent(r)
  BY <1>1 DEF RegInv, Stages, Done
<1>2. RegInv => CreatedIsComplete
  BY <1>1 DEF CreatedIsComplete
<1> QED BY <1>2, RegInvHolds, PTL

(* What the dashboard is told of is stored, in that project, and once.     *)
THEOREM AnnouncementsTrue == Spec => []AnnouncedIsRegistered
<1>1. ASSUME RegInv, NEW p \in Projects, NEW i \in DOMAIN channel[p]
      PROVE  /\ channel[p][i].machine.project = p
             /\ channel[p][i].machine \in machines /\ channel[p][i].agent \in agents
             /\ [type |-> "agent.registered", project |-> p, resource |-> channel[p][i].agent.id] \in audits
             /\ \A j \in DOMAIN channel[p] : channel[p][j] = channel[p][i] => j = i
  <2>1. PICK r \in Requests :
          /\ channel[p][i] = RegisteredEvent(r) /\ input[r].project = p
          /\ Machine(r) \in machines /\ Agent(r) \in agents /\ AgentAudit(r) \in audits
    BY <1>1 DEF RegInv, Origins, EventOrigins
  <2>2. channel[p][i].machine = Machine(r) /\ channel[p][i].agent = Agent(r)
        /\ Machine(r).project = p /\ Agent(r).id = r
    BY <2>1 DEF RegisteredEvent, Machine, Agent
  <2>3. [type |-> "agent.registered", project |-> p, resource |-> r] = AgentAudit(r)
    BY <2>1 DEF AgentAudit
  <2>4. \A j \in DOMAIN channel[p] : channel[p][j] = channel[p][i] => j = i
    BY <1>1 DEF RegInv, Once
  <2> QED BY <2>1, <2>2, <2>3, <2>4
<1>2. RegInv => AnnouncedIsRegistered
  BY <1>1 DEF AnnouncedIsRegistered
<1> QED BY <1>2, RegInvHolds, PTL

-----------------------------------------------------------------------------
(* The routes implement NameRegistry.  Its variables, as Registration      *)
(* substitutes them: *)
namesBar       == {[project |-> m.project, name |-> m.name, by |-> m.id] : m \in machines}
credentialsBar == {a.id : a \in agents}
claimBar       == [r \in Requests |-> IF Asks(r, "agent") THEN input[r] ELSE Malformed]
verdictBar     == [r \in Requests |-> IF Asks(r, "agent") THEN VerdictAt(phase[r]) ELSE "none"]

LEMMA VerdictTable ==
  /\ \A at \in {"read", "projectExists", "insertMachine"} : VerdictAt(at) = "pending"
  /\ VerdictAt("insertAgent") = "taken"
  /\ \A at \in {"auditAgent", "publish", "respond"} : VerdictAt(at) = "issued"
  /\ VerdictAt("created") = "granted"
  /\ VerdictAt("notFound") = "refused"
  /\ \A at \in Stopped : VerdictAt(at) = "lost"
BY DEF VerdictAt, Stopped

(* Nothing is known of a request that was not read. *)
Unread == \A r \in Requests : phase[r] \in {"unsent", "denied"} => input[r] = Malformed

LEMMA UnreadNext ==
  ASSUME RegInv, Unread, Next
  PROVE  Unread'
<1>0. RegTypeOK
  BY DEF RegInv
<1>1. ASSUME NEW r \in Requests, Arrive(r) PROVE Unread'
  <2>1. /\ phase'[r] = "read" /\ \A s \in Requests : s # r => phase'[s] = phase[s]
        /\ \A s \in Requests : s # r => input'[s] = input[s]
    BY <1>0, <1>1, StepMoves DEF Arrive, Awaiting, RegTypeOK
  <2> QED BY <2>1 DEF Unread
<1>2. ASSUME NEW r \in Requests, Deny(r) PROVE Unread'
  <2>1. /\ phase[r] = "unsent" /\ input' = input
        /\ \A s \in Requests : s # r => phase'[s] = phase[s]
    BY <1>0, <1>2, StepMoves DEF Deny, Answers
  <2> QED BY <2>1 DEF Unread
<1>3. ASSUME NEW r \in Requests,
             \/ Parse(r) \/ InsertProject(r) \/ AuditProject(r) \/ ProjectExists(r)
             \/ InsertMachine(r) \/ NameConflict(r) \/ InsertAgent(r) \/ AuditAgent(r)
             \/ Publish(r) \/ Respond(r) \/ Fail(r) \/ Abort(r)
      PROVE  Unread'
  <2>1. input' = input /\ \A s \in Requests : s # r => phase'[s] = phase[s]
    BY <1>0, <1>3 DEF Parse, InsertProject, AuditProject, ProjectExists, InsertMachine,
       NameConflict, InsertAgent, AuditAgent, Publish, Respond, Fail, Abort, Step, RegTypeOK
  <2>2. phase'[r] \notin {"unsent", "denied"}
    <3>1. CASE Parse(r)
      BY <1>0, <3>1, InputTypes DEF Parse, Step, RegTypeOK, Asks
    <3>2. CASE ~Parse(r)
      BY <1>0, <1>3, <3>2 DEF InsertProject, AuditProject, ProjectExists, InsertMachine,
         NameConflict, InsertAgent, AuditAgent, Publish, Respond, Fail, Abort, Step, RegTypeOK
    <3> QED BY <3>1, <3>2
  <2> QED BY <2>1, <2>2 DEF Unread
<1>4. CASE Rest
  BY <1>4 DEF Rest, vars, Unread
<1> QED BY <1>1, <1>2, <1>3, <1>4 DEF Next

(* A step moves the verdict of a request that asks for an agent.           *)
LEMMA VerdictMoves ==
  ASSUME RegTypeOK, NEW r \in Requests, Asks(r, "agent"),
         NEW to \in {"unsent"} \cup Awaiting \cup Answers, Step(r, phase[r], to), input' = input
  PROVE  /\ verdictBar[r] = VerdictAt(phase[r])
         /\ verdictBar' = [verdictBar EXCEPT ![r] = VerdictAt(to)]
         /\ claimBar' = claimBar
<1>1. phase'[r] = to /\ \A s \in Requests : s # r => phase'[s] = phase[s]
  BY StepMoves
<1>2. \A s \in Requests : Asks(s, "agent")' <=> Asks(s, "agent")
  BY DEF Asks
<1> QED BY <1>1, <1>2 DEF verdictBar, claimBar

(* The requests that ask for something else do not show.                   *)
LEMMA OthersDoNotShow ==
  ASSUME NEW r \in Requests, ~Asks(r, "agent"), ~Asks(r, "agent")',
         \A s \in Requests : s # r => phase'[s] = phase[s] /\ input'[s] = input[s],
         machines' = machines, agents' = agents
  PROVE  UNCHANGED Registry!vars
<1>1. \A s \in Requests : s # r => (Asks(s, "agent")' <=> Asks(s, "agent"))
  BY DEF Asks
<1>2. verdictBar' = verdictBar
  BY <1>1 DEF verdictBar
<1>3. claimBar' = claimBar
  BY <1>1 DEF claimBar
<1>4. namesBar' = namesBar /\ credentialsBar' = credentialsBar
  BY DEF namesBar, credentialsBar
<1> QED
  BY <1>2, <1>3, <1>4 DEF Registry!vars, namesBar, credentialsBar, claimBar, verdictBar

LEMMA RegistryInit == Init => Registry!Init /\ Unread
<1> SUFFICES ASSUME Init PROVE Registry!Init /\ Unread
  OBVIOUS
<1>1. \A r \in Requests : ~Asks(r, "agent")
  BY DEF Init, Asks
<1>2. verdictBar = [r \in Requests |-> "none"]
  BY <1>1 DEF verdictBar
<1> QED BY <1>2 DEF Init, Registry!Init, verdictBar, Unread

(* A registration's INSERT of the machine takes the name.                  *)
LEMMA InsertTakes ==
  ASSUME RegInv, NEW r \in Requests, InsertMachine(r)
  PROVE  Registry!Take(r)
<1>0. RegTypeOK
  BY DEF RegInv
<1>1. /\ Step(r, phase[r], "insertAgent") /\ phase[r] = "insertMachine"
      /\ ~NameTaken(r) /\ machines' = machines \cup {Machine(r)}
      /\ UNCHANGED <<agents, input>>
  BY DEF InsertMachine, Step
<1>2. Asks(r, "agent")
  BY <1>1 DEF RegInv, Stages, Registering
<1>3. /\ verdictBar[r] = "pending" /\ verdictBar' = [verdictBar EXCEPT ![r] = "taken"]
      /\ claimBar' = claimBar
  BY <1>0, <1>1, <1>2, VerdictMoves, VerdictTable DEF Awaiting
<1>4. claimBar[r] = input[r]
  BY <1>2 DEF claimBar
<1>5. ~\E e \in namesBar : e.project = claimBar[r].project /\ e.name = claimBar[r].name
  <2> SUFFICES ASSUME NEW e \in namesBar,
                      e.project = input[r].project, e.name = input[r].name
               PROVE  FALSE
    BY <1>4
  <2>1. PICK m \in machines : e = [project |-> m.project, name |-> m.name, by |-> m.id]
    BY DEF namesBar
  <2> QED BY <1>1, <2>1 DEF NameTaken
<1>6. namesBar' = namesBar \cup
        {[project |-> claimBar[r].project, name |-> claimBar[r].name, by |-> r]}
  <2>1. namesBar' = namesBar \cup {[project |-> Machine(r).project, name |-> Machine(r).name,
                                    by |-> Machine(r).id]}
    BY <1>1 DEF namesBar
  <2> QED BY <1>4, <2>1 DEF Machine
<1>7. credentialsBar' = credentialsBar
  BY <1>1 DEF credentialsBar
<1> QED
  BY <1>3, <1>5, <1>6, <1>7
     DEF Registry!Take, Registry!Decide, Registry!Taken,
         namesBar, credentialsBar, claimBar, verdictBar

LEMMA RegistryNext == RegInv /\ Unread /\ Next => Registry!Next \/ UNCHANGED Registry!vars
<1> SUFFICES ASSUME RegInv, Unread, Next PROVE Registry!Next \/ UNCHANGED Registry!vars
  OBVIOUS
<1>0. RegTypeOK /\ Stages
  BY DEF RegInv
<1> USE DEF Registry!Decide, Registry!vars, namesBar, credentialsBar, claimBar, verdictBar
<1>a. ASSUME NEW r \in Requests, NEW to \in {"unsent"} \cup Awaiting \cup Answers,
             Step(r, phase[r], to), UNCHANGED <<machines, agents, input>>, Asks(r, "agent")
      PROVE  /\ VerdictAt(to) = VerdictAt(phase[r]) => UNCHANGED Registry!vars
             /\ VerdictAt(phase[r]) \in {"pending", "taken", "issued"} /\ to \in Stopped =>
                  Registry!Lose(r)
             /\ VerdictAt(phase[r]) = "pending" /\ to = "notFound" => Registry!Refuse(r)
             /\ VerdictAt(phase[r]) = "issued" /\ to = "created" => Registry!Grant(r)
  <2> HIDE DEF namesBar, credentialsBar, claimBar, verdictBar
  <2>1. /\ verdictBar[r] = VerdictAt(phase[r])
        /\ verdictBar' = [verdictBar EXCEPT ![r] = VerdictAt(to)]
        /\ claimBar' = claimBar
    BY <1>0, <1>a, VerdictMoves
  <2>2. namesBar' = namesBar /\ credentialsBar' = credentialsBar
    BY <1>a DEF namesBar, credentialsBar
  <2>3. VerdictAt(to) = VerdictAt(phase[r]) => verdictBar' = verdictBar
    BY <2>1 DEF verdictBar
  <2>4. VerdictAt(to) = VerdictAt(phase[r]) => UNCHANGED Registry!vars
    BY <2>1, <2>2, <2>3 DEF namesBar, credentialsBar, claimBar, verdictBar
  <2>5. /\ to \in Stopped => verdictBar' = [verdictBar EXCEPT ![r] = "lost"]
        /\ to = "notFound" => verdictBar' = [verdictBar EXCEPT ![r] = "refused"]
        /\ to = "created" => verdictBar' = [verdictBar EXCEPT ![r] = "granted"]
    BY <2>1, VerdictTable
  <2>6. VerdictAt(phase[r]) \in {"pending", "taken", "issued"} /\ to \in Stopped =>
          Registry!Lose(r)
    BY <2>1, <2>2, <2>5 DEF Registry!Lose, namesBar, credentialsBar, claimBar, verdictBar
  <2>7. VerdictAt(phase[r]) = "pending" /\ to = "notFound" => Registry!Refuse(r)
    BY <2>1, <2>2, <2>5 DEF Registry!Refuse, namesBar, credentialsBar, claimBar, verdictBar
  <2>8. VerdictAt(phase[r]) = "issued" /\ to = "created" => Registry!Grant(r)
    BY <2>1, <2>2, <2>5 DEF Registry!Grant, namesBar, credentialsBar, claimBar, verdictBar
  <2> QED BY <2>4, <2>6, <2>7, <2>8
<1> HIDE DEF Registry!Decide, Registry!vars, namesBar, credentialsBar, claimBar, verdictBar
<1>b. ASSUME NEW r \in Requests, ~Asks(r, "agent"), UNCHANGED <<machines, agents, input>>,
             \A s \in Requests : s # r => phase'[s] = phase[s]
      PROVE  UNCHANGED Registry!vars
  BY <1>b, OthersDoNotShow DEF Asks
<1>1. ASSUME NEW r \in Requests, Arrive(r)
      PROVE  Registry!Ask(r) \/ UNCHANGED Registry!vars
  <2>1. /\ phase[r] = "unsent" /\ phase'[r] = "read"
        /\ \A s \in Requests : s # r => phase'[s] = phase[s] /\ input'[s] = input[s]
        /\ UNCHANGED <<machines, agents>>
    BY <1>0, <1>1, StepMoves DEF Arrive, Awaiting, RegTypeOK
  <2>2. ~Asks(r, "agent")
    BY <2>1 DEF Unread, Asks
  <2>3. CASE ~Asks(r, "agent")'
    BY <2>1, <2>2, <2>3, OthersDoNotShow
  <2>4. CASE Asks(r, "agent")'
    <3>1. \A s \in Requests : s # r => (Asks(s, "agent")' <=> Asks(s, "agent"))
      BY <2>1 DEF Asks
    <3>2. verdictBar[r] = "none" /\ verdictBar' = [verdictBar EXCEPT ![r] = "pending"]
      BY <2>1, <2>2, <2>4, <3>1, VerdictTable DEF verdictBar
    <3>3. /\ \A s \in Requests \ {r} : claimBar'[s] = claimBar[s]
          /\ DOMAIN claimBar' = Requests
      BY <2>1, <3>1 DEF claimBar
    <3>4. namesBar' = namesBar /\ credentialsBar' = credentialsBar
      BY <2>1 DEF namesBar, credentialsBar
    <3>5. Registry!Ask(r)
      BY <3>2, <3>3, <3>4
         DEF Registry!Ask, Registry!Decide, namesBar, credentialsBar, claimBar, verdictBar
    <3> QED BY <3>5
  <2> QED BY <2>3, <2>4
<1>2. ASSUME NEW r \in Requests, Deny(r) PROVE UNCHANGED Registry!vars
  <2>1. phase[r] = "unsent" /\ \A s \in Requests : s # r => phase'[s] = phase[s]
    BY <1>0, <1>2, StepMoves DEF Deny, Answers
  <2>2. ~Asks(r, "agent")
    BY <2>1 DEF Unread, Asks
  <2> QED BY <1>2, <1>b, <2>1, <2>2 DEF Deny
<1>3. ASSUME NEW r \in Requests, Parse(r) PROVE UNCHANGED Registry!vars
  <2>1. /\ phase[r] = "read" /\ UNCHANGED <<machines, agents, input>>
        /\ \A s \in Requests : s # r => phase'[s] = phase[s]
    BY <1>0, <1>3 DEF Parse, Step, RegTypeOK
  <2>2. CASE Asks(r, "agent")
    <3>1. Step(r, phase[r], "projectExists")
      BY <1>0, <1>3, <2>2, InputTypes DEF Parse, Step, Asks
    <3>2. VerdictAt("projectExists") = VerdictAt(phase[r])
      BY <2>1, VerdictTable
    <3> QED BY <1>a, <2>1, <2>2, <3>1, <3>2 DEF Awaiting
  <2> QED BY <1>b, <2>1, <2>2
<1>4. ASSUME NEW r \in Requests, InsertProject(r) \/ AuditProject(r)
      PROVE  UNCHANGED Registry!vars
  <2>1. /\ phase[r] \in {"insertProject", "auditProject"}
        /\ UNCHANGED <<machines, agents, input>>
        /\ \A s \in Requests : s # r => phase'[s] = phase[s]
    BY <1>0, <1>4 DEF InsertProject, AuditProject, Step, RegTypeOK
  <2>2. ~Asks(r, "agent")
    BY <1>0, <2>1, InputTypes DEF Stages
  <2> QED BY <1>b, <2>1, <2>2
<1>5. ASSUME NEW r \in Requests, ProjectExists(r)
      PROVE  Registry!Refuse(r) \/ UNCHANGED Registry!vars
  <2>1. /\ phase[r] = "projectExists" /\ UNCHANGED <<machines, agents, input>>
        /\ Step(r, phase[r], "insertMachine") \/ Step(r, phase[r], "notFound")
    BY <1>5 DEF ProjectExists, Step
  <2>2. Asks(r, "agent")
    BY <1>0, <2>1 DEF Stages
  <2>3. VerdictAt(phase[r]) = "pending" /\ VerdictAt("insertMachine") = "pending"
    BY <2>1, VerdictTable
  <2> QED BY <1>a, <2>1, <2>2, <2>3 DEF Awaiting, Answers
<1>6. ASSUME NEW r \in Requests, NameConflict(r) PROVE Registry!Lose(r)
  <2>1. /\ phase[r] = "insertMachine" /\ UNCHANGED <<machines, agents, input>>
        /\ Step(r, phase[r], "failed")
    BY <1>6 DEF NameConflict, Step
  <2>2. Asks(r, "agent")
    BY <1>0, <2>1 DEF Stages, Registering
  <2>3. VerdictAt(phase[r]) = "pending"
    BY <2>1, VerdictTable
  <2> QED BY <1>a, <2>1, <2>2, <2>3 DEF Answers, Stopped
<1>7. ASSUME NEW r \in Requests, InsertAgent(r) PROVE Registry!Issue(r)
  <2>1. /\ phase[r] = "insertAgent" /\ Step(r, phase[r], "auditAgent")
        /\ agents' = agents \cup {Agent(r)} /\ UNCHANGED <<machines, input>>
    BY <1>7 DEF InsertAgent, Step
  <2>2. Asks(r, "agent")
    BY <1>0, <2>1 DEF Stages, Registering
  <2>3. /\ verdictBar[r] = "taken" /\ verdictBar' = [verdictBar EXCEPT ![r] = "issued"]
        /\ claimBar' = claimBar
    BY <1>0, <2>1, <2>2, VerdictMoves, VerdictTable DEF Awaiting
  <2>4. credentialsBar' = credentialsBar \cup {r} /\ namesBar' = namesBar
    <3>1. Agent(r).id = r
      BY DEF Agent
    <3>2. credentialsBar' = credentialsBar \cup {Agent(r).id}
      BY <2>1 DEF credentialsBar
    <3> QED BY <2>1, <3>1, <3>2 DEF namesBar
  <2> QED BY <2>3, <2>4
          DEF Registry!Issue, Registry!Decide, namesBar, credentialsBar, claimBar, verdictBar
<1>8. ASSUME NEW r \in Requests, AuditAgent(r) \/ Publish(r)
      PROVE  UNCHANGED Registry!vars
  <2>1. PICK to \in {"publish", "respond"} :
          /\ phase[r] \in {"auditAgent", "publish"} /\ Step(r, phase[r], to)
          /\ UNCHANGED <<machines, agents, input>>
    BY <1>8 DEF AuditAgent, Publish, Step
  <2>2. Asks(r, "agent")
    BY <1>0, <2>1 DEF Stages, Registering
  <2>3. VerdictAt(to) = VerdictAt(phase[r])
    BY <2>1, VerdictTable
  <2> QED BY <1>a, <2>1, <2>2, <2>3 DEF Awaiting
<1>9. ASSUME NEW r \in Requests, Respond(r)
      PROVE  Registry!Grant(r) \/ UNCHANGED Registry!vars
  <2>1. /\ phase[r] = "respond" /\ Step(r, phase[r], "created")
        /\ UNCHANGED <<machines, agents, input>>
        /\ \A s \in Requests : s # r => phase'[s] = phase[s]
    BY <1>0, <1>9 DEF Respond, Step, RegTypeOK
  <2>2. VerdictAt(phase[r]) = "issued"
    BY <2>1, VerdictTable
  <2> QED BY <1>a, <1>b, <2>1, <2>2 DEF Answers
<1>10. ASSUME NEW r \in Requests, Fail(r) \/ Abort(r)
       PROVE  Registry!Lose(r) \/ UNCHANGED Registry!vars
  <2>1. PICK to \in Stopped :
          /\ phase[r] \in Awaiting /\ Step(r, phase[r], to)
          /\ UNCHANGED <<machines, agents, input>>
          /\ \A s \in Requests : s # r => phase'[s] = phase[s]
    BY <1>0, <1>10 DEF Fail, Abort, Step, Stopped, RegTypeOK
  <2>2. CASE Asks(r, "agent")
    <3>1. phase[r] \notin {"insertProject", "auditProject"}
      BY <1>0, <2>2, InputTypes DEF Stages
    <3>2. VerdictAt(phase[r]) \in {"pending", "taken", "issued"}
      BY <2>1, <3>1, VerdictTable DEF Awaiting
    <3> QED BY <1>a, <2>1, <2>2, <3>2 DEF Answers, Stopped
  <2> QED BY <1>b, <2>1, <2>2
<1>11. CASE Rest
  BY <1>11 DEF Rest, vars, Registry!vars, Asks
<1>12. ASSUME NEW r \in Requests, InsertMachine(r) PROVE Registry!Take(r)
  BY <1>12, InsertTakes
<1> QED
  BY <1>1, <1>2, <1>3, <1>4, <1>5, <1>6, <1>7, <1>8, <1>9, <1>10, <1>11, <1>12
     DEF Next, Registry!Next

(* Every behaviour of the routes is one of the registry: a name is taken   *)
(* once and for good, by one request, whose credential alone is valid for  *)
(* it, and a 201 follows both.                                             *)
THEOREM RoutesImplementRegistry == Spec => ImplementsRegistry
<1>1. Init => Registry!Init /\ Unread
  BY RegistryInit
<1>2. RegInv /\ Unread /\ [Next]_vars => Unread'
  <2>1. UNCHANGED vars /\ Unread => Unread'
    BY DEF vars, Unread
  <2> QED BY <2>1, UnreadNext
<1>3. RegInv /\ Unread /\ [Next]_vars => [Registry!Next]_(Registry!vars)
  <2>1. UNCHANGED vars => UNCHANGED Registry!vars
    BY DEF vars, Registry!vars, Asks
  <2> QED BY <2>1, RegistryNext
<1> QED BY <1>1, <1>2, <1>3, RegInvHolds, PTL DEF Spec, ImplementsRegistry, Registry!Spec

=============================================================================
