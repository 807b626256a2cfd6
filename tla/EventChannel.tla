---------------------------- MODULE EventChannel ----------------------------
(***************************************************************************)
(* ProjectEventChannel: one Durable Object per project, which passes on    *)
(* the events of that project to the WebSockets attached to it.            *)
(*                                                                         *)
(* The object may hibernate: its memory is gone, the sockets stay attached *)
(* to the runtime, and the next request or close event runs its            *)
(* constructor first.  The events are the registrations of agents; those   *)
(* of heartbeats take the same way.                                        *)
(*                                                                         *)
(* The other end of a socket is the browser's.  A connection that is down  *)
(* is one of which at least one end is still to learn it.                  *)
(***************************************************************************)
EXTENDS Naturals

CONSTANTS
  Projects, Agents,
  Home,          (* The project of each agent.                              *)
  Sockets,       (* Names of WebSockets, used again when both ends are gone. *)
  MaxFaults      (* Bound on what fails: the network gets better some day.  *)

ASSUME ChannelAssumption ==
  Home \in [Agents -> Projects] /\ MaxFaults \in Nat

VARIABLES
  stage,         (* Of each agent: registered in D1, event published.       *)
  pending,       (* Upgrade requests on their way, per project.             *)
  attached,      (* ctx.getWebSockets(), per project.                       *)
  sockets, awake,  (* The object's own set, while it is in memory.          *)
  link,          (* The browser's end of each socket.                       *)
  wire,          (* Events sent to each socket and not yet received.        *)
  handed,        (* All events sent to it while the connection was up.      *)
  faults

channel == <<stage, pending, attached, sockets, awake, link, wire, handed, faults>>

-----------------------------------------------------------------------------
ChannelInit ==
  /\ stage = [a \in Agents |-> "none"]
  /\ pending = [p \in Projects |-> {}]
  /\ attached = [p \in Projects |-> {}]
  /\ sockets = [p \in Projects |-> {}]
  /\ awake = [p \in Projects |-> FALSE]
  /\ link = [s \in Sockets |-> "gone"]
  /\ wire = [s \in Sockets |-> {}]
  /\ handed = [s \in Sockets |-> {}]
  /\ faults = 0

Up == {s \in Sockets : link[s] \in {"connecting", "open"}}

Fault == faults < MaxFaults /\ faults' = faults + 1

(* The set a handler of p's object works with: its constructor has run. *)
Loaded_empty(p) ==                     \* mutant: the constructor attaches nothing
  IF awake[p] THEN sockets[p] ELSE {}

Loaded(p) == IF awake[p] THEN sockets[p] ELSE attached[p]

Memory(p, set) ==
  /\ awake' = [awake EXCEPT ![p] = TRUE]
  /\ sockets' = [sockets EXCEPT ![p] = set]

(* The Worker has registered a and recorded the audit event. *)
RegisterAgent(a) ==
  /\ stage[a] = "none"
  /\ stage' = [stage EXCEPT ![a] = "stored"]
  /\ UNCHANGED <<pending, attached, sockets, awake, link, wire, handed, faults>>

(* POST: to every socket in the set.  What is sent into a connection that  *)
(* is down is lost, and send may or may not throw; if it does, the socket  *)
(* is forgotten.                                                           *)
Publish(a) ==
  LET p == Home[a] IN
  /\ stage[a] = "stored"
  /\ stage' = [stage EXCEPT ![a] = "published"]
  /\ \E failed \in SUBSET (Loaded(p) \ Up) : Memory(p, Loaded(p) \ failed)
  /\ wire' = [s \in Sockets |-> wire[s] \cup {x \in {a} : s \in Loaded(p) \cap Up}]
  /\ handed' = [s \in Sockets |-> handed[s] \cup {x \in {a} : s \in Loaded(p) \cap Up}]
  /\ UNCHANGED <<pending, attached, link, faults>>

(* The object cannot be reached: a row and an audit event, and no event.   *)
LosePublication(a) ==
  /\ stage[a] = "stored"
  /\ stage' = [stage EXCEPT ![a] = "lost"]
  /\ Fault
  /\ UNCHANGED <<pending, attached, sockets, awake, link, wire, handed>>

(* GET with upgrade. *)
Accept(s, p) ==
  /\ s \in pending[p]
  /\ pending' = [pending EXCEPT ![p] = @ \ {s}]
  /\ attached' = [attached EXCEPT ![p] = @ \cup {s}]
  /\ Memory(p, Loaded(p) \cup {s})
  /\ UNCHANGED <<stage, link, wire, handed, faults>>

(* The Worker refuses, or the request does not arrive. *)
Refuse(s, p) ==
  /\ s \in pending[p]
  /\ pending' = [pending EXCEPT ![p] = @ \ {s}]
  /\ link' = [link EXCEPT ![s] = IF s \in Up THEN "down" ELSE @]
  /\ Fault
  /\ UNCHANGED <<stage, attached, sockets, awake, wire, handed>>

Detach_remembers(s, p) ==              \* mutant: the handler does nothing
  /\ s \in attached[p] \ Up
  /\ attached' = [attached EXCEPT ![p] = @ \ {s}]
  /\ Memory(p, Loaded(p))
  /\ UNCHANGED <<stage, pending, link, wire, handed, faults>>

(* webSocketClose or webSocketError. *)
Detach(s, p) ==
  /\ s \in attached[p] \ Up
  /\ attached' = [attached EXCEPT ![p] = @ \ {s}]
  /\ Memory(p, Loaded(p) \ {s})
  /\ UNCHANGED <<stage, pending, link, wire, handed, faults>>

Hibernate(p) ==
  /\ awake[p]
  /\ awake' = [awake EXCEPT ![p] = FALSE]
  /\ sockets' = [sockets EXCEPT ![p] = {}]
  /\ UNCHANGED <<stage, pending, attached, link, wire, handed, faults>>

Drop(s) ==
  /\ s \in Up
  /\ link' = [link EXCEPT ![s] = "down"]
  /\ wire' = [wire EXCEPT ![s] = {}]
  /\ Fault
  /\ UNCHANGED <<stage, pending, attached, sockets, awake, handed>>

ChannelNext ==
  \/ \E a \in Agents : RegisterAgent(a) \/ Publish(a) \/ LosePublication(a)
  \/ \E s \in Sockets, p \in Projects : Accept(s, p) \/ Refuse(s, p) \/ Detach(s, p)
  \/ \E p \in Projects : Hibernate(p)
  \/ \E s \in Sockets : Drop(s)

-----------------------------------------------------------------------------
(* CHANGELOG.md: "Added live agent.registered ... notifications".  An      *)
(* event that is published is sent to the sockets of its project that are  *)
(* attached and up, to all of them and to no other, however often the      *)
(* object has been hibernated, has forgotten a socket whose send failed,   *)
(* or has been closed one meanwhile.                                       *)
FanOutReachesAll ==
  [][\A a \in Agents : stage[a] # "published" /\ stage'[a] = "published" =>
       {s \in Sockets : a \in wire'[s]} = attached[Home[a]] \cap Up]_channel

=============================================================================
