--------------------------- MODULE LiveViewProofs ---------------------------
(***************************************************************************)
(* The safety properties of the dashboard, for any number of projects,     *)
(* agents, sockets, tasks, gestures and faults.                            *)
(*                                                                         *)
(* That the page listens to one stream rests on the browser's ends alone.  *)
(* That an event belongs in the list rests on the whole way it takes: a    *)
(* socket is only ever attached to the object of the project it was opened *)
(* for, and nothing is in flight on one that is used again.                *)
(***************************************************************************)
EXTENDS LiveView, TLAPS

(* Every socket leads to the project it was opened for.                    *)
Wired ==
  /\ \A s \in Sockets, p \in Projects :
       s \in pending[p] \cup attached[p] => opener[s].project = p
  /\ \A s \in Sockets, p \in Projects :
       s \in pending[p] => s \notin attached[p] /\ wire[s] = {}
  /\ \A s \in Sockets : s \notin Up => wire[s] = {}
  /\ \A s \in Sockets : \A a \in wire[s] : Home[a] = opener[s].project

(* Whatever loads, registers or listens does so for a project.             *)
Selected ==
  /\ \A t \in Tasks : task[t].at \notin {"idle", "listing"} => project \in Projects
  /\ socket # NoSocket => project \in Projects /\ opener[socket].project \in Projects

(* What was read or registered is of the task's project.                   *)
Answered ==
  \A t \in Tasks :
    task[t].at = "loaded" => \A a \in task[t].agents : Home[a] = task[t].project

(* As long as no tasks overlap: there is one task at most, loading starts  *)
(* when the stream is closed, and the task, the stream and the list are of *)
(* the selected project.                                                   *)
Quiet ==
  ~disturbed =>
    /\ \A t, u \in Tasks : task[t] # Idle /\ task[u] # Idle => t = u
    /\ \A t \in Tasks : task[t].at \in {"listing", "loading", "loaded"} =>
         socket = NoSocket /\ timer = NoTimer
    /\ \A t \in Tasks : task[t].at \in {"loading", "loaded", "registering"} =>
         task[t].project = project
    /\ \A t \in Tasks : task[t].at = "registered" => Home[task[t].agent] = project
    /\ (\A t \in Tasks : task[t].at \in {"idle", "registering", "registered"}) =>
         view.project = project
    /\ socket # NoSocket => token /\ opener[socket].project = project

LiveInv ==
  /\ LiveTypeOK /\ Wired /\ Selected /\ Answered /\ Quiet
  /\ OneStream /\ NothingHandedIsLost /\ ViewIsOfOneProject

-----------------------------------------------------------------------------
LEMMA LiveInvInit == LiveInit => LiveInv
<1> SUFFICES ASSUME LiveInit PROVE LiveInv
  OBVIOUS
<1> USE DEF LiveInit, ChannelInit
<1>1. LiveTypeOK
  <2>1. task \in [Tasks -> Works]
    BY DEF Idle, Works
  <2>2. opener \in [Sockets -> [project : Projects \cup {NoProject}, generation : Nat]]
    OBVIOUS
  <2>3. faults \in 0 .. MaxFaults /\ gestures \in 0 .. MaxGestures
    BY ChannelAssumption, ViewAssumption
  <2> QED BY <2>1, <2>2, <2>3 DEF LiveTypeOK
<1>2. Wired /\ Selected /\ Answered /\ Quiet
  BY DEF Wired, Selected, Answered, Quiet, Idle
<1>3. OneStream /\ NothingHandedIsLost /\ ViewIsOfOneProject
  BY ViewAssumption DEF OneStream, NothingHandedIsLost, ViewIsOfOneProject, Up
<1> QED BY <1>1, <1>2, <1>3 DEF LiveInv

(* The page looks on while the Worker and the objects take their steps.    *)
LEMMA ChannelKeeps == LiveInv /\ ChannelNext /\ UNCHANGED <<stream, page>> => LiveInv'
<1> SUFFICES ASSUME LiveInv, ChannelNext, UNCHANGED <<stream, page>> PROVE LiveInv'
  OBVIOUS
<1> USE DEF stream, page
<1>1. /\ Selected' /\ Answered' /\ Quiet' /\ ViewIsOfOneProject'
  <2>1. Selected' /\ Answered'
    BY DEF LiveInv, Selected, Answered
  <2>2. Quiet'
    BY DEF LiveInv, Quiet
  <2>3. ViewIsOfOneProject'
    BY DEF LiveInv, ViewIsOfOneProject
  <2> QED BY <2>1, <2>2, <2>3
<1>2. Up' \subseteq Up
  <2>1. link \in [Sockets -> {"connecting", "open", "down", "gone"}]
    BY DEF LiveInv, LiveTypeOK
  <2>2. ASSUME NEW a \in Agents, RegisterAgent(a) \/ Publish(a) \/ LosePublication(a)
        PROVE  link' = link
    BY <2>2 DEF RegisterAgent, Publish, LosePublication
  <2>3. /\ \A p \in Projects : Hibernate(p) => link' = link
        /\ \A s \in Sockets, p \in Projects : Accept(s, p) \/ Detach(s, p) => link' = link
    BY DEF Accept, Detach, Hibernate
  <2>4. ASSUME NEW s \in Sockets,
               Drop(s) \/ \E p \in Projects : Refuse(s, p)
        PROVE  Up' \subseteq Up
    <3>1. link' = [link EXCEPT ![s] = IF s \in Up THEN "down" ELSE @]
      BY <2>4 DEF Refuse, Drop
    <3> QED BY <2>1, <3>1 DEF Up
  <2>5. link' = link => Up' = Up
    BY DEF Up
  <2> QED BY <2>2, <2>3, <2>4, <2>5 DEF ChannelNext
<1>3. OneStream'
  BY <1>2 DEF LiveInv, OneStream
<1>4. ASSUME NEW a \in Agents, RegisterAgent(a) \/ LosePublication(a) PROVE LiveInv'
  <2>1. faults' \in 0 .. MaxFaults
    BY <1>4, ChannelAssumption DEF RegisterAgent, LosePublication, Fault, LiveInv, LiveTypeOK
  <2>2. LiveTypeOK'
    BY <1>4, <2>1 DEF RegisterAgent, LosePublication, LiveInv, LiveTypeOK
  <2>3. Wired' /\ NothingHandedIsLost'
    BY <1>4 DEF RegisterAgent, LosePublication, LiveInv, Wired, NothingHandedIsLost, Up
  <2> QED BY <1>1, <1>3, <2>2, <2>3 DEF LiveInv
<1>5. ASSUME NEW a \in Agents, Publish(a) PROVE LiveInv'
  <2> DEFINE reached == Loaded(Home[a]) \cap Up
  <2>1. reached \subseteq attached[Home[a]] \cap Up /\ Home[a] \in Projects
    BY ChannelAssumption DEF Loaded, LiveInv, LiveTypeOK
  <2>2. \A s \in Sockets : /\ s \in reached => wire'[s] = wire[s] \cup {a} /\ handed'[s] = handed[s] \cup {a}
                           /\ s \notin reached => wire'[s] = wire[s] /\ handed'[s] = handed[s]
    BY <1>5 DEF Publish
  <2>3. wire' \in [Sockets -> SUBSET Agents] /\ handed' \in [Sockets -> SUBSET Agents]
    BY <1>5 DEF Publish, LiveInv, LiveTypeOK
  <2> HIDE DEF reached
  <2>4. LiveTypeOK'
    <3>1. sockets' \in [Projects -> SUBSET Sockets] /\ \A p \in Projects : sockets'[p] \subseteq attached[p]
      BY <1>5, <2>1 DEF Publish, Memory, Loaded, LiveInv, LiveTypeOK
    <3>2. awake' \in [Projects -> BOOLEAN] /\ stage' \in [Agents -> {"none", "stored", "published", "lost"}]
      BY <1>5 DEF Publish, Memory, LiveInv, LiveTypeOK
    <3> QED BY <1>5, <2>3, <3>1, <3>2 DEF Publish, LiveInv, LiveTypeOK
  <2>5. Wired'
    <3>1. UNCHANGED <<pending, attached, opener, link>>
      BY <1>5 DEF Publish
    <3> QED BY <2>1, <2>2, <3>1 DEF LiveInv, Wired, Up
  <2>6. NothingHandedIsLost'
    <3>1. Up' = Up
      BY <1>5 DEF Publish, Up
    <3>2. CASE socket \in Up
      BY <2>2, <3>1, <3>2 DEF LiveInv, NothingHandedIsLost, Up
    <3> QED BY <3>1, <3>2 DEF NothingHandedIsLost
  <2> QED BY <1>1, <1>3, <2>4, <2>5, <2>6 DEF LiveInv
<1>6. ASSUME NEW s \in Sockets, NEW p \in Projects, Accept(s, p) PROVE LiveInv'
  <2>1. LiveTypeOK'
    BY <1>6 DEF Accept, Memory, Loaded, LiveInv, LiveTypeOK
  <2>2. Wired' /\ NothingHandedIsLost'
    BY <1>6 DEF Accept, LiveInv, LiveTypeOK, Wired, NothingHandedIsLost, Up
  <2> QED BY <1>1, <1>3, <2>1, <2>2 DEF LiveInv
<1>7. ASSUME NEW s \in Sockets, NEW p \in Projects, Refuse(s, p) PROVE LiveInv'
  <2>1. faults' \in 0 .. MaxFaults
    BY <1>7, ChannelAssumption DEF Refuse, Fault, LiveInv, LiveTypeOK
  <2>2. LiveTypeOK'
    BY <1>7, <2>1 DEF Refuse, LiveInv, LiveTypeOK
  <2>3. Wired' /\ NothingHandedIsLost'
    BY <1>7 DEF Refuse, LiveInv, LiveTypeOK, Wired, NothingHandedIsLost, Up
  <2> QED BY <1>1, <1>3, <2>2, <2>3 DEF LiveInv
<1>8. ASSUME NEW s \in Sockets, NEW p \in Projects, Detach(s, p) PROVE LiveInv'
  <2>1. LiveTypeOK'
    BY <1>8 DEF Detach, Memory, Loaded, LiveInv, LiveTypeOK
  <2>2. Wired' /\ NothingHandedIsLost'
    BY <1>8 DEF Detach, LiveInv, LiveTypeOK, Wired, NothingHandedIsLost, Up
  <2> QED BY <1>1, <1>3, <2>1, <2>2 DEF LiveInv
<1>9. ASSUME NEW p \in Projects, Hibernate(p) PROVE LiveInv'
  <2>1. LiveTypeOK'
    BY <1>9 DEF Hibernate, LiveInv, LiveTypeOK
  <2>2. Wired' /\ NothingHandedIsLost'
    BY <1>9 DEF Hibernate, LiveInv, Wired, NothingHandedIsLost, Up
  <2> QED BY <1>1, <1>3, <2>1, <2>2 DEF LiveInv
<1>10. ASSUME NEW s \in Sockets, Drop(s) PROVE LiveInv'
  <2>1. faults' \in 0 .. MaxFaults
    BY <1>10, ChannelAssumption DEF Drop, Fault, LiveInv, LiveTypeOK
  <2>2. LiveTypeOK'
    BY <1>10, <2>1 DEF Drop, LiveInv, LiveTypeOK
  <2>3. Wired' /\ NothingHandedIsLost'
    BY <1>10 DEF Drop, LiveInv, LiveTypeOK, Wired, NothingHandedIsLost, Up
  <2> QED BY <1>1, <1>3, <2>2, <2>3 DEF LiveInv
<1> QED BY <1>4, <1>5, <1>6, <1>7, <1>8, <1>9, <1>10 DEF ChannelNext

-----------------------------------------------------------------------------
(* The types of what only the page's own code assigns.                     *)
PageTypes ==
  /\ token \in BOOLEAN /\ disturbed \in BOOLEAN
  /\ project \in Projects \cup {NoProject}
  /\ gestures \in 0 .. MaxGestures
  /\ view \in [project : Projects \cup {NoProject}, agents : SUBSET Agents]
  /\ task \in [Tasks -> Works]

(* After closeStream nothing is listened to.                               *)
LEMMA Closed ==
  ASSUME LiveInv, CloseStream
  PROVE  /\ PageTypes' => LiveTypeOK'
         /\ Wired' /\ OneStream' /\ NothingHandedIsLost'
         /\ socket' = NoSocket /\ timer' = NoTimer
<1> USE DEF CloseStream, HungUp, Silenced
<1>1. socket' = NoSocket /\ timer' = NoTimer /\ label' = "disconnected"
  OBVIOUS
<1>2. /\ link' \in [Sockets -> {"connecting", "open", "down", "gone"}]
      /\ wire' \in [Sockets -> SUBSET Agents]
      /\ generation' \in Nat
  BY DEF LiveInv, LiveTypeOK
<1>3. PageTypes' => LiveTypeOK'
  BY <1>1, <1>2 DEF LiveInv, LiveTypeOK, PageTypes
<1>4. Up' = {}
  BY DEF LiveInv, LiveTypeOK, OneStream, Up
<1>5. Wired'
  BY <1>4 DEF LiveInv, LiveTypeOK, Wired, OneStream, Up
<1>6. OneStream' /\ NothingHandedIsLost'
  BY <1>1, <1>4 DEF OneStream, NothingHandedIsLost
<1> QED BY <1>1, <1>3, <1>5, <1>6

(* After openStream the page listens to the new socket, or to none and has *)
(* set the timer.                                                          *)
LEMMA Opened ==
  ASSUME LiveInv, NEW p \in Projects, NEW g \in Nat,
         NewSocket(p, g, HungUp), generation' = g, wire' = Silenced,
         UNCHANGED <<stage, attached, sockets, awake>>
  PROVE  /\ PageTypes' => LiveTypeOK'
         /\ Wired' /\ OneStream' /\ NothingHandedIsLost'
         /\ socket' # NoSocket => opener'[socket'].project = p
<1> USE DEF HungUp, Silenced
<1>1. /\ stage \in [Agents -> {"none", "stored", "published", "lost"}]
      /\ pending \in [Projects -> SUBSET Sockets] /\ attached \in [Projects -> SUBSET Sockets]
      /\ link \in [Sockets -> {"connecting", "open", "down", "gone"}]
      /\ wire \in [Sockets -> SUBSET Agents] /\ handed \in [Sockets -> SUBSET Agents]
      /\ opener \in [Sockets -> [project : Projects \cup {NoProject}, generation : Nat]]
      /\ socket \in Sockets \cup {NoSocket} /\ faults \in 0 .. MaxFaults
      /\ Up \subseteq {socket}
  BY DEF LiveInv, LiveTypeOK, OneStream
<1>2. wire' \in [Sockets -> SUBSET Agents]
  BY <1>1
<1>3. label' = "reconnecting"
  BY DEF NewSocket
<1>4. CASE \E s \in Free :
             /\ socket' = s /\ timer' = NoTimer
             /\ link' = [HungUp EXCEPT ![s] = "connecting"]
             /\ opener' = [opener EXCEPT ![s] = [project |-> p, generation |-> g]]
             /\ pending' = [pending EXCEPT ![p] = @ \cup {s}]
             /\ handed' = [handed EXCEPT ![s] = {}]
             /\ UNCHANGED faults
  <2>1. PICK s \in Free :
             /\ socket' = s /\ timer' = NoTimer
             /\ link' = [HungUp EXCEPT ![s] = "connecting"]
             /\ opener' = [opener EXCEPT ![s] = [project |-> p, generation |-> g]]
             /\ pending' = [pending EXCEPT ![p] = @ \cup {s}]
             /\ handed' = [handed EXCEPT ![s] = {}]
             /\ UNCHANGED faults
    BY <1>4
  <2>2. s \in Sockets /\ link[s] = "gone" /\ \A q \in Projects : s \notin pending[q] \cup attached[q]
    BY DEF Free
  <2>3. opener' \in [Sockets -> [project : Projects \cup {NoProject}, generation : Nat]]
    BY <1>1, <2>1
  <2>4. /\ pending' \in [Projects -> SUBSET Sockets] /\ handed' \in [Sockets -> SUBSET Agents]
        /\ link' \in [Sockets -> {"connecting", "open", "down", "gone"}]
    BY <1>1, <2>1, <2>2
  <2>5. PageTypes' => LiveTypeOK'
    BY <1>2, <1>3, <2>1, <2>2, <2>3, <2>4 DEF LiveInv, LiveTypeOK, PageTypes
  <2>6. Up' \subseteq {s} /\ opener'[s] = [project |-> p, generation |-> g]
    BY <1>1, <2>1, <2>2 DEF Up
  <2>7. wire'[s] = {} /\ handed'[s] = {}
    BY <1>1, <2>1, <2>2 DEF LiveInv, Wired, Up
  <2>8. Wired'
    <3>1. \A x \in Sockets : x # s => opener'[x] = opener[x] /\ wire'[x] \subseteq wire[x]
      BY <1>1, <2>1, <2>2
    <3>2. \A q \in Projects : pending'[q] = IF q = p THEN pending[q] \cup {s} ELSE pending[q]
      BY <1>1, <2>1
    <3>3. \A x \in Sockets : x \notin Up' => wire'[x] = {}
      BY <1>1, <2>1, <2>2, <2>7 DEF LiveInv, Wired, Up
    <3>7. opener'[s].project = p /\ attached' = attached
      BY <2>6
    <3>4. ASSUME NEW x \in Sockets, NEW q \in Projects
          PROVE  /\ x \in pending'[q] \cup attached'[q] => opener'[x].project = q
                 /\ x \in pending'[q] => x \notin attached'[q] /\ wire'[x] = {}
      <4>1. CASE x = s
        <5>1. x \notin attached'[q] /\ (x \in pending'[q] => q = p)
          BY <2>2, <3>2, <3>7, <4>1
        <5> QED BY <2>7, <3>7, <4>1, <5>1
      <4>2. CASE x # s
        <5>1. (x \in pending'[q] <=> x \in pending[q]) /\ (x \in attached'[q] <=> x \in attached[q])
          BY <3>2, <3>7, <4>2
        <5>2. opener'[x] = opener[x] /\ wire'[x] \subseteq wire[x]
          BY <3>1, <4>2
        <5> QED BY <5>1, <5>2 DEF LiveInv, Wired
      <4> QED BY <4>1, <4>2
    <3>6. \A x \in Sockets : \A a \in wire'[x] : Home[a] = opener'[x].project
      BY <2>7, <3>1 DEF LiveInv, Wired
    <3> QED BY <3>3, <3>4, <3>6 DEF Wired
  <2>9. OneStream' /\ NothingHandedIsLost'
    BY <1>3, <2>1, <2>6, <2>7 DEF OneStream, NothingHandedIsLost
  <2> QED BY <2>1, <2>5, <2>6, <2>8, <2>9
<1>5. CASE /\ socket' = NoSocket /\ timer' = [project |-> p, generation |-> g]
           /\ link' = HungUp
           /\ Fault
           /\ UNCHANGED <<opener, pending, handed>>
  <2>1. faults' \in 0 .. MaxFaults
    BY <1>1, <1>5, ChannelAssumption DEF Fault
  <2>2. link' \in [Sockets -> {"connecting", "open", "down", "gone"}]
    BY <1>1, <1>5
  <2>3. PageTypes' => LiveTypeOK'
    BY <1>2, <1>3, <1>5, <2>1, <2>2 DEF LiveInv, LiveTypeOK, PageTypes
  <2>4. Up' = {}
    BY <1>1, <1>5 DEF Up
  <2>5. Wired'
    BY <1>1, <1>5, <2>4 DEF LiveInv, Wired, Up
  <2>6. OneStream' /\ NothingHandedIsLost'
    BY <1>3, <1>5, <2>4 DEF OneStream, NothingHandedIsLost
  <2> QED BY <1>5, <2>3, <2>5, <2>6
<1> QED BY <1>4, <1>5 DEF NewSocket

(* What the operator does keeps the invariant.                             *)
LEMMA GesturesKeep ==
  ASSUME LiveInv,
         \/ ConnectWithoutToken \/ Disconnect
         \/ \E t \in Tasks : \/ Connect(t) \/ SubmitAgent(t)
                            \/ \E p \in Projects : ChangeProject(t, p)
  PROVE  LiveInv'
<1>1. /\ token \in BOOLEAN /\ disturbed \in BOOLEAN /\ gestures \in Nat
      /\ project \in Projects \cup {NoProject} /\ task \in [Tasks -> Works]
      /\ view \in [project : Projects \cup {NoProject}, agents : SUBSET Agents]
  BY ViewAssumption DEF LiveInv, LiveTypeOK
<1>2. /\ [at |-> "listing"] \in Works /\ Idle \in Works
      /\ \A q \in Projects : /\ [at |-> "loading", project |-> q, authorized |-> token] \in Works
                             /\ [at |-> "registering", project |-> q, authorized |-> token] \in Works
  BY <1>1 DEF Works, Idle
<1>3. gestures < MaxGestures /\ gestures' = gestures + 1 => gestures' \in 0 .. MaxGestures
  BY <1>1, ViewAssumption
<1>4. Gesture /\ ~disturbed' => ~disturbed /\ \A u \in Tasks : task[u] = Idle
  BY DEF Gesture
<1>5. Gesture => disturbed' \in BOOLEAN
  BY <1>1 DEF Gesture
<1>6. ASSUME NEW t \in Tasks, Connect(t) PROVE LiveInv'
  <2>1. PageTypes'
    BY <1>1, <1>2, <1>3, <1>5, <1>6 DEF Connect, Start, Gesture, PageTypes
  <2>2. Selected' /\ Answered'
    BY <1>1, <1>6, Closed DEF Connect, Start, Selected, Answered, LiveInv
  <2>3. Quiet' /\ ViewIsOfOneProject'
    BY <1>1, <1>4, <1>6, Closed DEF Connect, Start, Quiet, ViewIsOfOneProject, LiveInv, Idle
  <2> QED BY <1>6, <2>1, <2>2, <2>3, Closed DEF Connect, LiveInv
<1>7. CASE ConnectWithoutToken
  <2>1. PageTypes'
    BY <1>1, <1>3, <1>5, <1>7 DEF ConnectWithoutToken, Gesture, PageTypes
  <2>2. Selected' /\ Answered'
    BY <1>1, <1>7, Closed DEF ConnectWithoutToken, Selected, Answered, LiveInv
  <2>3. Quiet' /\ ViewIsOfOneProject'
    BY <1>1, <1>4, <1>7, Closed DEF ConnectWithoutToken, Quiet, ViewIsOfOneProject, LiveInv, Idle
  <2> QED BY <1>7, <2>1, <2>2, <2>3, Closed DEF ConnectWithoutToken, LiveInv
<1>8. ASSUME NEW t \in Tasks, NEW p \in Projects, ChangeProject(t, p) PROVE LiveInv'
  <2>1. PageTypes'
    BY <1>1, <1>2, <1>3, <1>5, <1>8 DEF ChangeProject, Start, Gesture, PageTypes
  <2>2. Selected' /\ Answered'
    BY <1>1, <1>8, Closed DEF ChangeProject, Start, Selected, Answered, LiveInv
  <2>3. Quiet' /\ ViewIsOfOneProject'
    BY <1>1, <1>4, <1>8, Closed DEF ChangeProject, Start, Quiet, ViewIsOfOneProject, LiveInv, Idle
  <2> QED BY <1>8, <2>1, <2>2, <2>3, Closed DEF ChangeProject, LiveInv
<1>9. ASSUME NEW t \in Tasks, SubmitAgent(t) PROVE LiveInv'
  <2>1. PageTypes'
    BY <1>1, <1>2, <1>3, <1>5, <1>9 DEF SubmitAgent, Start, Gesture, PageTypes
  <2>2. LiveTypeOK'
    BY <1>9, <2>1 DEF SubmitAgent, channel, stream, PageTypes, LiveTypeOK, LiveInv
  <2>3. Wired' /\ Selected' /\ Answered' /\ NothingHandedIsLost'
    BY <1>1, <1>9 DEF SubmitAgent, Start, channel, stream, Wired, Selected, Answered,
                      NothingHandedIsLost, LiveInv, Up
  <2>4. OneStream'
    BY <1>4, <1>9 DEF SubmitAgent, channel, stream, OneStream, LiveInv, Up
  <2>5. Quiet' /\ ViewIsOfOneProject'
    BY <1>1, <1>4, <1>9 DEF SubmitAgent, Start, channel, stream, Quiet, ViewIsOfOneProject, LiveInv, Idle
  <2> QED BY <2>2, <2>3, <2>4, <2>5 DEF LiveInv
<1>10. CASE Disconnect
  <2>1. LiveTypeOK'
    <3>1. task' \in [Tasks -> Works]
      BY <1>2, <1>10 DEF Disconnect
    <3>2. gestures' \in 0 .. MaxGestures
      BY <1>3, <1>10 DEF Disconnect
    <3> QED BY <1>10, <3>1, <3>2 DEF Disconnect, LiveInv, LiveTypeOK
  <2>2. Up' = {}
    BY <1>10 DEF Disconnect, Up
  <2>3. Wired' /\ Selected' /\ Answered'
    BY <1>10, <2>2 DEF Disconnect, LiveInv, Wired, Selected, Answered, Idle
  <2>4. Quiet' /\ OneStream' /\ NothingHandedIsLost' /\ ViewIsOfOneProject'
    BY <1>10, <2>2 DEF Disconnect, Quiet, OneStream, NothingHandedIsLost, ViewIsOfOneProject, Idle
  <2> QED BY <2>1, <2>3, <2>4 DEF LiveInv
<1> QED BY <1>6, <1>7, <1>8, <1>9, <1>10

-----------------------------------------------------------------------------
(* What the variables are worth to a task. *)
LEMMA TaskTypes ==
  ASSUME LiveInv, NEW t \in Tasks
  PROVE  /\ task[t] \in Works /\ task \in [Tasks -> Works]
         /\ task[t].at \in {"loading", "registering"} => task[t].project \in Projects
         /\ task[t].at = "loaded" => task[t].project \in Projects /\ task[t].agents \subseteq Agents
         /\ task[t].at = "registered" => task[t].agent \in Agents
         /\ token \in BOOLEAN /\ disturbed \in BOOLEAN /\ gestures \in 0 .. MaxGestures
         /\ project \in Projects \cup {NoProject}
         /\ view \in [project : Projects \cup {NoProject}, agents : SUBSET Agents]
         /\ Idle \in Works
<1>1. task \in [Tasks -> Works]
  BY DEF LiveInv, LiveTypeOK
<1>2. task[t] \in Works
  BY <1>1
<1>3. /\ task[t].at \in {"loading", "registering"} => task[t].project \in Projects
      /\ task[t].at = "loaded" => task[t].project \in Projects /\ task[t].agents \subseteq Agents
      /\ task[t].at = "registered" => task[t].agent \in Agents
  BY <1>2 DEF Works
<1>4. Idle \in Works
  BY DEF Idle, Works
<1> QED BY <1>1, <1>2, <1>3, <1>4 DEF LiveInv, LiveTypeOK

(* A task that reads or stores leaves the stream and the list alone.       *)
LEMMA AnswersKeep ==
  ASSUME LiveInv, NEW t \in Tasks,
         Listed(t) \/ Read(t) \/ TaskFails(t) \/ \E a \in Agents : StoreForm(t, a)
  PROVE  LiveInv'
<1> USE TaskTypes
<1>1. CASE Listed(t)
  <2>1. task'[t] = [at |-> "loading", project |-> Preferred, authorized |-> token]
        /\ \A u \in Tasks : u # t => task'[u] = task[u]
    BY <1>1 DEF Listed, Become
  <2>2. PageTypes'
    <3>1. [at |-> "loading", project |-> Preferred, authorized |-> token] \in Works
      BY ViewAssumption DEF Works
    <3> QED BY <1>1, <3>1, ViewAssumption DEF Listed, Become, PageTypes
  <2>3. LiveTypeOK'
    BY <1>1, <2>2 DEF Listed, channel, stream, PageTypes, LiveTypeOK, LiveInv
  <2>4. Wired' /\ Selected' /\ Answered' /\ NothingHandedIsLost' /\ OneStream'
    BY <1>1, <2>1, ViewAssumption DEF Listed, channel, stream, Wired, Selected, Answered,
                      NothingHandedIsLost, OneStream, LiveInv, Up
  <2>5. Quiet' /\ ViewIsOfOneProject'
    BY <1>1, <2>1, ViewAssumption DEF Listed, channel, stream, Quiet, ViewIsOfOneProject, LiveInv, Idle
  <2> QED BY <2>3, <2>4, <2>5 DEF LiveInv
<1>2. CASE Read(t)
  <2> DEFINE found == {a \in Agents : Home[a] = task[t].project /\ stage[a] # "none"}
  <2>1. task'[t] = [at |-> "loaded", project |-> task[t].project, agents |-> found]
        /\ \A u \in Tasks : u # t => task'[u] = task[u]
    BY <1>2 DEF Read, Become
  <2>2. found \subseteq Agents /\ \A a \in found : Home[a] = task[t].project
    OBVIOUS
  <2>3. task[t].at = "loading" /\ task[t].project \in Projects
    BY <1>2 DEF Read
  <2>4. task' = [task EXCEPT ![t] = [at |-> "loaded", project |-> task[t].project, agents |-> found]]
    BY <1>2 DEF Read, Become
  <2> HIDE DEF found
  <2>5. PageTypes'
    <3>1. [at |-> "loaded", project |-> task[t].project, agents |-> found] \in Works
      BY <2>2, <2>3 DEF Works
    <3> QED BY <1>2, <2>4, <3>1 DEF Read, Become, PageTypes
  <2>6. LiveTypeOK'
    BY <1>2, <2>5 DEF Read, channel, stream, PageTypes, LiveTypeOK, LiveInv
  <2>7. Wired' /\ Selected' /\ Answered' /\ NothingHandedIsLost' /\ OneStream'
    BY <1>2, <2>1, <2>2, <2>3 DEF Read, channel, stream, Wired, Selected, Answered,
                      NothingHandedIsLost, OneStream, LiveInv, Up
  <2>8. Quiet' /\ ViewIsOfOneProject'
    BY <1>2, <2>1, <2>3 DEF Read, channel, stream, Quiet, ViewIsOfOneProject, LiveInv, Idle
  <2> QED BY <2>6, <2>7, <2>8 DEF LiveInv
<1>3. CASE TaskFails(t)
  <2>1. PageTypes'
    BY <1>3 DEF TaskFails, Become, PageTypes
  <2>2. LiveTypeOK'
    BY <1>3, <2>1 DEF TaskFails, channel, stream, PageTypes, LiveTypeOK, LiveInv
  <2>3. Wired' /\ Selected' /\ Answered' /\ NothingHandedIsLost' /\ OneStream'
    BY <1>3 DEF TaskFails, Become, Idle, channel, stream, Wired, Selected, Answered,
                NothingHandedIsLost, OneStream, LiveInv, Up
  <2>4. Quiet' /\ ViewIsOfOneProject'
    BY <1>3 DEF TaskFails, Quiet, ViewIsOfOneProject
  <2> QED BY <2>2, <2>3, <2>4 DEF LiveInv
<1>4. ASSUME NEW a \in Agents, StoreForm(t, a) PROVE LiveInv'
  <2>1. task'[t] = [at |-> "registered", agent |-> a]
        /\ \A u \in Tasks : u # t => task'[u] = task[u]
    BY <1>4 DEF StoreForm, Become
  <2>2. PageTypes'
    <3>1. [at |-> "registered", agent |-> a] \in Works
      BY DEF Works
    <3> QED BY <1>4, <3>1 DEF StoreForm, Become, PageTypes
  <2>3. LiveTypeOK'
    BY <1>4, <2>2 DEF StoreForm, RegisterAgent, stream, PageTypes, LiveTypeOK, LiveInv
  <2>4. Wired' /\ Selected' /\ Answered' /\ NothingHandedIsLost' /\ OneStream'
    BY <1>4, <2>1 DEF StoreForm, RegisterAgent, stream, Wired, Selected, Answered,
                      NothingHandedIsLost, OneStream, LiveInv, Up
  <2>5. Quiet' /\ ViewIsOfOneProject'
    BY <1>4, <2>1 DEF StoreForm, stream, Quiet, ViewIsOfOneProject, LiveInv, Idle
  <2> QED BY <2>3, <2>4, <2>5 DEF LiveInv
<1> QED BY <1>1, <1>2, <1>3, <1>4

(* A task that ends with a new list, or with one more agent in it.         *)
LEMMA DrawingKeeps ==
  ASSUME LiveInv, NEW t \in Tasks, Render(t) \/ Registered(t)
  PROVE  LiveInv'
<1> USE TaskTypes
<1>1. CASE Render(t)
  <2>1. /\ task[t].at = "loaded" /\ project \in Projects /\ generation + 1 \in Nat
        /\ task'[t] = Idle /\ \A u \in Tasks : u # t => task'[u] = task[u]
        /\ UNCHANGED <<token, project, disturbed, gestures>>
        /\ view' = [project |-> task[t].project, agents |-> task[t].agents]
        /\ ConnectStream
    BY <1>1 DEF Render, Become, LiveInv, Selected, LiveTypeOK
  <2>2. PageTypes'
    BY <1>1, <2>1 DEF Render, Become, PageTypes
  <2>3. Answered'
    BY <2>1 DEF Answered, LiveInv, Idle
  <2>4. \A u \in Tasks : task'[u].at \notin {"idle", "listing"} => project' \in Projects
    BY <2>1
  <2>5. ~disturbed' => /\ \A u \in Tasks : task'[u] = Idle
                       /\ view'.project = project'
                       /\ \A a \in view'.agents : Home[a] = view'.project
    <3>1. ~disturbed => (\A u \in Tasks : u # t => task[u] = Idle) /\ task[t].project = project
      BY <2>1 DEF LiveInv, Quiet, Idle
    <3> QED BY <2>1, <3>1 DEF LiveInv, Answered
  <2>6. CASE token
    <3>1. /\ PageTypes' => LiveTypeOK'
          /\ Wired' /\ OneStream' /\ NothingHandedIsLost'
          /\ socket' # NoSocket => opener'[socket'].project = project
      BY <2>1, <2>6, Opened DEF ConnectStream
    <3>2. Selected' /\ Quiet' /\ ViewIsOfOneProject'
      BY <2>1, <2>4, <2>5, <2>6, <3>1 DEF Selected, Quiet, ViewIsOfOneProject, Idle
    <3> QED BY <2>2, <2>3, <3>1, <3>2 DEF LiveInv
  <2>7. CASE ~token
    <3>1. /\ PageTypes' => LiveTypeOK'
          /\ Wired' /\ OneStream' /\ NothingHandedIsLost'
          /\ socket' = NoSocket
      BY <2>1, <2>7, Closed DEF ConnectStream
    <3>2. Selected' /\ Quiet' /\ ViewIsOfOneProject'
      BY <2>4, <2>5, <3>1 DEF Selected, Quiet, ViewIsOfOneProject, Idle
    <3> QED BY <2>2, <2>3, <3>1, <3>2 DEF LiveInv
  <2> QED BY <2>6, <2>7
<1>2. CASE Registered(t)
  <2>1. /\ task[t].at = "registered" /\ task[t].agent \in Agents
        /\ task'[t] = Idle /\ \A u \in Tasks : u # t => task'[u] = task[u]
        /\ view' = [view EXCEPT !.agents = @ \cup {task[t].agent}]
    BY <1>2 DEF Registered, Become
  <2>2. view'.project = view.project /\ view'.agents = view.agents \cup {task[t].agent}
    BY <2>1
  <2>3. PageTypes'
    <3>1. view' \in [project : Projects \cup {NoProject}, agents : SUBSET Agents]
      BY <2>1
    <3> QED BY <1>2, <3>1 DEF Registered, Become, PageTypes
  <2>4. LiveTypeOK'
    BY <1>2, <2>3 DEF Registered, channel, stream, PageTypes, LiveTypeOK, LiveInv
  <2>5. Wired' /\ Selected' /\ Answered' /\ NothingHandedIsLost' /\ OneStream'
    BY <1>2, <2>1, <2>2 DEF Registered, channel, stream, Wired, Selected, Answered, Idle,
                      NothingHandedIsLost, OneStream, LiveInv, Up
  <2>6. ~disturbed => /\ \A u \in Tasks : u # t => task[u] = Idle
                      /\ Home[task[t].agent] = project
                      /\ view.project = project
    <3>1. ~disturbed => (\A u \in Tasks : u # t => task[u] = Idle)
      BY <2>1 DEF LiveInv, Quiet, Idle
    <3>2. ~disturbed => (\A u \in Tasks : task[u].at \in {"idle", "registering", "registered"})
      BY <2>1, <3>1 DEF Idle
    <3> QED BY <2>1, <3>1, <3>2 DEF LiveInv, Quiet
  <2>7. Quiet' /\ ViewIsOfOneProject'
    BY <1>2, <2>1, <2>2, <2>6 DEF Registered, channel, stream, Quiet, ViewIsOfOneProject, LiveInv, Idle
  <2> QED BY <2>4, <2>5, <2>7 DEF LiveInv
<1> QED BY <1>1, <1>2

-----------------------------------------------------------------------------
(* Opening, closing and reconnecting.                                      *)
LEMMA StreamKeeps ==
  ASSUME LiveInv, Stream
  PROVE  LiveInv'
<1>0. /\ link \in [Sockets -> {"connecting", "open", "down", "gone"}]
      /\ wire \in [Sockets -> SUBSET Agents] /\ handed \in [Sockets -> SUBSET Agents]
      /\ view \in [project : Projects \cup {NoProject}, agents : SUBSET Agents]
      /\ opener \in [Sockets -> [project : Projects \cup {NoProject}, generation : Nat]]
      /\ socket \in Sockets \cup {NoSocket} /\ NoSocket \notin Sockets
      /\ Up \subseteq {socket}
      /\ \A s \in Sockets : link[s] \in {"connecting", "open"} => s = socket /\ Current(s)
  BY ViewAssumption DEF LiveInv, LiveTypeOK, OneStream, Up, Current
<1>1. ASSUME NEW s \in Sockets, OpenEvent(s) PROVE LiveInv'
  <2>1. LiveTypeOK'
    BY <1>0, <1>1 DEF OpenEvent, page, LiveTypeOK, LiveInv
  <2>2. Up' = Up /\ s = socket
    BY <1>0, <1>1 DEF OpenEvent, Up
  <2>3. Wired' /\ Selected' /\ Answered' /\ NothingHandedIsLost' /\ OneStream'
    BY <1>0, <1>1, <2>2 DEF OpenEvent, page, Wired, Selected, Answered,
                      NothingHandedIsLost, OneStream, LiveInv
  <2>4. Quiet' /\ ViewIsOfOneProject'
    BY <1>1 DEF OpenEvent, page, Quiet, ViewIsOfOneProject, LiveInv
  <2> QED BY <2>1, <2>3, <2>4 DEF LiveInv
<1>2. ASSUME NEW s \in Sockets, MessageEvent(s) PROVE LiveInv'
  <2>1. s = socket /\ Current(s) /\ s \in Up
    BY <1>0, <1>2 DEF MessageEvent, Up
  <2>2. PICK a \in wire[s] : /\ wire' = [wire EXCEPT ![s] = @ \ {a}]
                             /\ view' = [view EXCEPT !.agents = @ \cup {a}]
    BY <1>2, <2>1 DEF MessageEvent
  <2>3. /\ a \in Agents /\ Home[a] = opener[s].project
        /\ view'.project = view.project /\ view'.agents = view.agents \cup {a}
        /\ wire'[s] = wire[s] \ {a} /\ \A x \in Sockets : wire'[x] \subseteq wire[x]
    BY <1>0, <2>2 DEF LiveInv, Wired
  <2>4. LiveTypeOK'
    <3>1. /\ view' \in [project : Projects \cup {NoProject}, agents : SUBSET Agents]
          /\ wire' \in [Sockets -> SUBSET Agents]
      BY <1>0, <2>2, <2>3
    <3> QED BY <1>2, <3>1 DEF MessageEvent, stream, LiveTypeOK, LiveInv
  <2>5. Wired' /\ Selected' /\ Answered' /\ OneStream'
    BY <1>2, <2>3 DEF MessageEvent, stream, Wired, Selected, Answered, OneStream, LiveInv, Up
  <2>6. NothingHandedIsLost'
    BY <1>2, <2>1, <2>3 DEF MessageEvent, stream, NothingHandedIsLost, LiveInv, Up
  <2>7. Quiet' /\ ViewIsOfOneProject'
    BY <1>0, <1>2, <2>1, <2>3 DEF MessageEvent, stream, Quiet, ViewIsOfOneProject, LiveInv
  <2> QED BY <2>4, <2>5, <2>6, <2>7 DEF LiveInv
<1>3. ASSUME NEW s \in Sockets, CloseEvent(s) PROVE LiveInv'
  <2>1. /\ link[s] = "down" /\ Up' = Up /\ s \notin Up
        /\ link' \in [Sockets -> {"connecting", "open", "down", "gone"}]
        /\ UNCHANGED <<pending, attached, wire, handed, opener, project, token, view, task,
                       disturbed, generation>>
    BY <1>0, <1>3 DEF CloseEvent, Up, page
  <2>2. CASE Current(s) /\ opener[s].project = project /\ token
    <3>1. /\ socket' = NoSocket /\ timer' = opener[s] /\ label' = "reconnecting" /\ s = socket
          /\ opener[s].generation = generation
      BY <1>3, <2>2 DEF CloseEvent, Current
    <3>2. opener[s] \in [project : Projects, generation : Nat]
      BY <1>0, <3>1 DEF LiveInv, Selected
    <3>3. LiveTypeOK'
      BY <1>3, <2>1, <3>1, <3>2 DEF CloseEvent, page, LiveTypeOK, LiveInv
    <3>4. OneStream' /\ NothingHandedIsLost'
      BY <1>0, <2>1, <3>1 DEF OneStream, NothingHandedIsLost, LiveInv
    <3>5. Wired' /\ Selected' /\ Answered' /\ ViewIsOfOneProject'
      BY <1>0, <2>1, <3>1 DEF Wired, Selected, Answered, ViewIsOfOneProject, LiveInv
    <3>6. Quiet'
      BY <1>0, <2>1, <3>1 DEF Quiet, LiveInv
    <3> QED BY <3>3, <3>4, <3>5, <3>6 DEF LiveInv
  <2>3. CASE ~(Current(s) /\ opener[s].project = project /\ token)
    <3>1. /\ socket' \in {socket, NoSocket} /\ timer' = timer
          /\ label' \in {label, "reconnecting"}
          /\ socket' # socket => Current(s) /\ s = socket
      BY <1>3, <2>3 DEF CloseEvent, Current
    <3>2. socket' # socket => disturbed \/ label' # "connected"
      BY <1>0, <2>3, <3>1 DEF LiveInv, Quiet
    <3>3. LiveTypeOK'
      BY <1>0, <1>3, <2>1, <3>1 DEF CloseEvent, page, LiveTypeOK, LiveInv
    <3>4. Up' \subseteq {socket'}
      BY <1>0, <2>1, <3>1
    <3>5. OneStream' /\ NothingHandedIsLost'
      BY <1>0, <2>1, <3>1, <3>2, <3>4 DEF OneStream, NothingHandedIsLost, LiveInv
    <3>6. Wired' /\ Selected' /\ Answered' /\ ViewIsOfOneProject'
      BY <1>0, <2>1, <3>1 DEF Wired, Selected, Answered, ViewIsOfOneProject, LiveInv
    <3>7. Quiet'
      BY <1>0, <2>1, <3>1 DEF Quiet, LiveInv
    <3> QED BY <3>3, <3>5, <3>6, <3>7 DEF LiveInv
  <2> QED BY <2>2, <2>3
<1>4. CASE TimerEvent
  <2>1. socket = NoSocket /\ UNCHANGED <<stage, attached, sockets, awake, wire, page>>
    BY <1>4 DEF TimerEvent, LiveInv, OneStream
  <2>2. CASE timer.generation = generation /\ timer.project = project /\ token
    <3>1. timer \in [project : Projects, generation : Nat]
      BY <1>4 DEF TimerEvent, LiveInv, LiveTypeOK
    <3>0. HungUp = link
      BY <1>0, <2>1 DEF HungUp
    <3>2. NewSocket(project, generation, HungUp) /\ generation' = generation
          /\ project \in Projects /\ generation \in Nat
      BY <1>4, <2>2, <3>0, <3>1 DEF TimerEvent
    <3>3. wire' = Silenced
      BY <1>0, <2>1 DEF Silenced
    <3>4. /\ PageTypes' => LiveTypeOK'
          /\ Wired' /\ OneStream' /\ NothingHandedIsLost'
          /\ socket' # NoSocket => opener'[socket'].project = project
      BY <2>1, <3>2, <3>3, Opened
    <3>5. PageTypes'
      BY <2>1 DEF page, PageTypes, LiveInv, LiveTypeOK
    <3>6. Selected' /\ Answered'
      BY <2>1, <3>2, <3>4 DEF page, Selected, Answered, LiveInv
    <3>7. ~disturbed => (\A t \in Tasks : task[t].at \notin {"listing", "loading", "loaded"})
      BY <1>4 DEF TimerEvent, LiveInv, Quiet
    <3>8. ~disturbed => view.project = project
      <4>1. \A t \in Tasks : task[t].at \in {"idle", "listing", "loading", "loaded", "registering", "registered"}
        BY DEF LiveInv, LiveTypeOK, Works
      <4> QED BY <3>7, <4>1 DEF LiveInv, Quiet
    <3>9. Quiet' /\ ViewIsOfOneProject'
      BY <2>1, <2>2, <3>4, <3>7, <3>8 DEF page, Quiet, ViewIsOfOneProject, LiveInv
    <3> QED BY <3>4, <3>5, <3>6, <3>9 DEF LiveInv
  <2>3. CASE ~(timer.generation = generation /\ timer.project = project /\ token)
    BY <1>4, <2>1, <2>3 DEF TimerEvent, page, LiveInv, LiveTypeOK, Wired, Selected, Answered, Quiet,
                  OneStream, NothingHandedIsLost, ViewIsOfOneProject, Up
  <2> QED BY <2>2, <2>3
<1> QED BY <1>1, <1>2, <1>3, <1>4 DEF Stream

-----------------------------------------------------------------------------
(* The conjunction is inductive, so it holds of every state of the page    *)
(* and the objects behind it.                                              *)
THEOREM LiveInvHolds == LiveSpec => []LiveInv
<1>1. LiveInv /\ [LiveNext]_vars => LiveInv'
  <2> SUFFICES ASSUME LiveInv, [LiveNext]_vars PROVE LiveInv'
    OBVIOUS
  <2>1. CASE ChannelNext /\ UNCHANGED <<stream, page>>
    BY <2>1, ChannelKeeps
  <2>2. CASE ConnectWithoutToken \/ Disconnect
    BY <2>2, GesturesKeep
  <2>3. ASSUME NEW t \in Tasks,
               \/ Connect(t) \/ SubmitAgent(t)
               \/ \E p \in Projects : ChangeProject(t, p)
        PROVE  LiveInv'
    BY <2>3, GesturesKeep
  <2>4. ASSUME NEW t \in Tasks, Task(t) \/ TaskFails(t) \/ \E a \in Agents : StoreForm(t, a)
        PROVE  LiveInv'
    BY <2>4, AnswersKeep, DrawingKeeps DEF Task
  <2>5. CASE Stream
    BY <2>5, StreamKeeps
  <2>6. CASE UNCHANGED vars
    BY <2>6 DEF vars, channel, stream, page, LiveInv, LiveTypeOK, Wired, Selected, Answered, Quiet,
                OneStream, NothingHandedIsLost, ViewIsOfOneProject, Up
  <2> QED BY <2>1, <2>2, <2>3, <2>4, <2>5, <2>6 DEF LiveNext
<1> QED BY <1>1, LiveInvInit, PTL DEF LiveSpec

(* Types, and that the object knows only sockets that are attached.        *)
THEOREM LiveTypesCorrect == LiveSpec => []LiveTypeOK
<1>1. LiveInv => LiveTypeOK
  BY DEF LiveInv
<1> QED BY <1>1, LiveInvHolds, PTL

(* The page listens to one stream at most, of the current generation.      *)
THEOREM OneStreamOnly == LiveSpec => []OneStream
<1>1. LiveInv => OneStream
  BY DEF LiveInv
<1> QED BY <1>1, LiveInvHolds, PTL

(* What the current stream was sent is listed, or still to arrive.         *)
THEOREM HandedIsListed == LiveSpec => []NothingHandedIsLost
<1>1. LiveInv => NothingHandedIsLost
  BY DEF LiveInv
<1> QED BY <1>1, LiveInvHolds, PTL

(* Undisturbed, the page shows the agents and the stream of one project.   *)
THEOREM OneProjectShown == LiveSpec => []ViewIsOfOneProject
<1>1. LiveInv => ViewIsOfOneProject
  BY DEF LiveInv
<1> QED BY <1>1, LiveInvHolds, PTL

(* A published event is sent to every attached socket that is up.  This    *)
(* rests on the object in memory knowing all that is attached: no handler  *)
(* forgets a socket that is up.                                            *)
Remembered ==
  \A p \in Projects : awake[p] => attached[p] \cap Up \subseteq sockets[p]

LEMMA RememberedKept == LiveInv /\ Remembered /\ [LiveNext]_vars => Remembered'
<1> SUFFICES ASSUME LiveInv, Remembered, [LiveNext]_vars PROVE Remembered'
  OBVIOUS
<1>0. /\ link \in [Sockets -> {"connecting", "open", "down", "gone"}]
      /\ attached \in [Projects -> SUBSET Sockets] /\ sockets \in [Projects -> SUBSET Sockets]
      /\ awake \in [Projects -> BOOLEAN]
  BY DEF LiveInv, LiveTypeOK
<1>1. ASSUME NEW p \in Projects
      PROVE  attached[p] \cap Up \subseteq Loaded(p) /\ Loaded(p) \subseteq attached[p]
  BY <1>0 DEF Remembered, Loaded, LiveInv, LiveTypeOK
<1>2. ASSUME UNCHANGED <<attached, sockets, awake>>,
             \A p \in Projects : attached[p] \cap Up' \subseteq Up
      PROVE  Remembered'
  BY <1>2 DEF Remembered
<1>3. CASE ChannelNext /\ UNCHANGED <<stream, page>>
  <2>1. ASSUME NEW a \in Agents, Publish(a) PROVE Remembered'
    <3>1. Home[a] \in Projects
      BY ChannelAssumption
    <3>2. PICK failed \in SUBSET (Loaded(Home[a]) \ Up) : Memory(Home[a], Loaded(Home[a]) \ failed)
      BY <2>1 DEF Publish
    <3>3. Up' = Up /\ attached' = attached
      BY <2>1 DEF Publish, Up
    <3> QED BY <1>0, <1>1, <3>1, <3>2, <3>3 DEF Remembered, Memory
  <2>2. ASSUME NEW s \in Sockets, NEW p \in Projects, Accept(s, p) PROVE Remembered'
    <3>1. Up' = Up
      BY <2>2 DEF Accept, Up
    <3> QED BY <1>0, <1>1, <2>2, <3>1 DEF Remembered, Memory, Accept
  <2>3. ASSUME NEW s \in Sockets, NEW p \in Projects, Detach(s, p) PROVE Remembered'
    <3>1. Up' = Up
      BY <2>3 DEF Detach, Up
    <3> QED BY <1>0, <1>1, <2>3, <3>1 DEF Remembered, Memory, Detach
  <2>4. ASSUME NEW p \in Projects, Hibernate(p) PROVE Remembered'
    <3>1. Up' = Up
      BY <2>4 DEF Hibernate, Up
    <3> QED BY <1>0, <2>4, <3>1 DEF Remembered, Hibernate
  <2>5. ASSUME NEW s \in Sockets, NEW p \in Projects, Refuse(s, p) \/ Drop(s) PROVE Remembered'
    BY <1>0, <1>2, <2>5 DEF Refuse, Drop, Up
  <2>6. ASSUME NEW s \in Sockets, Drop(s) PROVE Remembered'
    BY <1>0, <1>2, <2>6 DEF Drop, Up
  <2>7. ASSUME NEW a \in Agents, RegisterAgent(a) \/ LosePublication(a) PROVE Remembered'
    BY <1>2, <2>7 DEF RegisterAgent, LosePublication, Up
  <2> QED BY <1>3, <2>1, <2>2, <2>3, <2>4, <2>5, <2>6, <2>7 DEF ChannelNext
<1>4. ASSUME CloseStream PROVE Remembered'
  BY <1>0, <1>2, <1>4 DEF CloseStream, HungUp, Silenced, Up
<1>5. ASSUME NEW p, NEW g, NewSocket(p, g, HungUp) \/ NewSocket(p, g, link),
             UNCHANGED <<attached, sockets, awake>>
      PROVE  Remembered'
  <2>1. \A s \in Sockets : link'[s] \in {"connecting", "open"} => s \in Up \/ s \in Free
    BY <1>0, <1>5 DEF NewSocket, HungUp, Up
  <2> QED BY <1>2, <1>5, <2>1 DEF Up, Free
<1>6. CASE ConnectWithoutToken \/ Disconnect
  BY <1>2, <1>4, <1>6 DEF ConnectWithoutToken, Disconnect, Up
<1>7. ASSUME NEW t \in Tasks,
             \/ Connect(t) \/ SubmitAgent(t) \/ Task(t) \/ TaskFails(t)
             \/ \E p \in Projects : ChangeProject(t, p)
             \/ \E a \in Agents : StoreForm(t, a)
      PROVE  Remembered'
  <2>1. CASE Render(t)
    BY <1>4, <1>5, <2>1 DEF Render, ConnectStream
  <2>2. CASE Connect(t) \/ \E p \in Projects : ChangeProject(t, p)
    BY <1>4, <2>2 DEF Connect, ChangeProject
  <2>3. CASE \/ SubmitAgent(t) \/ Listed(t) \/ Read(t) \/ Registered(t) \/ TaskFails(t)
             \/ \E a \in Agents : StoreForm(t, a)
    BY <1>2, <2>3 DEF SubmitAgent, Listed, Read, Registered, TaskFails, StoreForm, RegisterAgent,
                      channel, Up
  <2> QED BY <1>7, <2>1, <2>2, <2>3 DEF Task
<1>8. CASE Stream
  <2>1. CASE TimerEvent
    BY <1>2, <1>5, <2>1 DEF TimerEvent, Up
  <2>2. ASSUME NEW s \in Sockets, OpenEvent(s) \/ MessageEvent(s) \/ CloseEvent(s)
        PROVE  Remembered'
    BY <1>0, <1>2, <2>2 DEF OpenEvent, MessageEvent, CloseEvent, Up
  <2> QED BY <1>8, <2>1, <2>2 DEF Stream
<1>9. CASE UNCHANGED vars
  BY <1>2, <1>9 DEF vars, channel, Up
<1> QED BY <1>3, <1>6, <1>7, <1>8, <1>9 DEF LiveNext

(* Nothing is on the wire before it is published, and only publishing puts *)
(* something there.                                                        *)
Unheard == \A s \in Sockets : \A a \in wire[s] : stage[a] = "published"

LEMMA OthersSendNothing ==
  ASSUME LiveInv, [LiveNext]_vars, ~\E a \in Agents : Publish(a)
  PROVE  /\ \A s \in Sockets : wire'[s] \subseteq wire[s]
         /\ \A a \in Agents : stage'[a] = "published" <=> stage[a] = "published"
<1>0. /\ wire \in [Sockets -> SUBSET Agents]
      /\ stage \in [Agents -> {"none", "stored", "published", "lost"}]
  BY DEF LiveInv, LiveTypeOK
<1>1. CASE UNCHANGED <<wire, stage>>
  BY <1>1
<1>2. ASSUME NEW a \in Agents, RegisterAgent(a) \/ LosePublication(a)
      PROVE  /\ wire' = wire
             /\ \A b \in Agents : stage'[b] = "published" <=> stage[b] = "published"
  BY <1>0, <1>2 DEF RegisterAgent, LosePublication
<1>3. CASE ChannelNext
  <2>1. CASE \E a \in Agents : RegisterAgent(a) \/ LosePublication(a)
    BY <1>2, <2>1
  <2>2. CASE \E s \in Sockets : Drop(s)
    BY <1>0, <2>2 DEF Drop
  <2>3. CASE \/ \E s \in Sockets, p \in Projects : Accept(s, p) \/ Refuse(s, p) \/ Detach(s, p)
             \/ \E p \in Projects : Hibernate(p)
    BY <1>1, <2>3 DEF Accept, Refuse, Detach, Hibernate
  <2> QED BY <1>3, <2>1, <2>2, <2>3 DEF ChannelNext
<1>4. CloseStream => (\A s \in Sockets : wire'[s] \subseteq wire[s]) /\ stage' = stage
  BY <1>0 DEF CloseStream, HungUp, Silenced
<1>5. ConnectStream => (\A s \in Sockets : wire'[s] \subseteq wire[s]) /\ stage' = stage
  BY <1>0, <1>4 DEF ConnectStream, Silenced
<1>6. CASE ConnectWithoutToken \/ Disconnect
  BY <1>0, <1>4, <1>6 DEF ConnectWithoutToken, Disconnect
<1>7. ASSUME NEW t \in Tasks,
             \/ Connect(t) \/ SubmitAgent(t) \/ Task(t) \/ TaskFails(t)
             \/ \E p \in Projects : ChangeProject(t, p)
             \/ \E a \in Agents : StoreForm(t, a)
      PROVE  /\ \A s \in Sockets : wire'[s] \subseteq wire[s]
             /\ \A a \in Agents : stage'[a] = "published" <=> stage[a] = "published"
  <2>1. CASE Render(t)
    BY <1>5, <2>1 DEF Render
  <2>2. CASE Connect(t) \/ \E p \in Projects : ChangeProject(t, p)
    BY <1>4, <2>2 DEF Connect, ChangeProject
  <2>3. CASE SubmitAgent(t) \/ Listed(t) \/ Read(t) \/ Registered(t) \/ TaskFails(t)
    BY <2>3 DEF SubmitAgent, Listed, Read, Registered, TaskFails, channel
  <2>4. CASE \E a \in Agents : StoreForm(t, a)
    BY <1>2, <2>4 DEF StoreForm
  <2> QED BY <1>7, <2>1, <2>2, <2>3, <2>4 DEF Task
<1>8. CASE Stream
  <2>1. CASE \E s \in Sockets : MessageEvent(s)
    BY <1>0, <2>1 DEF MessageEvent
  <2>2. CASE TimerEvent \/ \E s \in Sockets : OpenEvent(s) \/ CloseEvent(s)
    BY <1>1, <2>2 DEF TimerEvent, OpenEvent, CloseEvent
  <2> QED BY <1>8, <2>1, <2>2 DEF Stream
<1>9. CASE UNCHANGED vars
  BY <1>1, <1>9 DEF vars, channel
<1> QED BY <1>3, <1>6, <1>7, <1>8, <1>9 DEF LiveNext

LEMMA UnheardKept == LiveInv /\ Unheard /\ [LiveNext]_vars => Unheard'
<1> SUFFICES ASSUME LiveInv, Unheard, [LiveNext]_vars PROVE Unheard'
  OBVIOUS
<1>0. /\ wire \in [Sockets -> SUBSET Agents]
      /\ stage \in [Agents -> {"none", "stored", "published", "lost"}]
  BY DEF LiveInv, LiveTypeOK
<1>1. ASSUME NEW a \in Agents, Publish(a) PROVE Unheard'
  <2>1. \A s \in Sockets : wire'[s] \subseteq wire[s] \cup {a}
    BY <1>1 DEF Publish
  <2>2. stage' = [stage EXCEPT ![a] = "published"]
    BY <1>1 DEF Publish
  <2> QED BY <1>0, <2>1, <2>2 DEF Unheard
<1>2. CASE ~\E a \in Agents : Publish(a)
  BY <1>0, <1>2, OthersSendNothing DEF Unheard
<1> QED BY <1>1, <1>2

(* Hibernation, failed sends and closed sockets leave out nobody, and no   *)
(* socket of another project, or one no longer attached, hears of it.      *)
THEOREM FanOutComplete == LiveSpec => FanOutReachesAll
<1>1. LiveInit => Remembered /\ Unheard
  BY DEF LiveInit, ChannelInit, Remembered, Unheard
<1>2. LiveInv /\ Remembered /\ Unheard /\ [LiveNext]_vars =>
        [\A a \in Agents : stage[a] # "published" /\ stage'[a] = "published" =>
           {s \in Sockets : a \in wire'[s]} = attached[Home[a]] \cap Up]_channel
  <2> SUFFICES ASSUME LiveInv, Remembered, Unheard, [LiveNext]_vars,
                      NEW a \in Agents, stage[a] # "published", stage'[a] = "published"
               PROVE  {s \in Sockets : a \in wire'[s]} = attached[Home[a]] \cap Up
    OBVIOUS
  <2>1. PICK b \in Agents : Publish(b)
    BY OthersSendNothing
  <2>2. b = a
    <3>1. stage' = [stage EXCEPT ![b] = "published"]
      BY <2>1 DEF Publish
    <3> QED BY <3>1 DEF LiveInv, LiveTypeOK
  <2>3. Loaded(Home[a]) \cap Up = attached[Home[a]] \cap Up
    BY ChannelAssumption DEF Remembered, Loaded, LiveInv, LiveTypeOK
  <2>4. \A s \in Sockets : a \in wire'[s] <=> a \in wire[s] \/ s \in Loaded(Home[a]) \cap Up
    BY <2>1, <2>2 DEF Publish
  <2>5. \A s \in Sockets : a \notin wire[s]
    BY DEF Unheard
  <2>6. Up \subseteq Sockets
    BY DEF Up
  <2> QED BY <2>3, <2>4, <2>5, <2>6
<1> QED
  BY <1>1, <1>2, RememberedKept, UnheardKept, LiveInvHolds, PTL DEF LiveSpec, FanOutReachesAll
=============================================================================
