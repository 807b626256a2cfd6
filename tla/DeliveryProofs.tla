--------------------------- MODULE DeliveryProofs ---------------------------
(***************************************************************************)
(* End-to-end delivery, for any number of heartbeats, attempts, restarts   *)
(* and other agents, and whatever the network delays or loses.             *)
(*                                                                         *)
(* The Worker's half of the invariant is that of the heartbeat API as a    *)
(* whole, proved for any client: the connector only adds requests.  The    *)
(* connector's half counts what it sent; Traced, Reported, Ordered, Shown  *)
(* and Listed relate the two.                                              *)
(***************************************************************************)
EXTENDS Delivery, MachineProofs, LedgerProofs, FiniteSetTheorems

-----------------------------------------------------------------------------
(* The Worker's half. *)

Service == ChangeInv

LEMMA ServiceMeans ==
  ASSUME Service
  PROVE  /\ RowInv /\ Typing /\ TypeOK
         /\ RowsOwned /\ RowWritten /\ OneRowPerClaim /\ ReplaysHaveCause
         /\ Audited /\ HeartbeatAnnounced
BY DEF Service, ChangeInv, TrailInv, DurabilityInv, RowInv, Typing

LEMMA ServiceInit == DeliveryInit => Service
BY ChangeInit DEF DeliveryInit, Service

(* With a connector for its only client, the Worker still takes the steps  *)
(* it takes for any.                                                       *)
LEMMA DeliveryServes ==
  ASSUME sent \in Seq(Bodies), [DeliveryNext]_<<vars, conn>>
  PROVE  Serves
<1>1. ASSUME NEW r \in Requests, Deliver(r) PROVE Serves
  <2> DEFINE who == [credential |-> Agent, path |-> Agent]
  <2>1. Receive(r, who, sent[r]) /\ sent[r] \in Bodies
    BY <1>1 DEF Deliver
  <2>2. who \in Credentials
    BY DeliveryAssumption DEF Credentials
  <2> QED BY <2>1, <2>2 DEF Serves
<1>2. CASE Worker
  BY <1>2 DEF Worker, Serves
<1>3. CASE Process \/ Transmit \/ Reply \/ TimeOut \/ UNCHANGED <<vars, conn>>
  <2>1. UNCHANGED vars
    BY <1>3 DEF Process, Transmit, Reply, TimeOut
  <2> QED BY <2>1 DEF Serves
<1> QED BY <1>1, <1>2, <1>3 DEF DeliveryNext

LEMMA ServiceNext ==
  ASSUME Service, sent \in Seq(Bodies), [DeliveryNext]_<<vars, conn>>
  PROVE  Service'
BY DeliveryServes, ChangeNext DEF Service

(* What a step of the Worker does to the phases and the messages: only one *)
(* request moves, out of a phase that is not final.                        *)
Moves(r) ==
  /\ phase[r] \in {"unsent"} \cup Awaiting
  /\ phase'[r] \in Awaiting \cup Answers
  /\ \A s \in Requests : s # r => phase'[s] = phase[s]

LEMMA HandleMoves ==
  ASSUME TypeOK, NEW r \in Requests, Handle(r) \/ Fail(r)
  PROVE  Moves(r) /\ msg' = msg /\ phase[r] # "unsent" /\ clock' = clock
<1> USE DEF Moves, Awaiting, Answers
<1>1. /\ msg' = msg /\ clock' = clock
      /\ phase[r] \in Awaiting
      /\ \E to \in Awaiting \cup Answers : phase' = [phase EXCEPT ![r] = to]
  BY DEF Handle, Fail, AuthenticateAgent, ParseHeartbeat, ReadStatus, InsertHeartbeat,
     RejectReplay, UpdateMachine, RecordAudit, PublishHeartbeat, PublishStatusChange,
     Respond, Step
<1>2. PICK to \in Awaiting \cup Answers : phase' = [phase EXCEPT ![r] = to]
  BY <1>1
<1>3. phase'[r] = to /\ \A s \in Requests : s # r => phase'[s] = phase[s]
  BY <1>2 DEF TypeOK
<1> QED BY <1>1, <1>3

LEMMA ServiceReceives ==
  ASSUME TypeOK, sent \in Seq(Bodies), NEW r \in Requests, Deliver(r)
  PROVE  /\ Moves(r)
         /\ phase[r] = "unsent" /\ phase'[r] = "authenticate"
         /\ r \in DOMAIN sent
         /\ msg'[r] = [credential |-> Agent, path |-> Agent, body |-> sent[r]]
         /\ \A s \in Requests : s # r => msg'[s] = msg[s]
<1>1. Receive(r, [credential |-> Agent, path |-> Agent], sent[r]) /\ r \in DOMAIN sent
  BY DEF Deliver
<1>2. /\ phase[r] = "unsent" /\ phase'[r] = "authenticate"
      /\ Moves(r)
  BY <1>1 DEF TypeOK, Receive, Step, Moves, Awaiting
<1>3. /\ msg'[r] = [credential |-> Agent, path |-> Agent, body |-> sent[r]]
      /\ \A s \in Requests : s # r => msg'[s] = msg[s]
  BY <1>1 DEF TypeOK, Receive
<1> QED BY <1>1, <1>2, <1>3

-----------------------------------------------------------------------------
(* The connector's half. *)

Tries == MaxRetries + 1

InSendOnce == {"sending", "waiting", "backoff"}

(* ConnTypeOK, over the configurations of this composition.                *)
Shape ==
  /\ mode \in {"top", "sleeping", "exited"} \cup InSendOnce
  /\ config \in [status : Statuses, retries : {MaxRetries}, slices : {Slices}]
  /\ heartbeat \in {Conn!NoHeartbeat} \cup Bodies
  /\ attempt \in 0 .. Tries
  /\ slice \in 0 .. Slices - 1
  /\ stop \in BOOLEAN
  /\ exit \in {"running", "stopped", "transient", "fatal", "killed"}
  /\ delivered \subseteq Nonces
  /\ restarts \in 0 .. MaxRestarts

(* Where the process is tells what it has made and tried.                  *)
Progress ==
  /\ mode \in InSendOnce \cup {"sleeping"} => heartbeat \in Bodies
  /\ mode \in InSendOnce => attempt >= 1
  /\ mode = "backoff" => attempt < Tries
  /\ mode = "exited" <=> exit # "running"
  /\ exit = "transient" => heartbeat \in Bodies
  /\ heartbeat \in Bodies => heartbeat.seen <= clock
  /\ delivered \subseteq 1 .. heartbeat.nonce

(* The heartbeats of a process that was never restarted are delivered,     *)
(* but for the one it is at.                                               *)
InTurn ==
  restarts = 0 =>
    \A n \in 1 .. heartbeat.nonce :
      n \in delivered \/ (n = heartbeat.nonce /\ mode \notin {"top", "sleeping"})

Control == Shape /\ Progress /\ InTurn

Configurations == {[status |-> s, retries |-> MaxRetries, slices |-> Slices] : s \in Statuses}

LEMMA OneShape ==
  Configurations = [status : Statuses, retries : {MaxRetries}, slices : {Slices}]
<1>1. ASSUME NEW c \in Configurations
      PROVE  c \in [status : Statuses, retries : {MaxRetries}, slices : {Slices}]
  BY <1>1 DEF Configurations
<1>2. ASSUME NEW c \in [status : Statuses, retries : {MaxRetries}, slices : {Slices}]
      PROVE  c \in Configurations
  <2>1. c = [status |-> c.status, retries |-> MaxRetries, slices |-> Slices]
    OBVIOUS
  <2> QED BY <2>1 DEF Configurations
<1> QED BY <1>1, <1>2

LEMMA Constants ==
  /\ Tries \in Nat \ {0} /\ MaxBeats \in Nat /\ MaxRestarts \in Nat
  /\ Slices \in Nat \ {0}
  /\ Nonces = 1 .. MaxBeats
  /\ Requests = 1 .. MaxBeats * Tries
BY DeliveryAssumption DEF Tries

LEMMA HeartbeatNonce ==
  ASSUME Shape
  PROVE  /\ heartbeat.nonce \in 0 .. MaxBeats
         /\ heartbeat \in Bodies <=> heartbeat.nonce # 0
BY Constants DEF Shape, Bodies, Conn!NoHeartbeat

LEMMA ShapeIsTyped == Shape => ConnTypeOK
<1> SUFFICES ASSUME Shape PROVE ConnTypeOK
  OBVIOUS
<1>1. config \in Configurations
  BY OneShape DEF Shape
<1>2. config.retries = MaxRetries /\ config.slices = Slices
  BY DEF Shape
<1>3. ASSUME heartbeat \in Bodies
      PROVE  heartbeat \in [nonce : 1 .. MaxBeats, seen : Times,
                            status : {c.status : c \in Configurations}]
  <2>1. heartbeat.status \in {c.status : c \in Configurations}
    <3> DEFINE c == [status |-> heartbeat.status, retries |-> MaxRetries, slices |-> Slices]
    <3>1. heartbeat.status \in Statuses
      BY <1>3 DEF Bodies
    <3>2. c \in Configurations /\ c.status = heartbeat.status
      BY <3>1 DEF Configurations
    <3> QED BY <3>2
  <2> QED BY <1>3, <2>1, Constants DEF Bodies
<1> QED
  BY <1>1, <1>2, <1>3, Constants
     DEF Shape, ConnTypeOK, Conn!ConnTypeOK, Configurations, Tries, InSendOnce

LEMMA ControlInit == DeliveryInit => Control
<1> SUFFICES ASSUME DeliveryInit PROVE Control
  OBVIOUS
<1>1. config \in Configurations
  BY DEF DeliveryInit, Conn!ConnInit, Configurations
<1>2. Shape
  <2>1. config \in [status : Statuses, retries : {MaxRetries}, slices : {Slices}]
    BY <1>1, OneShape
  <2>2. 0 \in 0 .. Tries /\ 0 \in 0 .. Slices - 1 /\ 0 \in 0 .. MaxRestarts
    BY Constants
  <2> QED BY <2>1, <2>2 DEF DeliveryInit, Conn!ConnInit, Shape
<1>3. heartbeat.nonce = 0
  BY DEF DeliveryInit, Conn!ConnInit, Conn!NoHeartbeat
<1>4. heartbeat \notin Bodies
  BY <1>2, <1>3, HeartbeatNonce
<1>5. Progress
  BY <1>4 DEF DeliveryInit, Conn!ConnInit, Progress, InSendOnce
<1>6. InTurn
  BY <1>3 DEF InTurn
<1> QED BY <1>2, <1>5, <1>6 DEF Control

(* The steps of the process, and the answers it gets.                      *)
Connecting ==
  \/ Process \/ Transmit
  \/ \E result \in Conn!Results : Conn!Answer(result) /\ UNCHANGED <<vars, sent>>

LEMMA ControlStart ==
  ASSUME Control, Conn!StartHeartbeat(clock), UNCHANGED vars, clock \in Times
  PROVE  Control'
<1>0. Shape /\ Progress /\ InTurn
  BY DEF Control
<1>1. /\ mode = "top" /\ mode' = "sending" /\ attempt' = 1
      /\ heartbeat.nonce < MaxBeats
      /\ heartbeat' = [nonce |-> heartbeat.nonce + 1, seen |-> clock, status |-> config.status]
      /\ UNCHANGED <<config, slice, stop, exit, delivered, restarts, clock>>
  BY DEF Conn!StartHeartbeat, vars
<1>2. heartbeat.nonce \in 0 .. MaxBeats
  BY <1>0, HeartbeatNonce
<1>3. heartbeat' \in Bodies
  <2>1. config.status \in Statuses
    BY <1>0 DEF Shape
  <2> QED BY <1>1, <1>2, <2>1, Constants DEF Bodies
<1>4. Shape'
  BY <1>0, <1>1, <1>3, Constants DEF Shape, InSendOnce
<1>5. heartbeat'.nonce = heartbeat.nonce + 1 /\ heartbeat'.seen = clock
  BY <1>1
<1>6. clock \in Nat
  BY ConfigAssumption DEF Times
<1>7. Progress'
  BY <1>0, <1>1, <1>2, <1>3, <1>5, <1>6 DEF Progress, InSendOnce
<1>8. InTurn'
  BY <1>0, <1>1, <1>2, <1>5 DEF InTurn
<1> QED BY <1>4, <1>7, <1>8 DEF Control

LEMMA ControlRestart ==
  ASSUME Control, Conn!Restart, UNCHANGED vars
  PROVE  Control'
<1>0. Shape /\ Progress /\ InTurn
  BY DEF Control
<1>1. /\ mode' = "top" /\ exit' = "running" /\ attempt' = 0 /\ slice' = 0 /\ stop' = FALSE
      /\ restarts < MaxRestarts /\ restarts' = restarts + 1
      /\ UNCHANGED <<heartbeat, delivered, clock>>
  BY DEF Conn!Restart, vars
<1>2. config' \in [status : Statuses, retries : {MaxRetries}, slices : {Slices}]
  <2>1. config' \in Configurations
    BY DEF Conn!Restart, Configurations
  <2> QED BY <2>1, OneShape
<1>3. restarts' \in 0 .. MaxRestarts /\ restarts' # 0
  BY <1>0, <1>1, Constants DEF Shape
<1>4. 0 \in 0 .. Tries /\ 0 \in 0 .. Slices - 1
  BY Constants
<1>5. Shape'
  BY <1>0, <1>1, <1>2, <1>3, <1>4 DEF Shape
<1>6. Progress'
  BY <1>0, <1>1 DEF Progress, InSendOnce
<1>7. InTurn'
  BY <1>3 DEF InTurn
<1> QED BY <1>5, <1>6, <1>7 DEF Control

LEMMA ControlSleep ==
  ASSUME Control, Conn!Sleep, UNCHANGED vars
  PROVE  Control'
<1>0. Shape /\ Progress /\ InTurn
  BY DEF Control
<1>1. /\ mode = "sleeping" /\ mode' \in {"top", "sleeping"}
      /\ slice' = (slice + 1) % Slices
      /\ UNCHANGED <<config, heartbeat, attempt, stop, exit, delivered, restarts, clock>>
  BY <1>0 DEF Conn!Sleep, Conn!SleepSlice, vars, Shape
<1>2. slice' \in 0 .. Slices - 1
  <2>1. slice + 1 \in Nat
    BY <1>0, Constants DEF Shape
  <2> QED BY <1>1, <2>1, Constants
<1>3. Shape' /\ Progress' /\ InTurn'
  BY <1>0, <1>1, <1>2 DEF Shape, Progress, InTurn, InSendOnce
<1> QED BY <1>3 DEF Control

LEMMA ControlAnswer ==
  ASSUME Control, NEW result, Conn!Answer(result), UNCHANGED vars
  PROVE  Control'
<1>0. Shape /\ Progress /\ InTurn
  BY DEF Control
<1>1. /\ mode = "waiting" /\ clock' = clock
      /\ heartbeat \in Bodies
      /\ UNCHANGED <<config, heartbeat, attempt, stop, restarts>>
  BY <1>0 DEF Conn!Answer, Conn!Succeed, Conn!BackOff, Conn!GiveUp, Conn!Exit, vars,
     Progress, InSendOnce
<1>2. heartbeat.nonce \in Nonces /\ heartbeat.nonce \in 1 .. heartbeat.nonce
  BY <1>1, Constants DEF Bodies
<1>3. CASE Conn!Succeed
  <2>1. /\ mode' = "sleeping" /\ slice' = 0 /\ exit' = exit
        /\ delivered' = delivered \cup {heartbeat.nonce}
    BY <1>3 DEF Conn!Succeed
  <2>2. 0 \in 0 .. Slices - 1
    BY Constants
  <2>3. Shape'
    BY <1>0, <1>1, <1>2, <2>1, <2>2 DEF Shape
  <2>4. delivered' \subseteq 1 .. heartbeat'.nonce
    BY <1>0, <1>1, <1>2, <2>1 DEF Progress
  <2>5. Progress'
    BY <1>0, <1>1, <2>1, <2>4 DEF Progress, InSendOnce
  <2>6. InTurn'
    <3>1. ASSUME restarts = 0, NEW n \in 1 .. heartbeat.nonce
          PROVE  n \in delivered'
      BY <1>0, <2>1, <3>1 DEF InTurn
    <3>2. restarts' = restarts /\ heartbeat' = heartbeat
      BY <1>1
    <3>3. restarts = 0 => \A n \in 1 .. heartbeat.nonce : n \in delivered'
      BY <3>1
    <3> QED BY <3>2, <3>3, Zenon DEF InTurn
  <2> QED BY <2>3, <2>5, <2>6 DEF Control
<1>4. CASE Conn!BackOff(result)
  <2>1. /\ mode' = "backoff" /\ attempt < Tries
        /\ UNCHANGED <<slice, exit, delivered>>
    BY <1>0, <1>4 DEF Conn!BackOff, Conn!Attempts, Tries, Shape
  <2>2. Shape' /\ Progress' /\ InTurn'
    BY <1>0, <1>1, <2>1 DEF Shape, Progress, InTurn, InSendOnce
  <2> QED BY <2>2 DEF Control
<1>5. CASE Conn!GiveUp(result)
  <2>1. /\ mode' = "exited" /\ exit' \in {"fatal", "transient"}
        /\ UNCHANGED <<slice, delivered>>
    BY <1>5 DEF Conn!GiveUp, Conn!Exit
  <2>2. Shape' /\ Progress' /\ InTurn'
    BY <1>0, <1>1, <2>1 DEF Shape, Progress, InTurn, InSendOnce
  <2> QED BY <2>2 DEF Control
<1> QED BY <1>3, <1>4, <1>5 DEF Conn!Answer

LEMMA ControlConnects == Control /\ clock \in Times /\ Connecting => Control'
<1> SUFFICES ASSUME Control, clock \in Times, Connecting PROVE Control'
  OBVIOUS
<1>0. Shape /\ Progress /\ InTurn /\ UNCHANGED vars
  BY DEF Control, Connecting, Process, Transmit
<1>1. CASE Conn!StartHeartbeat(clock)
  BY <1>0, <1>1, ControlStart
<1>2. CASE Conn!Restart
  BY <1>0, <1>2, ControlRestart
<1>3. CASE Conn!Sleep
  BY <1>0, <1>3, ControlSleep
<1>4. ASSUME NEW result, Conn!Answer(result) PROVE Control'
  BY <1>0, <1>4, ControlAnswer
<1>5. CASE Conn!Retry
  <2>1. /\ mode = "backoff" /\ mode' = "sending" /\ attempt' = attempt + 1
        /\ UNCHANGED <<config, heartbeat, slice, stop, exit, delivered, restarts, clock>>
    BY <1>0, <1>5 DEF Conn!Retry, vars
  <2>2. attempt < Tries
    BY <1>0, <2>1 DEF Progress
  <2>3. Shape'
    BY <1>0, <2>1, <2>2, Constants DEF Shape, InSendOnce
  <2>4. Progress' /\ InTurn'
    BY <1>0, <2>1 DEF Shape, Progress, InTurn, InSendOnce
  <2> QED BY <2>3, <2>4 DEF Control
<1>6. CASE Conn!Kill
  <2>1. /\ mode' = "exited" /\ exit' = "killed"
        /\ UNCHANGED <<config, heartbeat, attempt, slice, stop, delivered, restarts, clock>>
    BY <1>0, <1>6 DEF Conn!Kill, Conn!Exit, vars
  <2>2. Shape' /\ Progress' /\ InTurn'
    BY <1>0, <2>1 DEF Shape, Progress, InTurn, InSendOnce
  <2> QED BY <2>2 DEF Control
<1>7. CASE Conn!Send
  <2>1. /\ mode = "sending" /\ mode' = "waiting"
        /\ UNCHANGED <<config, heartbeat, attempt, slice, stop, exit, delivered, restarts, clock>>
    BY <1>0, <1>7 DEF Conn!Send, vars
  <2>2. Shape' /\ Progress' /\ InTurn'
    BY <1>0, <2>1 DEF Shape, Progress, InTurn, InSendOnce
  <2> QED BY <2>2 DEF Control
<1> QED
  BY <1>1, <1>2, <1>3, <1>4, <1>5, <1>6, <1>7 DEF Connecting, Process, Transmit

LEMMA ControlUnmoved ==
  ASSUME Control, UNCHANGED conn, clock \in Nat, clock' \in Nat, clock' >= clock
  PROVE  Control'
<1>1. /\ UNCHANGED <<mode, config, heartbeat, attempt, slice, stop, exit, delivered, restarts>>
  BY DEF conn
<1>2. heartbeat \in Bodies => heartbeat.seen \in Nat
  BY ConfigAssumption DEF Bodies, Times
<1>3. Shape' /\ InTurn'
  BY <1>1 DEF Control, Shape, InTurn
<1>4. Progress'
  BY <1>1, <1>2 DEF Control, Progress
<1> QED BY <1>3, <1>4 DEF Control

-----------------------------------------------------------------------------
(* What was sent. *)

(* Every request carries a heartbeat made before or at the latest one, and *)
(* those with one nonce carry one heartbeat.                               *)
SentInOrder ==
  /\ sent \in Seq(Bodies)
  /\ sent # <<>> => heartbeat \in Bodies
  /\ mode = "waiting" => sent # <<>> /\ sent[Awaited] = heartbeat
  /\ \A i \in DOMAIN sent :
       /\ sent[i].nonce <= heartbeat.nonce
       /\ sent[i].seen <= heartbeat.seen
       /\ sent[i].nonce = heartbeat.nonce => sent[i] = heartbeat
  /\ \A i, j \in DOMAIN sent : sent[i].nonce = sent[j].nonce => sent[i] = sent[j]

(* attempt counts the requests of the latest heartbeat.                    *)
Counted ==
  \A n \in Nonces :
    /\ Cardinality(SentFor(n)) <= Tries
    /\ n = heartbeat.nonce =>
         /\ mode \in {"waiting", "backoff"} => Cardinality(SentFor(n)) = attempt
         /\ mode = "sending" => Cardinality(SentFor(n)) = attempt - 1
         /\ exit = "transient" => Cardinality(SentFor(n)) = Tries

(* There is a request of the Worker for each.                              *)
Fits ==
  /\ Len(sent) <= heartbeat.nonce * Tries
  /\ mode = "sending" => Len(sent) <= (heartbeat.nonce - 1) * Tries + (attempt - 1)
  /\ mode \in {"waiting", "backoff"} => Len(sent) <= (heartbeat.nonce - 1) * Tries + attempt

Sending == SentInOrder /\ Counted /\ Fits

LEMMA SentForFinite ==
  ASSUME SentInOrder, NEW n
  PROVE  IsFiniteSet(SentFor(n)) /\ Cardinality(SentFor(n)) \in Nat
<1>1. SentFor(n) \in SUBSET (1 .. Len(sent)) /\ Len(sent) \in Nat
  BY DEF SentFor, SentInOrder
<1>2. IsFiniteSet(1 .. Len(sent))
  BY <1>1, FS_Interval
<1>3. IsFiniteSet(SentFor(n))
  BY <1>1, <1>2, FS_Subset
<1> QED BY <1>3, FS_CardinalityType

LEMMA SendingInit == DeliveryInit => Sending
<1> SUFFICES ASSUME DeliveryInit PROVE Sending
  OBVIOUS
<1>1. sent = <<>> /\ mode = "top" /\ exit = "running" /\ heartbeat.nonce = 0
  BY DEF DeliveryInit, Conn!ConnInit, Conn!NoHeartbeat
<1>2. \A n : SentFor(n) = {}
  BY <1>1 DEF SentFor
<1>3. Counted
  BY <1>1, <1>2, FS_EmptySet, Constants DEF Counted
<1>4. SentInOrder
  BY <1>1 DEF SentInOrder
<1>5. Fits
  <2>1. Len(sent) = 0 /\ heartbeat.nonce * Tries = 0
    BY <1>1, Constants
  <2> QED BY <1>1, <2>1 DEF Fits
<1> QED BY <1>3, <1>4, <1>5 DEF Sending

LEMMA Products ==
  ASSUME NEW n \in Nat, NEW k \in Nat
  PROVE  n * k \in Nat /\ (n + 1) * k = n * k + k
OBVIOUS

LEMMA ProductGrows ==
  ASSUME NEW n \in Nat, NEW m \in Nat, n <= m, NEW k \in Nat
  PROVE  n * k <= m * k
OBVIOUS

(* A step of the process other than sending.                               *)
LEMMA SendingStart ==
  ASSUME Control, Sending, Conn!StartHeartbeat(clock), UNCHANGED sent, clock \in Times
  PROVE  Sending'
<1>0. Shape /\ Progress /\ SentInOrder /\ Counted /\ Fits
  BY DEF Control, Sending
<1>1. /\ mode = "top" /\ mode' = "sending" /\ attempt' = 1 /\ exit' = exit
      /\ heartbeat.nonce < MaxBeats
      /\ heartbeat' = [nonce |-> heartbeat.nonce + 1, seen |-> clock, status |-> config.status]
      /\ sent' = sent
  BY DEF Conn!StartHeartbeat
<1>2. heartbeat.nonce \in 0 .. MaxBeats /\ heartbeat.nonce \in Nat
  BY <1>0, HeartbeatNonce
<1>3. /\ heartbeat'.nonce = heartbeat.nonce + 1 /\ heartbeat'.seen = clock
      /\ heartbeat' \in Bodies
  <2>1. config.status \in Statuses
    BY <1>0 DEF Shape
  <2> QED BY <1>1, <1>2, <2>1, Constants DEF Bodies
<1>4. ASSUME NEW i \in DOMAIN sent
      PROVE  /\ sent[i].nonce \in Nat /\ sent[i].nonce <= heartbeat.nonce
             /\ sent[i].seen <= clock
  <2>1. sent[i] \in Bodies /\ heartbeat \in Bodies
    BY <1>0 DEF SentInOrder
  <2>2. heartbeat.seen <= clock /\ sent[i].seen <= heartbeat.seen
    BY <1>0, <2>1 DEF Progress, SentInOrder
  <2>3. heartbeat.seen \in Nat /\ sent[i].seen \in Nat /\ clock \in Nat
    BY <2>1, ConfigAssumption DEF Bodies, Times
  <2>4. sent[i].seen <= clock
    BY <2>2, <2>3
  <2>5. sent[i].nonce \in Nat
    BY <2>1, Constants DEF Bodies
  <2> QED BY <1>0, <2>4, <2>5 DEF SentInOrder
<1>5. SentInOrder'
  <2>1. ASSUME NEW i \in DOMAIN sent
        PROVE  /\ sent[i].nonce <= heartbeat'.nonce /\ sent[i].seen <= heartbeat'.seen
               /\ sent[i].nonce # heartbeat'.nonce
    BY <1>2, <1>3, <1>4
  <2> QED BY <1>0, <1>1, <1>3, <2>1 DEF SentInOrder
<1>6. SentFor(heartbeat'.nonce) = {}
  BY <1>2, <1>3, <1>4 DEF SentFor
<1>7. \A n : SentFor(n)' = SentFor(n)
  BY <1>1 DEF SentFor
<1>8. Counted'
  <2>1. exit' # "transient"
    BY <1>0, <1>1 DEF Progress
  <2>2. \A n \in Nonces : n = heartbeat'.nonce => Cardinality(SentFor(n)) = 0
    BY <1>6, FS_EmptySet
  <2> QED BY <1>0, <1>1, <1>7, <2>1, <2>2 DEF Counted
<1>9. Fits'
  <2>1. Len(sent) <= heartbeat.nonce * Tries /\ Len(sent) \in Nat
    BY <1>0 DEF Fits, SentInOrder
  <2>2. /\ heartbeat.nonce * Tries \in Nat
        /\ (heartbeat.nonce + 1) * Tries = heartbeat.nonce * Tries + Tries
    BY <1>2, Constants, Products
  <2>3. heartbeat'.nonce - 1 = heartbeat.nonce
    BY <1>2, <1>3
  <2>4. Len(sent) <= (heartbeat.nonce + 1) * Tries
    BY <2>1, <2>2, Constants
  <2>5. Len(sent') <= heartbeat'.nonce * Tries
    BY <1>1, <1>3, <2>4
  <2>6. Len(sent') <= (heartbeat'.nonce - 1) * Tries + (attempt' - 1)
    BY <1>1, <2>1, <2>2, <2>3
  <2> QED BY <1>1, <2>5, <2>6 DEF Fits
<1> QED BY <1>5, <1>8, <1>9 DEF Sending

(* Retrying, answering and exiting leave the requests and their heartbeat. *)
LEMMA SendingStays ==
  ASSUME Control, Sending, UNCHANGED <<sent, heartbeat>>,
         mode' # "waiting",
         mode' = "backoff" => mode = "waiting" /\ attempt' = attempt,
         mode' = "sending" => mode = "backoff" /\ attempt' = attempt + 1,
         exit' = "transient" => \/ exit = "transient"
                                \/ mode = "waiting" /\ attempt = Tries
  PROVE  Sending'
<1>0. Shape /\ Progress /\ SentInOrder /\ Counted /\ Fits
  BY DEF Control, Sending
<1>1. \A n : SentFor(n)' = SentFor(n)
  BY DEF SentFor
<1>2. /\ sent' = sent /\ heartbeat' = heartbeat
      /\ mode' = "sending" => attempt' - 1 = attempt
  BY <1>0 DEF Shape
<1>3. Counted'
  <2>1. ASSUME NEW n \in Nonces
        PROVE  /\ Cardinality(SentFor(n)) <= Tries
               /\ n = heartbeat.nonce =>
                    /\ mode' = "backoff" => Cardinality(SentFor(n)) = attempt'
                    /\ mode' = "sending" => Cardinality(SentFor(n)) = attempt' - 1
                    /\ exit' = "transient" => Cardinality(SentFor(n)) = Tries
    BY <1>0, <1>2 DEF Counted
  <2> QED BY <1>1, <1>2, <2>1 DEF Counted
<1>4. SentInOrder'
  BY <1>0 DEF SentInOrder
<1>5. Fits'
  <2> DEFINE before == (heartbeat.nonce - 1) * Tries
  <2>1. /\ mode' = "sending" => Len(sent) <= before + (attempt' - 1)
        /\ mode' = "backoff" => Len(sent) <= before + attempt'
    <3> HIDE DEF before
    <3>1. mode \in {"waiting", "backoff"} => Len(sent) <= before + attempt
      BY <1>0 DEF Fits, before
    <3> QED BY <1>2, <3>1
  <2> QED BY <1>0, <1>2, <2>1 DEF Fits
<1> QED BY <1>3, <1>4, <1>5 DEF Sending

LEMMA SendingTransmits ==
  ASSUME Control, Sending, Transmit
  PROVE  Sending'
<1>0. Shape /\ Progress /\ SentInOrder /\ Counted /\ Fits
  BY DEF Control, Sending
<1> DEFINE next == Len(sent) + 1
<1>1. /\ mode = "sending" /\ mode' = "waiting"
      /\ UNCHANGED <<heartbeat, attempt, exit>>
      /\ sent' = Append(sent, heartbeat)
  BY DEF Transmit, Conn!Send
<1>2. heartbeat \in Bodies /\ attempt \in 1 .. Tries /\ exit # "transient"
  BY <1>0, <1>1 DEF Progress, Shape, InSendOnce
<1>3. heartbeat.nonce \in Nonces /\ heartbeat.nonce \in Nat \ {0} /\ heartbeat.seen \in Nat
  BY <1>2, Constants, ConfigAssumption DEF Bodies, Times
<1>4. /\ sent \in Seq(Bodies) /\ sent' \in Seq(Bodies)
      /\ next \in Nat \ {0} /\ Len(sent') = next
      /\ DOMAIN sent = 1 .. Len(sent) /\ DOMAIN sent' = (DOMAIN sent) \cup {next}
      /\ next \notin DOMAIN sent
      /\ sent'[next] = heartbeat
      /\ \A i \in DOMAIN sent : sent'[i] = sent[i]
  BY <1>0, <1>1, <1>2 DEF SentInOrder
<1>5. SentInOrder'
  <2> HIDE DEF next
  <2>1. sent' # <<>> /\ Awaited' = next
    BY <1>4 DEF next, Awaited
  <2>2. \A i \in DOMAIN sent' : /\ sent'[i].nonce <= heartbeat.nonce
                                /\ sent'[i].seen <= heartbeat.seen
                                /\ sent'[i].nonce = heartbeat.nonce => sent'[i] = heartbeat
    BY <1>0, <1>3, <1>4 DEF SentInOrder
  <2>3. \A i, j \in DOMAIN sent' : sent'[i].nonce = sent'[j].nonce => sent'[i] = sent'[j]
    BY <1>0, <1>4, <2>2 DEF SentInOrder
  <2> QED BY <1>1, <1>2, <1>4, <2>1, <2>2, <2>3 DEF SentInOrder
<1>6. Counted'
  <2>1. ASSUME NEW n \in Nonces
        PROVE  /\ Cardinality(SentFor(n)') <= Tries
               /\ n = heartbeat.nonce => Cardinality(SentFor(n)') = attempt
    <3> HIDE DEF next
    <3>1. IsFiniteSet(SentFor(n)) /\ next \notin SentFor(n)
      BY <1>0, <1>4, SentForFinite DEF SentFor
    <3>2. CASE n = heartbeat.nonce
      <4>1. SentFor(n)' = SentFor(n) \cup {next}
        BY <1>4, <3>2 DEF SentFor
      <4>2. Cardinality(SentFor(n)') = Cardinality(SentFor(n)) + 1
        BY <3>1, <4>1, FS_AddElement
      <4>3. Cardinality(SentFor(n)) = attempt - 1
        BY <1>0, <1>1, <3>2 DEF Counted
      <4> QED BY <1>2, <4>2, <4>3, Constants
    <3>3. CASE n # heartbeat.nonce
      <4>1. SentFor(n)' = SentFor(n)
        BY <1>4, <3>3 DEF SentFor
      <4> QED BY <1>0, <3>3, <4>1 DEF Counted
    <3> QED BY <3>2, <3>3
  <2>2. mode' = "waiting" /\ exit' # "transient" /\ attempt' = attempt /\ heartbeat' = heartbeat
    BY <1>1, <1>2
  <2> QED BY <2>1, <2>2 DEF Counted
<1>7. Fits'
  <2> DEFINE m == heartbeat.nonce - 1
             before == m * Tries
  <2>1. m \in Nat /\ heartbeat.nonce = m + 1
    BY <1>3
  <2>2. before \in Nat /\ (m + 1) * Tries = before + Tries
    BY <2>1, Constants, Products
  <2>3. Len(sent) <= before + (attempt - 1)
    BY <1>0, <1>1 DEF Fits
  <2>4. Len(sent') <= before + attempt
    <3> HIDE DEF before
    <3> QED BY <1>2, <1>4, <2>2, <2>3, Constants
  <2>5. Len(sent') <= heartbeat.nonce * Tries
    <3> HIDE DEF before, m
    <3>1. Len(sent') <= before + Tries
      BY <1>2, <1>4, <2>2, <2>4, Constants
    <3> QED BY <2>1, <2>2, <3>1
  <2> QED BY <1>1, <2>4, <2>5 DEF Fits
<1> QED BY <1>5, <1>6, <1>7 DEF Sending

LEMMA SendingConnects == Control /\ Sending /\ clock \in Times /\ Connecting => Sending'
<1> SUFFICES ASSUME Control, Sending, clock \in Times, Connecting PROVE Sending'
  OBVIOUS
<1>0. Shape /\ Progress
  BY DEF Control
<1>1. CASE Transmit
  BY <1>1, SendingTransmits
<1>2. CASE Conn!StartHeartbeat(clock) /\ UNCHANGED sent
  BY <1>2, SendingStart
<1>3. CASE (Conn!Retry \/ Conn!Sleep \/ Conn!Kill \/ Conn!Restart) /\ UNCHANGED sent
  BY <1>0, <1>3, SendingStays
     DEF Conn!Retry, Conn!Sleep, Conn!SleepSlice, Conn!Kill, Conn!Restart, Conn!Exit, Progress
<1>4. ASSUME NEW result, Conn!Answer(result), UNCHANGED sent PROVE Sending'
  <2>1. config.retries + 1 = Tries
    BY <1>0 DEF Shape, Tries
  <2> QED
    BY <1>0, <1>4, <2>1, SendingStays
       DEF Conn!Answer, Conn!Succeed, Conn!BackOff, Conn!GiveUp, Conn!Exit, Conn!Attempts, Progress
<1> QED BY <1>1, <1>2, <1>3, <1>4 DEF Connecting, Process

LEMMA SendingUnmoved == Sending /\ UNCHANGED conn => Sending'
<1> SUFFICES ASSUME Sending, UNCHANGED conn PROVE Sending'
  OBVIOUS
<1>1. UNCHANGED <<mode, heartbeat, attempt, exit, sent>>
  BY DEF conn
<1>2. \A n : SentFor(n)' = SentFor(n)
  BY <1>1 DEF SentFor
<1> QED BY <1>1, <1>2 DEF Sending, SentInOrder, Counted, Fits, Awaited

(* The request the process waits for is one the Worker may receive.        *)
LEMMA AwaitedIsRequest ==
  ASSUME Control, Sending, mode = "waiting"
  PROVE  Awaited \in Requests /\ Awaited \in DOMAIN sent /\ sent[Awaited] = heartbeat
<1>1. /\ sent \in Seq(Bodies) /\ sent # <<>> /\ sent[Awaited] = heartbeat
      /\ Len(sent) <= heartbeat.nonce * Tries
  BY DEF Sending, SentInOrder, Fits
<1>2. Len(sent) \in Nat \ {0} /\ Len(sent) \in DOMAIN sent
  BY <1>1
<1>3. heartbeat.nonce \in Nat /\ heartbeat.nonce <= MaxBeats
  BY HeartbeatNonce, Constants DEF Control
<1>4. heartbeat.nonce * Tries <= MaxBeats * Tries
  BY <1>3, ProductGrows, Constants
<1>5. heartbeat.nonce * Tries \in Nat /\ MaxBeats * Tries \in Nat
  BY <1>3, Products, Constants
<1>6. Len(sent) \in 1 .. MaxBeats * Tries
  BY <1>1, <1>2, <1>4, <1>5
<1> QED BY <1>1, <1>2, <1>6, Constants DEF Awaited

-----------------------------------------------------------------------------
(* The two halves together. *)

(* What has reached the Worker is what was sent.                           *)
Traced ==
  \A r \in Requests : phase[r] # "unsent" =>
    /\ r \in DOMAIN sent
    /\ msg[r] = [credential |-> Agent, path |-> Agent, body |-> sent[r]]

(* What was reported delivered was answered 202.                           *)
Reported ==
  \A n \in delivered : \E i \in Requests :
    i \in DOMAIN sent /\ sent[i].nonce = n /\ phase[i] = "accepted"

(* The machine shows nothing newer than the latest heartbeat.              *)
Ordered ==
  machines[Agent].seen # Never =>
    heartbeat \in Bodies /\ machines[Agent].seen <= heartbeat.seen

(* Past its UPDATE a request of the latest heartbeat has left that on the  *)
(* machine, if the connector was never restarted.                          *)
Shown ==
  restarts = 0 =>
    \A r \in Requests :
      phase[r] \in {"audit"} \cup Auditing /\ sent[r].nonce = heartbeat.nonce =>
        machines[Agent] = [status |-> heartbeat.status, seen |-> heartbeat.seen]

(* The channel of the agent's project has heard of its heartbeats in the   *)
(* order in which they were made, if the connector was never restarted.    *)
Listed ==
  restarts = 0 =>
    \A i, j \in DOMAIN Live :
      i <= j => sent[Live[i].heartbeat].nonce <= sent[Live[j].heartbeat].nonce

Relation == Traced /\ Reported /\ Ordered /\ Shown /\ Listed

Delivering == Service /\ Control /\ Sending /\ Relation

LEMMA DeliveringInit == DeliveryInit => Delivering
<1> SUFFICES ASSUME DeliveryInit PROVE Delivering
  OBVIOUS
<1>1. /\ \A r \in Requests : phase[r] = "unsent"
      /\ delivered = {}
      /\ machines[Agent].seen = Never
      /\ Live = <<>>
  BY DeliveryAssumption, ConfigAssumption DEF DeliveryInit, Init, Conn!ConnInit, Live
<1>2. Relation
  BY <1>1 DEF Relation, Traced, Reported, Ordered, Shown, Listed, Auditing, Announcing
<1> QED BY <1>2, ServiceInit, ControlInit, SendingInit DEF Delivering

(* An answered request stays answered.                                     *)
LEMMA ReportedStays ==
  ASSUME Reported, NEW r \in Requests, Moves(r), UNCHANGED <<sent, delivered>>
  PROVE  Reported'
<1>1. \A i \in Requests : phase[i] = "accepted" => phase'[i] = "accepted"
  BY DEF Moves, Awaiting
<1> QED BY <1>1 DEF Reported

LEMMA RelationReceives ==
  ASSUME Delivering, NEW r \in Requests, Deliver(r)
  PROVE  Relation'
<1>1. /\ Traced /\ Reported /\ Ordered /\ Shown
      /\ TypeOK /\ sent \in Seq(Bodies)
      /\ UNCHANGED <<sent, delivered, heartbeat, restarts, machines>>
  BY ServiceMeans DEF Delivering, Relation, Sending, SentInOrder, Deliver, conn, Receive
<1>2. /\ Moves(r) /\ phase'[r] = "authenticate"
      /\ r \in DOMAIN sent
      /\ msg'[r] = [credential |-> Agent, path |-> Agent, body |-> sent[r]]
      /\ \A s \in Requests : s # r => msg'[s] = msg[s]
  BY <1>1, ServiceReceives
<1>3. Traced'
  BY <1>1, <1>2 DEF Traced, Moves
<1>4. Reported'
  BY <1>1, <1>2, ReportedStays
<1>5. Ordered'
  BY <1>1 DEF Ordered
<1>6. Shown'
  BY <1>1, <1>2 DEF Shown, Moves, Auditing, Announcing
<1>7. Listed'
  <2>1. channel' = channel
    BY DEF Deliver, Receive
  <2> QED BY <1>1, <2>1 DEF Delivering, Relation, Listed, Live
<1> QED BY <1>3, <1>4, <1>5, <1>6, <1>7 DEF Relation

LEMMA TracedRow ==
  ASSUME Traced, NEW r \in Requests, phase[r] # "unsent"
  PROVE  /\ r \in DOMAIN sent /\ AgentOf(r) = Agent /\ msg[r].body = sent[r]
         /\ Row(r).id = r /\ Row(r).agent = Agent /\ Row(r).nonce = sent[r].nonce
<1>1. r \in DOMAIN sent /\ msg[r] = [credential |-> Agent, path |-> Agent, body |-> sent[r]]
  BY DEF Traced
<1>2. AgentOf(r) = Agent /\ msg[r].body = sent[r]
  BY <1>1 DEF AgentOf
<1> QED BY <1>1, <1>2 DEF Row

(* The only heartbeat an UPDATE can write is one that was sent.            *)
LEMMA UpdatesAreSent ==
  ASSUME Delivering, NEW r \in Requests, UpdateMachine(r)
  PROVE  /\ phase[r] = "update" /\ r \in DOMAIN sent /\ sent[r] \in Bodies
         /\ machines'[Agent] = [status |-> sent[r].status, seen |-> sent[r].seen]
         /\ Row(r) \in heartbeats /\ AgentOf(r) = Agent /\ Row(r).nonce = sent[r].nonce
<1>1. /\ phase[r] = "update"
      /\ machines' = [machines EXCEPT ![AgentOf(r)] = Latest(msg[r].body)]
  BY DEF UpdateMachine, Step
<1>2. r \in DOMAIN sent /\ msg[r] = [credential |-> Agent, path |-> Agent, body |-> sent[r]]
  BY <1>1 DEF Delivering, Relation, Traced
<1>3. AgentOf(r) = Agent /\ Row(r).nonce = sent[r].nonce
  BY <1>2 DEF AgentOf, Row
<1>4. Row(r) \in heartbeats
  BY <1>1, ServiceMeans DEF Delivering, RowWritten, Storing
<1>5. machines'[Agent] = [status |-> sent[r].status, seen |-> sent[r].seen]
  BY <1>1, <1>2, <1>3, DeliveryAssumption, ServiceMeans DEF Delivering, TypeOK, Latest
<1>6. sent[r] \in Bodies
  BY <1>2 DEF Delivering, Sending, SentInOrder
<1> QED BY <1>1, <1>2, <1>3, <1>4, <1>5, <1>6

(* Without a restart, a handler past its INSERT and not yet done works on  *)
(* the latest heartbeat: the others are reported, and whoever was told 202 *)
(* for one has its only row.                                               *)
LEMMA UnansweredIsLatest ==
  ASSUME Delivering, NEW r \in Requests, phase[r] \in Recorded, restarts = 0
  PROVE  /\ r \in DOMAIN sent /\ sent[r] = heartbeat /\ heartbeat \in Bodies
         /\ AgentOf(r) = Agent
<1>0. /\ Reported /\ Traced /\ InTurn /\ SentInOrder /\ Shape
      /\ RowWritten /\ OneRowPerClaim
  BY ServiceMeans DEF Delivering, Relation, Sending, Control
<1>1. /\ r \in DOMAIN sent /\ sent[r] \in Bodies
      /\ Row(r) \in heartbeats /\ AgentOf(r) = Agent /\ Row(r).nonce = sent[r].nonce
  BY <1>0, TracedRow DEF RowWritten, SentInOrder, Recorded, Storing, Auditing, Announcing
<1>2. sent[r].nonce \in 1 .. heartbeat.nonce
  BY <1>0, <1>1, HeartbeatNonce, Constants DEF SentInOrder, Bodies
<1>3. sent[r].nonce \notin delivered
  <2> SUFFICES ASSUME sent[r].nonce \in delivered PROVE FALSE
    OBVIOUS
  <2>1. PICK i \in Requests :
          i \in DOMAIN sent /\ sent[i].nonce = sent[r].nonce /\ phase[i] = "accepted"
    BY <1>0 DEF Reported
  <2>2. Row(i) \in heartbeats /\ AgentOf(i) = Agent /\ Row(i).nonce = sent[i].nonce
    BY <1>0, <2>1, TracedRow DEF RowWritten, Storing, Auditing, Announcing
  <2>3. Row(i).agent = Agent /\ Row(r).agent = Agent /\ Row(i).id = i /\ Row(r).id = r
    BY <1>1, <2>2 DEF Row
  <2>4. Row(i) = Row(r)
    BY <1>0, <1>1, <2>1, <2>2, <2>3 DEF OneRowPerClaim
  <2> QED BY <2>1, <2>3, <2>4 DEF Recorded
<1>4. sent[r].nonce = heartbeat.nonce
  BY <1>0, <1>2, <1>3 DEF InTurn
<1>5. sent[r] = heartbeat
  BY <1>0, <1>1, <1>4 DEF SentInOrder
<1> QED BY <1>1, <1>5

LEMMA UpdatesAreLatest ==
  ASSUME Delivering, NEW r \in Requests, UpdateMachine(r), restarts = 0
  PROVE  /\ r \in DOMAIN sent /\ sent[r] = heartbeat /\ heartbeat \in Bodies
         /\ machines'[Agent] = [status |-> heartbeat.status, seen |-> heartbeat.seen]
BY UpdatesAreSent, UnansweredIsLatest DEF Recorded

(* Whatever the channel of the agent's project carries came of a request   *)
(* of the connector, and repeats what that request carried.                *)
LEMMA LiveIsSent ==
  ASSUME Delivering, NEW i \in DOMAIN Live
  PROVE  /\ Live[i].heartbeat \in DOMAIN sent
         /\ Live[i].seen = sent[Live[i].heartbeat].seen
         /\ Live[i].status = sent[Live[i].heartbeat].status
<1>1. /\ EventOrigins /\ DurableBeforeLive /\ RowsOwned /\ Traced
      /\ ProjectOf[Agent] \in Projects
  BY DeliveryAssumption, ConfigAssumption
     DEF Delivering, Service, ChangeInv, TrailInv, DurabilityInv, RowInv, Relation
<1> DEFINE r == Live[i].heartbeat
<1>2. r \in Requests /\ phase[r] # "unsent"
  BY <1>1 DEF EventOrigins, Live, Since, Announcing, Stopped
<1>3. r \in DOMAIN sent /\ msg[r].body = sent[r]
  BY <1>1, <1>2, TracedRow
<1>4. PICK h \in heartbeats : h.id = r /\ h.seen = Live[i].seen /\ h.status = Live[i].status
  BY <1>1 DEF DurableBeforeLive, Live
<1>5. h = Row(r)
  BY <1>1, <1>4 DEF RowsOwned
<1>6. Row(r).seen = msg[r].body.seen /\ Row(r).status = msg[r].body.status
  BY DEF Row
<1> QED BY <1>3, <1>4, <1>5, <1>6

LEMMA ListedPublishes ==
  ASSUME Delivering, NEW r \in Requests, NEW e, phase[r] \in Recorded,
         Publish(r, e), e.heartbeat = r, UNCHANGED <<sent, restarts>>
  PROVE  Listed'
<1> SUFFICES ASSUME restarts = 0 PROVE \A i, j \in DOMAIN Live' :
                 i <= j => sent[Live'[i].heartbeat].nonce <= sent[Live'[j].heartbeat].nonce
  BY DEF Listed
<1>1. /\ Listed /\ SentInOrder /\ TypeOK /\ Shape
      /\ ProjectOf[Agent] \in Projects
  BY ServiceMeans, DeliveryAssumption, ConfigAssumption DEF Delivering, Relation, Sending, Control
<1>2. r \in DOMAIN sent /\ sent[r] = heartbeat /\ AgentOf(r) = Agent
  BY UnansweredIsLatest
<1> DEFINE n == Len(Live) + 1
<1>3. /\ Live \in Seq(Events) /\ Live' = Append(Live, e)
  BY <1>1, <1>2 DEF TypeOK, Publish, Live
<1>4. /\ DOMAIN Live' = 1 .. n /\ DOMAIN Live = 1 .. n - 1 /\ n \in Nat /\ Live'[n] = e
      /\ \A i \in DOMAIN Live : Live'[i] = Live[i]
  BY <1>3
<1>5. ASSUME NEW i \in DOMAIN Live'
      PROVE  /\ Live'[i].heartbeat \in DOMAIN sent
             /\ sent[Live'[i].heartbeat].nonce <= heartbeat.nonce
  <2>1. CASE i = n
    BY <1>2, <1>4, <2>1, <1>1 DEF SentInOrder
  <2>2. CASE i \in DOMAIN Live
    BY <1>1, <1>4, <2>2, LiveIsSent DEF SentInOrder
  <2> QED BY <1>4, <1>5, <2>1, <2>2
<1>6. SUFFICES ASSUME NEW i \in DOMAIN Live', NEW j \in DOMAIN Live', i <= j
               PROVE  sent[Live'[i].heartbeat].nonce <= sent[Live'[j].heartbeat].nonce
  OBVIOUS
<1>7. CASE j = n
  BY <1>2, <1>4, <1>5, <1>7
<1>8. CASE j # n
  <2>1. i \in DOMAIN Live /\ j \in DOMAIN Live
    BY <1>4, <1>6, <1>8
  <2> QED BY <1>1, <1>4, <1>6, <2>1 DEF Listed
<1> QED BY <1>7, <1>8

LEMMA RelationHandles ==
  ASSUME Delivering, Worker
  PROVE  Relation'
<1>1. /\ Traced /\ Reported /\ Ordered /\ Shown /\ Listed /\ TypeOK
      /\ UNCHANGED <<sent, delivered, heartbeat, restarts>>
  BY ServiceMeans DEF Delivering, Relation, Worker, conn
<1>2. ASSUME NEW r \in Requests, Handle(r) \/ Fail(r) PROVE Relation'
  <2>1. Moves(r) /\ msg' = msg /\ phase[r] # "unsent"
    BY <1>1, <1>2, HandleMoves
  <2>2. Traced'
    BY <1>1, <2>1 DEF Traced, Moves
  <2>3. Reported'
    BY <1>1, <2>1, ReportedStays
  <2>4. Listed'
    <3>1. CASE PublishHeartbeat(r)
      <4>1. /\ phase[r] \in Recorded /\ Publish(r, HeartbeatEvent(r))
            /\ HeartbeatEvent(r).heartbeat = r
        BY <3>1 DEF PublishHeartbeat, Step, Recorded, HeartbeatEvent
      <4> QED BY <1>1, <4>1, ListedPublishes
    <3>2. CASE PublishStatusChange(r)
      <4>1. /\ phase[r] \in Recorded /\ Publish(r, StatusEvent(r))
            /\ StatusEvent(r).heartbeat = r
        BY <3>2 DEF PublishStatusChange, Step, Recorded, StatusEvent
      <4> QED BY <1>1, <4>1, ListedPublishes
    <3>3. CASE ~PublishHeartbeat(r) /\ ~PublishStatusChange(r)
      <4>1. channel' = channel
        BY <1>2, <3>3 DEF Handle, Fail, AuthenticateAgent, ParseHeartbeat, ReadStatus,
           InsertHeartbeat, RejectReplay, UpdateMachine, RecordAudit, Respond
      <4> QED BY <1>1, <4>1 DEF Listed, Live
    <3> QED BY <3>1, <3>2, <3>3
  <2>5. CASE UpdateMachine(r)
    <3>1. /\ r \in DOMAIN sent /\ sent[r] \in Bodies
          /\ machines'[Agent] = [status |-> sent[r].status, seen |-> sent[r].seen]
      BY <2>5, UpdatesAreSent
    <3>2. sent[r].seen <= heartbeat.seen /\ heartbeat \in Bodies
      BY <3>1 DEF Delivering, Sending, SentInOrder
    <3>3. Ordered'
      BY <1>1, <3>1, <3>2 DEF Ordered
    <3>4. restarts = 0 => machines'[Agent] = [status |-> heartbeat.status,
                                              seen   |-> heartbeat.seen]
      BY <2>5, UpdatesAreLatest
    <3>5. Shown'
      BY <1>1, <3>4 DEF Shown
    <3> QED BY <2>2, <2>3, <2>4, <3>3, <3>5 DEF Relation
  <2>6. CASE ~UpdateMachine(r)
    <3>1. machines' = machines
      BY <1>2, <2>6 DEF Handle, Fail, AuthenticateAgent, ParseHeartbeat, ReadStatus,
         InsertHeartbeat, RejectReplay, RecordAudit, PublishHeartbeat, PublishStatusChange,
         Respond
    <3>2. Ordered'
      BY <1>1, <3>1 DEF Ordered
    <3>3. phase'[r] \in {"audit"} \cup Auditing => phase[r] \in {"audit"} \cup Auditing
      BY <1>1, <1>2, <2>6 DEF Handle, Fail, AuthenticateAgent, ParseHeartbeat, ReadStatus,
         InsertHeartbeat, RejectReplay, RecordAudit, PublishHeartbeat, PublishStatusChange,
         Respond, Step, TypeOK, Auditing, Announcing
    <3>4. Shown'
      BY <1>1, <2>1, <3>1, <3>3 DEF Shown, Moves
    <3> QED BY <2>2, <2>3, <2>4, <3>2, <3>4 DEF Relation
  <2> QED BY <2>5, <2>6
<1>3. CASE Tick
  BY <1>1, <1>3 DEF Tick, Relation, Traced, Reported, Ordered, Shown, Listed, Live
<1> QED BY <1>2, <1>3 DEF Worker

(* What the process itself does.  Only a 202 makes it report a delivery.   *)
LEMMA RelationConnects ==
  ASSUME Delivering, Process \/ Transmit \/ Reply \/ TimeOut
  PROVE  Relation'
<1>1. /\ Traced /\ Reported /\ Ordered /\ Shown /\ TypeOK
      /\ sent \in Seq(Bodies)
      /\ UNCHANGED <<phase, msg, machines, clock>>
  BY ServiceMeans
     DEF Delivering, Relation, Sending, SentInOrder, Process, Transmit, Reply, TimeOut, vars
<1>2. \A i \in DOMAIN sent : i \in DOMAIN sent' /\ sent'[i] = sent[i]
  <2>1. CASE Transmit
    <3>1. sent' = Append(sent, heartbeat) /\ heartbeat \in Bodies
      BY <2>1 DEF Transmit, Conn!Send, Delivering, Control, Progress, InSendOnce
    <3> QED BY <1>1, <3>1
  <2>2. CASE sent' = sent
    BY <2>2
  <2> QED BY <2>1, <2>2 DEF Process, Reply, TimeOut
<1>3. Traced'
  BY <1>1, <1>2 DEF Traced
<1>4. Reported'
  <2>1. CASE delivered' = delivered
    BY <1>1, <1>2, <2>1 DEF Reported
  <2>2. CASE Reply /\ Conn!Succeed
    <3>1. /\ mode = "waiting" /\ phase[Awaited] = "accepted"
          /\ delivered' = delivered \cup {heartbeat.nonce}
      <4>1. Classify(phase[Awaited]) = "accepted"
        BY <2>2 DEF Reply, Conn!Answer, Conn!Succeed, Conn!BackOff, Conn!GiveUp, Conn!Exit
      <4> QED BY <2>2, <4>1 DEF Reply, Classify, Conn!Succeed
    <3>2. Awaited \in Requests /\ Awaited \in DOMAIN sent /\ sent[Awaited] = heartbeat
      BY <3>1, AwaitedIsRequest DEF Delivering
    <3> QED BY <1>1, <1>2, <3>1, <3>2 DEF Reported
  <2>3. delivered' = delivered \/ (Reply /\ Conn!Succeed)
    BY DEF Process, Transmit, Reply, TimeOut, Conn!StartHeartbeat, Conn!Retry, Conn!Sleep,
       Conn!SleepSlice, Conn!Kill, Conn!Restart, Conn!Send, Conn!Answer, Conn!BackOff, Conn!GiveUp,
       Conn!Succeed, Conn!Exit
  <2> QED BY <2>1, <2>2, <2>3
<1>5. Ordered'
  <2>1. CASE heartbeat' = heartbeat
    BY <1>1, <2>1 DEF Ordered
  <2>2. CASE Conn!StartHeartbeat(clock)
    <3>2. /\ heartbeat' = [nonce |-> heartbeat.nonce + 1, seen |-> clock, status |-> config.status]
          /\ heartbeat.nonce < MaxBeats
      BY <2>2 DEF Conn!StartHeartbeat
    <3>3. heartbeat.nonce \in 0 .. MaxBeats /\ config.status \in Statuses
      BY HeartbeatNonce DEF Delivering, Control, Shape
    <3>4. heartbeat' \in Bodies /\ heartbeat'.seen = clock
      BY <1>1, <3>2, <3>3, Constants DEF Bodies, TypeOK
    <3>5. ASSUME machines[Agent].seen # Never PROVE machines[Agent].seen <= clock
      <4>1. heartbeat \in Bodies /\ machines[Agent].seen <= heartbeat.seen /\ heartbeat.seen <= clock
        BY <1>1, <3>5 DEF Ordered, Delivering, Control, Progress
      <4>2. machines[Agent].seen \in Nat /\ heartbeat.seen \in Nat /\ clock \in Nat
        BY <1>1, <4>1, DeliveryAssumption, ConfigAssumption
           DEF TypeOK, Bodies, Times, Never
      <4> QED BY <4>1, <4>2
    <3> QED BY <1>1, <3>4, <3>5 DEF Ordered
  <2>3. heartbeat' = heartbeat \/ Conn!StartHeartbeat(clock)
    BY DEF Process, Transmit, Reply, TimeOut, Conn!Retry, Conn!Sleep,
       Conn!SleepSlice, Conn!Kill, Conn!Restart, Conn!Send, Conn!Answer, Conn!BackOff, Conn!GiveUp,
       Conn!Succeed, Conn!Exit
  <2> QED BY <2>1, <2>2, <2>3
<1>6. Shown'
  <2> SUFFICES ASSUME restarts' = 0, NEW r \in Requests,
                      phase[r] \in {"audit"} \cup Auditing,
                      sent'[r].nonce = heartbeat'.nonce
               PROVE  machines[Agent] = [status |-> heartbeat'.status, seen |-> heartbeat'.seen]
    BY <1>1 DEF Shown
  <2>1. r \in DOMAIN sent /\ sent'[r] = sent[r]
    BY <1>1, <1>2 DEF Traced, Auditing, Announcing
  <2>2. restarts = 0
    BY DEF Process, Transmit, Reply, TimeOut, Conn!StartHeartbeat, Conn!Retry, Conn!Sleep,
       Conn!SleepSlice, Conn!Kill, Conn!Restart, Conn!Send, Conn!Answer, Conn!BackOff,
       Conn!GiveUp, Conn!Succeed, Conn!Exit, Delivering, Control, Shape
  <2>3. CASE heartbeat' = heartbeat
    BY <2>1, <2>2, <2>3, <1>1 DEF Shown
  <2>4. CASE Conn!StartHeartbeat(clock)
    <3>1. heartbeat'.nonce = heartbeat.nonce + 1
      BY <2>4 DEF Conn!StartHeartbeat
    <3>2. /\ sent[r].nonce <= heartbeat.nonce /\ sent[r] \in Bodies
          /\ heartbeat.nonce \in Nat
      BY <2>1, HeartbeatNonce DEF Delivering, Sending, SentInOrder, Control
    <3>3. sent[r].nonce \in Nat
      BY <3>2, Constants DEF Bodies
    <3> QED BY <2>1, <3>1, <3>2, <3>3
  <2>5. heartbeat' = heartbeat \/ Conn!StartHeartbeat(clock)
    BY DEF Process, Transmit, Reply, TimeOut, Conn!Retry, Conn!Sleep,
       Conn!SleepSlice, Conn!Kill, Conn!Restart, Conn!Send, Conn!Answer, Conn!BackOff, Conn!GiveUp,
       Conn!Succeed, Conn!Exit
  <2> QED BY <2>3, <2>4, <2>5
<1>7. Listed'
  <2> SUFFICES ASSUME restarts' = 0, NEW i \in DOMAIN Live, NEW j \in DOMAIN Live, i <= j
               PROVE  sent'[Live[i].heartbeat].nonce <= sent'[Live[j].heartbeat].nonce
    <3>1. Live' = Live
      BY DEF Process, Transmit, Reply, TimeOut, vars, Live
    <3> QED BY <3>1 DEF Listed
  <2>1. restarts = 0
    BY DEF Process, Transmit, Reply, TimeOut, Conn!StartHeartbeat, Conn!Retry, Conn!Sleep,
       Conn!SleepSlice, Conn!Kill, Conn!Restart, Conn!Send, Conn!Answer, Conn!BackOff,
       Conn!GiveUp, Conn!Succeed, Conn!Exit, Delivering, Control, Shape
  <2>2. Live[i].heartbeat \in DOMAIN sent /\ Live[j].heartbeat \in DOMAIN sent
    BY LiveIsSent
  <2> QED BY <1>2, <2>1, <2>2 DEF Delivering, Relation, Listed
<1> QED BY <1>3, <1>4, <1>5, <1>6, <1>7 DEF Relation

LEMMA DeliveringNext == Delivering /\ [DeliveryNext]_<<vars, conn>> => Delivering'
<1> SUFFICES ASSUME Delivering, [DeliveryNext]_<<vars, conn>> PROVE Delivering'
  OBVIOUS
<1>0. /\ Service /\ Control /\ Sending /\ Relation /\ TypeOK
      /\ sent \in Seq(Bodies) /\ clock \in Times /\ clock \in Nat
  BY ServiceMeans, ConfigAssumption DEF Delivering, Sending, SentInOrder, TypeOK, Times
<1>1. Service'
  BY <1>0, ServiceNext
<1>2. CASE Process \/ Transmit \/ Reply \/ TimeOut
  <2>1. Connecting
    BY <1>2 DEF Connecting, Reply, TimeOut, Conn!Results, Classify
  <2> QED
    BY <1>0, <1>1, <1>2, <2>1, ControlConnects, SendingConnects, RelationConnects DEF Delivering
<1>3. ASSUME NEW r \in Requests, Deliver(r) PROVE Delivering'
  <2>1. UNCHANGED conn /\ clock' = clock
    BY <1>3 DEF Deliver, Receive
  <2> QED
    BY <1>0, <1>1, <1>3, <2>1, ControlUnmoved, SendingUnmoved, RelationReceives DEF Delivering
<1>4. CASE Worker
  <2>1. UNCHANGED conn
    BY <1>4 DEF Worker
  <2>2. clock' \in Nat /\ clock' >= clock
    <3>1. CASE clock' = clock
      BY <1>0, <3>1
    <3>2. CASE Tick
      BY <1>0, <3>2 DEF Tick
    <3> QED BY <1>0, <1>4, <3>1, <3>2, HandleMoves DEF Worker
  <2> QED
    BY <1>0, <1>1, <1>4, <2>1, <2>2, ControlUnmoved, SendingUnmoved, RelationHandles
       DEF Delivering
<1>5. CASE UNCHANGED <<vars, conn>>
  <2>1. Control' /\ Sending'
    BY <1>0, <1>5, ControlUnmoved, SendingUnmoved DEF vars
  <2>2. Relation'
    BY <1>0, <1>5 DEF Relation, Traced, Reported, Ordered, Shown, Listed, Live, vars, conn
  <2> QED BY <1>1, <2>1, <2>2 DEF Delivering
<1> QED BY <1>2, <1>3, <1>4, <1>5 DEF DeliveryNext

-----------------------------------------------------------------------------
(* The invariant, from which the rest follows: that of the Worker, the     *)
(* connector's counters, what was sent, and how the two relate.            *)
THEOREM DeliveringHolds == DeliverySpec => []Delivering
<1> QED BY DeliveringInit, DeliveringNext, PTL DEF DeliverySpec

(* The connector's control state stays in its bounds with the Worker       *)
(* answering it, for every number of retries, slices and restarts.         *)
THEOREM ConnTypesCorrect == DeliverySpec => []ConnTypeOK
<1>1. Delivering => ConnTypeOK
  BY ShapeIsTyped DEF Delivering, Control
<1> QED BY <1>1, DeliveringHolds, PTL

(* No heartbeat is sent more than max_retries + 1 times over all restarts, *)
(* and giving up means that every attempt was made.                        *)
THEOREM AttemptsAreBounded == DeliverySpec => []AttemptsBounded
<1>1. Delivering => AttemptsBounded
  <2> SUFFICES ASSUME Delivering PROVE AttemptsBounded
    OBVIOUS
  <2>1. Counted /\ Progress
    BY DEF Delivering, Sending, Control
  <2>2. exit = "transient" => heartbeat.nonce \in Nonces
    BY <2>1 DEF Progress, Bodies
  <2> QED BY <2>1, <2>2 DEF AttemptsBounded, Counted, Tries
<1> QED BY <1>1, DeliveringHolds, PTL

(* A heartbeat reported delivered has exactly one row, with the time and   *)
(* status it was made with, an audit event and a live event, however many  *)
(* of its attempts timed out, were overtaken or failed.                    *)
THEOREM DeliveredExactlyOnce == DeliverySpec => []DeliveredOnce
<1>1. Delivering => DeliveredOnce
  <2> SUFFICES ASSUME Delivering, NEW n \in delivered
               PROVE  \E i \in DOMAIN sent : \E h \in heartbeats :
                        /\ RowsFor(n) = {h}
                        /\ [nonce |-> h.nonce, seen |-> h.seen, status |-> h.status] = sent[i]
                        /\ \E a \in audits : a.heartbeat = h.id
                        /\ Announces(HeartbeatEvent(h.id), ProjectOf[Agent])
    BY DEF DeliveredOnce
  <2>1. /\ Traced /\ Reported /\ sent \in Seq(Bodies)
        /\ RowsOwned /\ RowWritten /\ OneRowPerClaim
        /\ Audited /\ HeartbeatAnnounced
    BY ServiceMeans DEF Delivering, Relation, Sending, SentInOrder
  <2>2. PICK i \in Requests : i \in DOMAIN sent /\ sent[i].nonce = n /\ phase[i] = "accepted"
    BY <2>1 DEF Reported
  <2>3. msg[i] = [credential |-> Agent, path |-> Agent, body |-> sent[i]] /\ sent[i] \in Bodies
    BY <2>1, <2>2 DEF Traced
  <2>4. /\ Row(i) \in heartbeats /\ AuditOf(i) \in audits
        /\ Announces(HeartbeatEvent(i), ProjectOf[AgentOf(i)]) /\ AgentOf(i) = Agent
    BY <2>1, <2>2, <2>3
       DEF RowWritten, Audited, HeartbeatAnnounced, Storing, Auditing, Announcing, AgentOf
  <2>5. /\ Row(i).id = i /\ Row(i).agent = Agent /\ Row(i).nonce = n
        /\ Row(i).seen = sent[i].seen /\ Row(i).status = sent[i].status
        /\ AuditOf(i).heartbeat = i
    BY <2>2, <2>3 DEF Row, AuditOf, AgentOf
  <2>6. ASSUME NEW h \in heartbeats, h.nonce = n PROVE h = Row(i)
    <3>1. h.id \in Requests /\ h = Row(h.id) /\ phase[h.id] # "unsent"
      BY <2>1 DEF RowsOwned, Written, Storing, Auditing, Announcing
    <3>3. Row(h.id).agent = Agent
      BY <2>1, <3>1, TracedRow
    <3>4. h.agent = Row(i).agent /\ h.nonce = Row(i).nonce
      BY <2>5, <2>6, <3>1, <3>3
    <3> QED BY <2>1, <2>4, <3>4 DEF OneRowPerClaim
  <2>7. RowsFor(n) = {Row(i)}
    BY <2>4, <2>5, <2>6 DEF RowsFor
  <2>8. [nonce |-> Row(i).nonce, seen |-> Row(i).seen, status |-> Row(i).status] = sent[i]
    BY <2>2, <2>3, <2>5 DEF Bodies
  <2> QED BY <2>2, <2>4, <2>5, <2>7, <2>8
<1> QED BY <1>1, DeliveringHolds, PTL

(* The 409 that ends a process is about a row that an earlier attempt of   *)
(* the same heartbeat wrote.                                               *)
THEOREM ConflictsAreOwn == DeliverySpec => []ConflictIsOwn
<1>1. Delivering => ConflictIsOwn
  <2> SUFFICES ASSUME Delivering, mode = "waiting", phase[Awaited] = "replayed"
               PROVE  /\ attempt > 1
                      /\ \E h \in RowsFor(heartbeat.nonce) : h.id < Awaited /\ h.agent = Agent
    BY DEF ConflictIsOwn
  <2>1. /\ Traced /\ RowsOwned /\ ReplaysHaveCause /\ SentInOrder /\ Counted
        /\ Shape /\ Progress
    BY ServiceMeans DEF Delivering, Relation, Sending, Control
  <2>2. Awaited \in Requests /\ Awaited \in DOMAIN sent /\ sent[Awaited] = heartbeat
    BY AwaitedIsRequest DEF Delivering
  <2>3. AgentOf(Awaited) = Agent /\ msg[Awaited].body = heartbeat
    BY <2>1, <2>2, TracedRow
  <2>4. PICK h \in heartbeats :
          h.id # Awaited /\ h.agent = Agent /\ h.nonce = heartbeat.nonce
    BY <2>1, <2>2, <2>3 DEF ReplaysHaveCause
  <2>5. h.id \in Requests /\ h = Row(h.id) /\ phase[h.id] # "unsent"
    BY <2>1 DEF RowsOwned, Written, Storing, Auditing, Announcing
  <2>6. h.id \in DOMAIN sent /\ Row(h.id).nonce = sent[h.id].nonce
    BY <2>1, <2>5, TracedRow
  <2>7. sent[h.id].nonce = heartbeat.nonce
    BY <2>4, <2>5, <2>6
  <2>8. h.id < Awaited
    BY <2>1, <2>2, <2>4, <2>6 DEF SentInOrder, Awaited
  <2>9. attempt # 1
    <3> SUFFICES ASSUME attempt = 1 PROVE FALSE
      OBVIOUS
    <3>1. heartbeat.nonce \in Nonces
      BY <2>1 DEF Progress, InSendOnce, Bodies
    <3>2. Cardinality(SentFor(heartbeat.nonce)) = 1
      BY <2>1, <3>1 DEF Counted
    <3>3. PICK x : SentFor(heartbeat.nonce) = {x}
      BY <2>1, <3>2, SentForFinite, FS_Singleton
    <3>4. h.id \in SentFor(heartbeat.nonce) /\ Awaited \in SentFor(heartbeat.nonce)
      BY <2>2, <2>6, <2>7 DEF SentFor
    <3> QED BY <2>4, <3>3, <3>4
  <2>10. attempt > 1
    BY <2>1, <2>9, Constants DEF Progress, InSendOnce, Shape
  <2> QED BY <2>4, <2>8, <2>10 DEF RowsFor
<1> QED BY <1>1, DeliveringHolds, PTL

(* As long as the connector is not restarted, the machine's last_seen_at   *)
(* never moves backwards, although a request that timed out may execute    *)
(* its UPDATE at any later time.                                           *)
THEOREM ObservationsAdvance == DeliverySpec => ObservationAdvances
<1> DEFINE Advance == restarts = 0 => machines'[Agent].seen >= machines[Agent].seen
<1>1. Delivering /\ [DeliveryNext]_<<vars, conn>> => [Advance]_<<vars, conn>>
  <2> SUFFICES ASSUME Delivering, DeliveryNext, restarts = 0
               PROVE  machines'[Agent].seen >= machines[Agent].seen
    OBVIOUS
  <2>1. Ordered /\ TypeOK
    BY ServiceMeans DEF Delivering, Relation
  <2>2. machines[Agent].seen \in Nat
    BY <2>1, ConfigAssumption, DeliveryAssumption DEF TypeOK, Times, Never
  <2>3. ASSUME NEW r \in Requests, UpdateMachine(r)
        PROVE  machines'[Agent].seen >= machines[Agent].seen
    <3>1. heartbeat \in Bodies /\ machines'[Agent].seen = heartbeat.seen
      BY <2>3, UpdatesAreLatest
    <3>2. heartbeat.seen \in Nat \ {0}
      BY <3>1, ConfigAssumption DEF Bodies, Times
    <3> QED BY <2>1, <2>2, <3>1, <3>2 DEF Ordered, Never
  <2>4. machines' = machines \/ \E r \in Requests : UpdateMachine(r)
    BY DEF DeliveryNext, Process, Transmit, Deliver, Receive, Worker, Reply, TimeOut, vars,
       Handle, Fail, Tick, AuthenticateAgent, ParseHeartbeat, ReadStatus, InsertHeartbeat,
       RejectReplay, RecordAudit, PublishHeartbeat, PublishStatusChange, Respond
  <2> QED BY <2>2, <2>3, <2>4
<1> QED BY <1>1, DeliveringHolds, PTL DEF DeliverySpec, ObservationAdvances

(* The live events of a connector that was never restarted come in the     *)
(* order of its heartbeats, each published by whichever handler won.       *)
(* While it sleeps, its machine and the last of these events show its      *)
(* latest heartbeat, and nothing under way will change that.               *)
THEOREM LatestStaysShown == DeliverySpec => []LatestIsShown
<1>1. Delivering => LatestIsShown
  <2> SUFFICES ASSUME Delivering, restarts = 0 PROVE LatestIsShown
    BY DEF LatestIsShown
  <2>1. /\ Reported /\ Traced /\ Shown /\ Listed /\ InTurn /\ Progress /\ SentInOrder
        /\ HeartbeatAnnounced /\ TypeOK /\ ProjectOf[Agent] \in Projects
    BY ServiceMeans, DeliveryAssumption, ConfigAssumption
       DEF Delivering, Relation, Control, Sending
  <2>2. Live \in Seq(Events)
    BY <2>1 DEF TypeOK, Live
  <2>3. ASSUME mode = "sleeping"
        PROVE  /\ machines[Agent] = [status |-> heartbeat.status, seen |-> heartbeat.seen]
               /\ Live # <<>>
               /\ Live[Len(Live)].seen = heartbeat.seen
               /\ Live[Len(Live)].status = heartbeat.status
    <3>1. heartbeat \in Bodies /\ heartbeat.nonce \in 1 .. heartbeat.nonce
      BY <2>1, <2>3, Constants DEF Progress, Bodies
    <3>2. heartbeat.nonce \in delivered
      BY <2>1, <2>3, <3>1 DEF InTurn
    <3>3. PICK r \in Requests :
            r \in DOMAIN sent /\ sent[r].nonce = heartbeat.nonce /\ phase[r] = "accepted"
      BY <2>1, <3>2 DEF Reported
    <3>4. PICK k \in DOMAIN Live : Live[k] = HeartbeatEvent(r)
      <4>1. AgentOf(r) = Agent
        BY <2>1, <3>3, TracedRow
      <4> QED BY <2>1, <3>3, <4>1 DEF HeartbeatAnnounced, Announces, Announcing, Live
    <3>5. Live[k].heartbeat = r
      BY <3>4 DEF HeartbeatEvent
    <3>6. Len(Live) \in DOMAIN Live /\ k <= Len(Live) /\ Live # <<>>
      BY <2>2, <3>4
    <3> DEFINE last == Live[Len(Live)].heartbeat
    <3>7. /\ last \in DOMAIN sent /\ Live[Len(Live)].seen = sent[last].seen
          /\ Live[Len(Live)].status = sent[last].status
      BY <3>6, LiveIsSent
    <3>8. heartbeat.nonce <= sent[last].nonce /\ sent[last].nonce <= heartbeat.nonce
      BY <2>1, <3>3, <3>5, <3>6, <3>7 DEF Listed, SentInOrder
    <3>9. sent[last].nonce = heartbeat.nonce
      <4>1. sent[last] \in Bodies
        BY <2>1, <3>7 DEF SentInOrder
      <4> QED BY <3>1, <3>8, <4>1, Constants DEF Bodies
    <3>10. machines[Agent] = [status |-> heartbeat.status, seen |-> heartbeat.seen]
      BY <2>1, <3>3 DEF Shown, Auditing, Announcing
    <3> QED BY <2>1, <3>6, <3>7, <3>9, <3>10 DEF SentInOrder
  <2> QED BY <2>1, <2>3 DEF LatestIsShown, Listed
<1> QED BY <1>1, DeliveringHolds, PTL

-----------------------------------------------------------------------------
(* What HeartbeatApi promises whatever its clients do, it keeps with the   *)
(* connector as its client: their steps together are steps of the service. *)

(* Everything said of the tables and channels of the service by itself.    *)
ServiceKeeps ==
  /\ TypeOK /\ ReplayProtected
  /\ AcceptedIsDurable /\ DurableBeforeLive /\ AuditTrail /\ AnnouncedOnce
  /\ MachineFromOneHeartbeat /\ NeverFromFuture /\ ChangeIsReal

THEOREM ServiceIsKept == DeliverySpec => []ServiceKeeps
<1>1. Service => ServiceKeeps
  BY ApiImplies DEF Service, ServiceKeeps
<1> QED BY <1>1, DeliveringHolds, PTL DEF Delivering

(* In particular the service is still a ledger of the connector's claims.  *)
THEOREM DeliveryImplementsLedger == DeliverySpec => ImplementsLedger
<1>1. DeliveryInit => Ledger!Init
  BY LedgerInit DEF DeliveryInit
<1>2. Delivering /\ [DeliveryNext]_<<vars, conn>> => [Ledger!Next]_(Ledger!vars)
  BY DeliveryServes, LedgerNext, ServiceMeans DEF Delivering, Sending, SentInOrder
<1> QED
  BY <1>1, <1>2, DeliveringHolds, PTL DEF DeliverySpec, ImplementsLedger, Ledger!Spec

=============================================================================
