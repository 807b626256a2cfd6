------------------------------ MODULE Connector ------------------------------
(***************************************************************************)
(* cybercore-agent run: the loop of run_periodic_until, and within it      *)
(* send_once, which sends one heartbeat up to max_retries + 1 times.       *)
(*                                                                         *)
(* The process is sequential and blocks in send_once; what the network and *)
(* the server do meanwhile is the choice of Answer's result, or of the     *)
(* module that composes this one with them.  SIGINT only sets the stop     *)
(* flag.  Whoever supervises the process may kill and restart it.          *)
(***************************************************************************)
EXTENDS Naturals

CONSTANTS
  Configs,       (* What a started process may have loaded: status, retries *)
                 (* (max_retries, a natural number) and slices of the wait  *)
                 (* (interval_secs * 10, one at least).                     *)
  Times,         (* Values of the connector's clock.                        *)
  MaxBeats,      (* Bound on the heartbeats made.                           *)
  MaxRestarts    (* Bound on the restarts.                                  *)

VARIABLES
  mode,          (* Where the process is.                                   *)
  config,        (* Read when the process started.                          *)
  heartbeat,     (* The heartbeat send_once made last.                      *)
  attempt,       (* Of send_once's loop, from 1.                            *)
  slice,         (* Slices of the wait already slept.                       *)
  stop,          (* The flag should_stop reads.                             *)
  exit,          (* Why the process exited.                                 *)
  delivered,     (* Nonces for which on_success was called.                 *)
  restarts

conn == <<mode, config, heartbeat, attempt, slice, stop, exit, delivered, restarts>>

NoHeartbeat == [nonce |-> 0]

(* A 2xx with a JSON body; a transport error, a timeout, a garbled body or *)
(* 408, 425, 429, 5xx; any other status.                                   *)
Results == {"accepted", "transient", "fatal"}

-----------------------------------------------------------------------------
ConnInit ==
  /\ mode = "top"
  /\ config \in Configs
  /\ heartbeat = NoHeartbeat
  /\ attempt = 0
  /\ slice = 0
  /\ stop = FALSE
  /\ exit = "running"
  /\ delivered = {}
  /\ restarts = 0

Exit(why) == mode' = "exited" /\ exit' = why

(* should_stop, at the head of the loop and before every slice. *)
Stop ==
  /\ stop
  /\ mode \in {"top", "sleeping"}
  /\ Exit("stopped")
  /\ UNCHANGED <<config, heartbeat, attempt, slice, stop, delivered, restarts>>

(* send_once makes a heartbeat with a fresh random nonce, stamped now.  It *)
(* is made once: every attempt sends these bytes.                          *)
Start_sameNonce(now) ==                \* mutant: nonce drawn once per process
  /\ mode = "top" /\ ~stop
  /\ heartbeat.nonce < MaxBeats
  /\ heartbeat' = [nonce |-> restarts + 1, seen |-> now, status |-> config.status]
  /\ mode' = "sending" /\ attempt' = 1
  /\ UNCHANGED <<config, slice, stop, exit, delivered, restarts>>

StartHeartbeat(now) ==
  /\ mode = "top" /\ ~stop
  /\ heartbeat.nonce < MaxBeats
  /\ heartbeat' = [nonce |-> heartbeat.nonce + 1, seen |-> now, status |-> config.status]
  /\ mode' = "sending" /\ attempt' = 1
  /\ UNCHANGED <<config, slice, stop, exit, delivered, restarts>>

(* send_body posts the request and blocks, for timeout_secs at most. *)
Send ==
  /\ mode = "sending"
  /\ mode' = "waiting"
  /\ UNCHANGED <<config, heartbeat, attempt, slice, stop, exit, delivered, restarts>>

Succeed ==
  /\ mode = "waiting"
  /\ mode' = "sleeping" /\ slice' = 0
  /\ delivered' = delivered \cup {heartbeat.nonce}
  /\ UNCHANGED <<config, heartbeat, attempt, stop, exit, restarts>>

Attempts_offByOne == config.retries + 2    \* mutant: counted from zero
Attempts == config.retries + 1

(* A transient error sleeps and tries again, unless it was the last one. *)
BackOff(result) ==
  /\ mode = "waiting" /\ result = "transient" /\ attempt < Attempts
  /\ mode' = "backoff"
  /\ UNCHANGED <<config, heartbeat, attempt, slice, stop, exit, delivered, restarts>>

(* "?" in run_periodic_until: any error of send_once ends the process. *)
GiveUp(result) ==
  /\ mode = "waiting"
  /\ \/ result = "fatal"
     \/ result = "transient" /\ attempt = Attempts
  /\ Exit(result)
  /\ UNCHANGED <<config, heartbeat, attempt, slice, stop, delivered, restarts>>

Retry_uncounted ==                     \* mutant: the attempt is not counted
  /\ mode = "backoff"
  /\ mode' = "sending" /\ attempt' = attempt
  /\ UNCHANGED <<config, heartbeat, slice, stop, exit, delivered, restarts>>

Retry ==
  /\ mode = "backoff"
  /\ mode' = "sending" /\ attempt' = attempt + 1
  /\ UNCHANGED <<config, heartbeat, slice, stop, exit, delivered, restarts>>

SleepSlice(n) ==
  /\ mode = "sleeping" /\ ~stop
  /\ slice' = (slice + 1) % n
  /\ mode' = IF slice' = 0 THEN "top" ELSE mode
  /\ UNCHANGED <<config, heartbeat, attempt, stop, exit, delivered, restarts>>

Sleep_onceMore == SleepSlice(config.slices + 1)   \* mutant: the range includes its end

(* One slice of the wait; after the last one, the loop's head. *)
Sleep == SleepSlice(config.slices)

Answer(result) ==
  \/ result = "accepted" /\ Succeed
  \/ BackOff(result)
  \/ GiveUp(result)

-----------------------------------------------------------------------------
(* The environment. *)

Interrupt ==
  /\ mode # "exited" /\ ~stop
  /\ stop' = TRUE
  /\ UNCHANGED <<mode, config, heartbeat, attempt, slice, exit, delivered, restarts>>

Kill ==
  /\ mode # "exited"
  /\ Exit("killed")
  /\ UNCHANGED <<config, heartbeat, attempt, slice, stop, delivered, restarts>>

(* A new process: only the nonces it will draw are known not to repeat. *)
Restart ==
  /\ mode = "exited"
  /\ restarts < MaxRestarts
  /\ restarts' = restarts + 1
  /\ mode' = "top" /\ exit' = "running" /\ stop' = FALSE
  /\ config' \in Configs
  /\ attempt' = 0 /\ slice' = 0
  /\ UNCHANGED <<heartbeat, delivered>>

ConnNext ==
  \/ Stop
  \/ \E now \in Times : StartHeartbeat(now)
  \/ Send
  \/ \E result \in Results : Answer(result)
  \/ Retry
  \/ Sleep
  \/ Interrupt
  \/ Kill
  \/ Restart

(* The process runs: its own steps are fair, and every request ends, by an *)
(* answer or by ureq's global timeout.                                     *)
Alive ==
  \/ Stop
  \/ \E now \in Times : StartHeartbeat(now)
  \/ Send
  \/ \E result \in Results : Answer(result)
  \/ Retry
  \/ Sleep

ConnSpec == ConnInit /\ [][ConnNext]_conn /\ WF_conn(Alive)

-----------------------------------------------------------------------------
(* The control state stays within its bounds: the loop counts attempts and *)
(* slices as written, and the nonce is never used up twice.                *)
ConnTypeOK ==
  /\ mode \in {"top", "sending", "waiting", "backoff", "sleeping", "exited"}
  /\ config \in Configs
  /\ heartbeat \in {NoHeartbeat} \cup
       [nonce : 1 .. MaxBeats, seen : Times, status : {c.status : c \in Configs}]
  /\ attempt \in 0 .. config.retries + 1
  /\ slice \in 0 .. config.slices - 1
  /\ stop \in BOOLEAN
  /\ exit \in {"running", "stopped", "transient", "fatal", "killed"}
  /\ delivered \subseteq 1 .. MaxBeats
  /\ restarts \in 0 .. MaxRestarts

(* send_once returns: a network that only ever fails transiently cannot    *)
(* keep the process inside it.                                             *)
SendOnceEnds ==
  mode \in {"sending", "waiting", "backoff"} ~> mode \in {"sleeping", "top", "exited"}

(* An interrupted process exits, whatever it was doing.  send_once does    *)
(* not look at the flag, so it rests on SendOnceEnds.                      *)
StopHonoured == stop ~> mode = "exited"

=============================================================================
