------------------------- MODULE AgentProcessProofs -------------------------
(***************************************************************************)
(* The safety properties of the program cybercore-agent, for any set of    *)
(* configuration files and command lines and any durations of requests.    *)
(*                                                                         *)
(* They rest on one invariant.  What validate and the readers of secrets   *)
(* tested still holds in the loop, as the file is read once; that gives    *)
(* the clock its bounds, by the number of the attempt; and the deliveries  *)
(* tell which exits are possible.                                          *)
(***************************************************************************)
EXTENDS AgentProcess, TLAPS

InTheLoop == {"top", "sending", "waiting", "backoff", "sleeping", "dozing"}

(* Wherever the program is, the tests before have been passed.             *)
Checked ==
  /\ at \in {"new", "handler"} \cup InTheLoop => Deserializes(file) /\ Validate(config)
  /\ at \in {"handler"} \cup InTheLoop =>
       ReadCredential(config) /\ ReadAccessCredentials(config)
  /\ at \in InTheLoop \ {"top"} => BodySize(config) <= MAX_PAYLOAD_BYTES

(* The limits validate puts on the numbers.                                *)
LEMMA Limits ==
  ASSUME Validate(config)
  PROVE  /\ Timeout \in Nat /\ Timeout = config.timeout_secs * 1000 /\ Timeout <= 60000
         /\ config.timeout_secs \in Nat
         /\ config.max_retries \in Nat /\ config.max_retries <= 5
         /\ Attempts \in Nat /\ Attempts = config.max_retries + 1
         /\ Slices \in Nat /\ Slices > 0 /\ Slices * 100 = config.interval_secs * 1000
         /\ config.retry_delay_ms \in Nat
         /\ config.status \in {"online", "offline", "degraded"}
<1>1. config.timeout_secs \in 1 .. MAX_TIMEOUT_SECS
  BY Zenon DEF Validate
<1>2. config.interval_secs \in 1 .. MAX_INTERVAL_SECS
  BY Zenon DEF Validate
<1>3. config.max_retries \in 0 .. MAX_RETRIES
  BY Zenon DEF Validate
<1>4. config.retry_delay_ms \in 0 .. MAX_RETRY_DELAY_MS
  BY Zenon DEF Validate
<1>5. config.status \in {"online", "offline", "degraded"}
  BY Zenon DEF Validate
<1>6. config.timeout_secs \in Nat /\ config.timeout_secs <= 60
  BY <1>1 DEF MAX_TIMEOUT_SECS
<1>7. config.interval_secs \in Nat /\ config.interval_secs > 0
  <2>1. MAX_INTERVAL_SECS \in Nat
    BY DEF MAX_INTERVAL_SECS
  <2> QED BY <1>2, <2>1
<1>8. config.max_retries \in Nat /\ config.max_retries <= 5
  BY <1>3 DEF MAX_RETRIES
<1>9. config.retry_delay_ms \in Nat
  <2>1. MAX_RETRY_DELAY_MS \in Nat
    BY DEF MAX_RETRY_DELAY_MS
  <2> QED BY <1>4, <2>1
<1>10. Timeout \in Nat /\ Timeout <= 60000 /\ Timeout = config.timeout_secs * 1000
  BY <1>6 DEF Timeout
<1>11. Attempts \in Nat /\ Attempts = config.max_retries + 1
  BY <1>8 DEF Attempts
<1>12. Slices \in Nat /\ Slices > 0 /\ Slices * 100 = config.interval_secs * 1000
  BY <1>7 DEF Slices
<1> QED BY <1>5, <1>6, <1>8, <1>9, <1>10, <1>11, <1>12

(* A file that stays the same is the same configuration. *)
LEMMA SameConfig ==
  ASSUME file' = file
  PROVE  config' = config /\ Timeout' = Timeout /\ Attempts' = Attempts
         /\ Slices' = Slices /\ WorstSend' = WorstSend
<1>1. config' = config
  BY DEF config, Parsed
<1> QED BY <1>1 DEF Timeout, Attempts, Slices, WorstSend

LEMMA CheckedNext == Checked /\ [ProcNext]_vars => Checked'
<1> SUFFICES ASSUME Checked, [ProcNext]_vars PROVE Checked'
  OBVIOUS
<1>1. ASSUME file' = file,
             \/ at' = at
             \/ at' \in {"arguments", "exited"}
             \/ at \in InTheLoop \ {"top"} /\ at' \in InTheLoop
      PROVE  Checked'
  <2>1. config' = config
    BY <1>1, SameConfig
  <2> QED BY <1>1, <2>1 DEF Checked, InTheLoop
<1>2. CASE LoadConfig
  <2>1. file' = file /\ config' = config
    BY <1>2, SameConfig DEF LoadConfig, environs
  <2>2. CASE Deserializes(file) /\ Validate(config)
    BY <1>2, <2>1, <2>2 DEF LoadConfig, Goto, Checked, InTheLoop
  <2>3. CASE ~(Deserializes(file) /\ Validate(config))
    BY <1>1, <1>2, <2>1, <2>3 DEF LoadConfig, Exit
  <2> QED BY <2>2, <2>3
<1>3. CASE NewConnector
  <2>1. file' = file /\ config' = config
    BY <1>3, SameConfig DEF NewConnector, environs
  <2>2. CASE ReadCredential(config) /\ ReadAccessCredentials(config)
    BY <1>3, <2>1, <2>2 DEF NewConnector, Goto, Checked, InTheLoop
  <2>3. CASE ~(ReadCredential(config) /\ ReadAccessCredentials(config))
    BY <1>1, <1>3, <2>1, <2>3 DEF NewConnector, Exit
  <2> QED BY <2>2, <2>3
<1>4. CASE InstallHandler
  <2>1. file' = file /\ config' = config
    BY <1>4, SameConfig DEF InstallHandler, environs
  <2> QED BY <1>4, <2>1 DEF InstallHandler, Goto, Exit, Checked, InTheLoop
<1>5. CASE MakeHeartbeat
  <2>1. file' = file /\ config' = config
    BY <1>5, SameConfig DEF MakeHeartbeat, environs
  <2>2. CASE BodySize(config) <= MAX_PAYLOAD_BYTES
    BY <1>5, <2>1, <2>2 DEF MakeHeartbeat, Goto, Checked, InTheLoop
  <2>3. CASE ~(BodySize(config) <= MAX_PAYLOAD_BYTES)
    BY <1>1, <1>5, <2>1, <2>3 DEF MakeHeartbeat, Exit
  <2> QED BY <2>2, <2>3
<1>6. CASE ConfigArgument \/ CommandArgument \/ InfoOrUsage
  BY <1>1, <1>6 DEF ConfigArgument, CommandArgument, InfoOrUsage, Goto, Exit, environs
<1>7. CASE Stop \/ Send \/ Retry \/ Report \/ Doze \/ Wake
  BY <1>1, <1>7 DEF Stop, Send, Retry, Report, Doze, Wake, Goto, Exit, environs, InTheLoop
<1>8. ASSUME NEW result \in {"accepted", "transient", "fatal"},
             NEW d \in Durations \cup {Timeout}, Answer(result, d)
      PROVE  Checked'
  BY <1>1, <1>8 DEF Answer, Succeed, BackOff, GiveUp, Goto, Exit, environs, InTheLoop
<1>9. CASE Interrupt \/ Kill
  BY <1>1, <1>9 DEF Interrupt, Kill, Exit, environs
<1>10. CASE Restart
  BY <1>10 DEF Restart, Checked, InTheLoop
<1>11. CASE UNCHANGED vars
  BY <1>1, <1>11 DEF vars, environs
<1> QED BY <1>2, <1>3, <1>4, <1>5, <1>6, <1>7, <1>8, <1>9, <1>10, <1>11
        DEF ProcNext, Begin, Run

-----------------------------------------------------------------------------
Starting == {"arguments", "new", "handler"}
Sending  == {"sending", "waiting", "backoff"}

(* How far a process that is where it is has come.                         *)
Progress ==
  /\ at \in Starting => attempt = 0 /\ slice = 0 /\ ~stop
  /\ at \in Sending => attempt >= 1
  /\ at = "backoff" => attempt < Attempts
  /\ at = "top" /\ attempt # 0 => BodySize(config) <= MAX_PAYLOAD_BYTES
  /\ stop => command = "run"
  /\ at = "exited" <=> exit # "running"

Shape == Checked /\ ProcTypeOK /\ Progress

LEMMA ShapeInit == ProcInit => Shape
<1> SUFFICES ASSUME ProcInit PROVE Shape
  OBVIOUS
<1>1. Checked
  BY DEF ProcInit, Checked, InTheLoop
<1>2. 0 \in 0 .. MaxRestarts
  BY ProcessAssumption
<1>3. ProcTypeOK
  BY <1>2 DEF ProcInit, ProcTypeOK, InLoop
<1>4. Progress
  BY DEF ProcInit, Progress, Starting, Sending
<1> QED BY <1>1, <1>3, <1>4 DEF Shape

(* The heartbeats are numbered. *)
LEMMA NonceIsNumber ==
  ASSUME ProcTypeOK
  PROVE  heartbeat.nonce \in Nat
BY ProcessAssumption DEF ProcTypeOK, NoHeartbeat

(* The delay before a retry is capped. *)
LEMMA DelayCapped ==
  ASSUME Validate(config), attempt \in Nat, attempt >= 1, attempt < Attempts
  PROVE  Delay \in Nat /\ Delay <= MAX_RETRY_DELAY_MS
<1>1. attempt \in 1 .. 5
  BY Limits
<1>2. <<1, 2, 4, 8, 16>>[attempt] \in Nat
  BY <1>1
<1>3. Doubled \in Nat
  BY <1>2, Limits DEF Doubled
<1>4. MAX_RETRY_DELAY_MS \in Nat
  BY DEF MAX_RETRY_DELAY_MS
<1> QED BY <1>3, <1>4 DEF Delay

LEMMA BeginShape == Shape /\ Begin => (ProcTypeOK /\ Progress)'
<1> SUFFICES ASSUME Shape, Begin PROVE ProcTypeOK' /\ Progress'
  OBVIOUS
<1> USE DEF Shape
<1>0. Checked'
  BY CheckedNext DEF ProcNext
<1>1. /\ at \in Starting /\ at' \in Starting \cup {"top", "exited"}
      /\ at' = "exited" <=> exit' # "running"
  BY DEF Begin, ConfigArgument, CommandArgument, InfoOrUsage, LoadConfig,
         NewConnector, InstallHandler, Goto, Exit, Starting, Progress
<1>2. UNCHANGED loop /\ file' = file
  BY DEF Begin, ConfigArgument, CommandArgument, InfoOrUsage, LoadConfig,
         NewConnector, InstallHandler, environs
<1>3. command' \in {"once", "run"}
  BY DEF Begin, ConfigArgument, CommandArgument, InfoOrUsage, LoadConfig,
         NewConnector, InstallHandler, environs, ProcTypeOK
<1>4. given' \in BOOLEAN
  <2>1. given' = given \/ given' = (Len(argv) > 1)
    BY Zenon DEF Begin, ConfigArgument, CommandArgument, InfoOrUsage, LoadConfig,
           NewConnector, InstallHandler, environs
  <2>2. (Len(argv) > 1) \in BOOLEAN
    OBVIOUS
  <2>3. given \in BOOLEAN
    BY DEF ProcTypeOK
  <2> QED BY <2>1, <2>2, <2>3
<1>5. at' = "top" => Attempts' \in Nat /\ Slices' \in Nat /\ Slices' > 0
  <2>1. at' = "top" => Validate(config)'
    BY <1>0 DEF Checked, InTheLoop
  <2>2. config' = config
    BY <1>2, SameConfig
  <2>3. at' = "top" => Validate(config)
    BY <2>1, <2>2
  <2> QED BY <1>2, <2>3, Limits, SameConfig
<1>6. ~stop /\ attempt = 0 /\ slice = 0
  BY <1>1 DEF Progress
<1>7. ProcTypeOK'
  BY <1>1, <1>2, <1>3, <1>4, <1>5, <1>6 DEF ProcTypeOK, loop, Starting, InLoop
<1>8. Progress'
  BY <1>1, <1>2, <1>6 DEF Progress, loop, Starting, Sending
<1> QED BY <1>7, <1>8

(* What holds around every step of the loop. *)
LEMMA RunContext ==
  ASSUME Shape, Run
  PROVE  /\ at \in InTheLoop /\ at' \in InTheLoop \cup {"exited"}
         /\ at' = "exited" <=> exit' # "running"
         /\ UNCHANGED <<command, given, file, restarts, stop>>
         /\ Validate(config)
         /\ config' = config /\ Attempts' = Attempts /\ Slices' = Slices
<1>1. /\ at \in InTheLoop /\ at' \in InTheLoop \cup {"exited"}
      /\ at' = "exited" <=> exit' # "running"
  BY DEF Run, Stop, MakeHeartbeat, Send, Answer, Succeed, BackOff, GiveUp, Retry, Report,
         Doze, Wake, Goto, Exit, InTheLoop, Shape, Progress
<1>2. UNCHANGED <<command, given, file, restarts, stop>>
  BY DEF Run, Stop, MakeHeartbeat, Send, Answer, Succeed, BackOff, GiveUp, Retry, Report,
         Doze, Wake, environs, loop
<1>3. Validate(config)
  BY <1>1 DEF Shape, Checked
<1> QED BY <1>1, <1>2, <1>3, SameConfig

LEMMA RunShape == Shape /\ Run => (ProcTypeOK /\ Progress)'
<1> SUFFICES ASSUME Shape, Run PROVE ProcTypeOK' /\ Progress'
  OBVIOUS
<1> USE DEF Shape
<1>0. /\ at \in InTheLoop /\ at' \in InTheLoop \cup {"exited"}
      /\ at' = "exited" <=> exit' # "running"
      /\ UNCHANGED <<command, given, file, restarts, stop>>
      /\ Validate(config)
      /\ config' = config /\ Attempts' = Attempts /\ Slices' = Slices
  BY RunContext
<1>1. Attempts \in Nat /\ Attempts > 0 /\ Timeout \in Nat /\ Slices \in Nat /\ Slices > 0
  BY <1>0, Limits
<1>2. attempt \in Nat /\ slice \in Nat /\ age \in Nat /\ drift \in Nat /\ lag \in Nat
  BY DEF ProcTypeOK
<1>3. heartbeat' = NoHeartbeat \/ heartbeat'.nonce \in 1 .. MaxBeats
  <2>1. CASE heartbeat' = heartbeat
    BY <2>1 DEF ProcTypeOK
  <2>2. CASE MakeHeartbeat /\ heartbeat' # heartbeat
    <3>1. heartbeat'.nonce = heartbeat.nonce + 1 /\ heartbeat.nonce < MaxBeats
      BY <2>2 DEF MakeHeartbeat
    <3> QED BY <3>1, NonceIsNumber, ProcessAssumption
  <2> QED
    BY <2>1, <2>2 DEF Run, Stop, Send, Answer, Succeed, BackOff, GiveUp, Retry, Report,
                      Doze, Wake, loop
<1>4. age' \in Nat /\ drift' \in Nat /\ lag' \in Nat
  <2>1. ASSUME NEW d \in Nat, Elapse(d) PROVE age' \in Nat /\ drift' \in Nat /\ lag' \in Nat
    BY <1>2, <2>1, ProcessAssumption DEF Elapse
  <2>2. \A d \in Durations \cup {Timeout} : d \in Nat
    BY <1>1, ProcessAssumption
  <2>3. CASE Retry
    <3>1. Delay \in Nat
      BY <1>0, <1>2, <2>3, DelayCapped DEF Retry, Goto, Progress, Sending
    <3> QED BY <2>1, <2>3, <3>1 DEF Retry
  <2>4. CASE Stop \/ MakeHeartbeat \/ Send \/ Report \/ Doze
    BY <1>2, <2>4 DEF Stop, MakeHeartbeat, Send, Report, Doze, loop
  <2>5. CASE Wake
    BY <2>1, <2>5 DEF Wake
  <2> QED BY <2>1, <2>2, <2>3, <2>4, <2>5 DEF Run, Answer
<1>5. /\ attempt' \in Nat /\ slice' \in Nat
      /\ at' \in InTheLoop => attempt' <= Attempts /\ slice' < Slices
      /\ at' \in Sending => attempt' >= 1
      /\ at' = "backoff" => attempt' < Attempts
  <2>1. attempt <= Attempts /\ slice < Slices
    BY <1>0 DEF ProcTypeOK, InLoop, InTheLoop
  <2>2. CASE MakeHeartbeat
    BY <1>1, <1>2, <2>1, <2>2 DEF MakeHeartbeat, Goto, Exit, Sending, InTheLoop
  <2>3. CASE Doze
    <3>1. slice' \in Nat /\ slice' < Slices
      BY <1>1, <1>2, <2>3 DEF Doze
    <3> QED BY <1>2, <2>1, <2>3, <3>1 DEF Doze, Goto, Sending
  <2>4. CASE Retry
    BY <1>1, <1>2, <2>1, <2>4 DEF Retry, Goto, Sending, Progress
  <2>5. CASE Stop \/ Send \/ Report \/ Wake
    BY <1>2, <2>1, <2>5 DEF Stop, Send, Report, Wake, Goto, Exit, Sending, InTheLoop, loop,
                            Progress
  <2>6. ASSUME NEW result, NEW d, Answer(result, d), at = "waiting"
        PROVE  /\ attempt' = attempt /\ slice' \in {0, slice}
               /\ at' \in {"sleeping", "backoff", "exited"}
               /\ at' = "backoff" => attempt < Attempts
    BY <2>6 DEF Answer, Succeed, BackOff, GiveUp, Goto, Exit
  <2>7. at = "waiting" => attempt >= 1
    BY DEF Progress, Sending
  <2> QED BY <1>1, <1>2, <2>1, <2>2, <2>3, <2>4, <2>5, <2>6, <2>7 DEF Run, InTheLoop, Sending
<1>6. ProcTypeOK'
  BY <1>0, <1>3, <1>4, <1>5 DEF ProcTypeOK, InTheLoop, InLoop
<1>7. at' = "top" => BodySize(config') <= MAX_PAYLOAD_BYTES
  <2>1. at' = "top" => at = "dozing"
    BY DEF Run, Stop, MakeHeartbeat, Send, Answer, Succeed, BackOff, GiveUp, Retry, Report,
           Doze, Wake, Goto, Exit
  <2> QED BY <1>0, <2>1 DEF Checked, InTheLoop
<1>8. Progress'
  BY <1>0, <1>5, <1>7 DEF Progress, Starting, Sending, InTheLoop
<1> QED BY <1>6, <1>8

(* Interrupts, kills and restarts. *)
LEMMA EnvironmentShape ==
  Shape /\ (Interrupt \/ Kill \/ Restart \/ UNCHANGED vars) => (ProcTypeOK /\ Progress)'
<1> SUFFICES ASSUME Shape, Interrupt \/ Kill \/ Restart \/ UNCHANGED vars
             PROVE  ProcTypeOK' /\ Progress'
  OBVIOUS
<1> USE DEF Shape
<1>1. CASE Interrupt
  <2>1. /\ UNCHANGED <<environs, heartbeat, attempt, slice, delivered, restarts, age, drift, lag>>
        /\ config' = config /\ Attempts' = Attempts /\ Slices' = Slices
    BY <1>1, SameConfig DEF Interrupt, environs
  <2>2. \/ stop' = TRUE /\ UNCHANGED <<at, exit>> /\ Handled
        \/ at' = "exited" /\ exit' = "killed" /\ stop' = stop
    BY <1>1 DEF Interrupt, Exit
  <2>3. ProcTypeOK'
    BY <2>1, <2>2 DEF ProcTypeOK, Handled, InLoop, environs
  <2>4. Progress'
    BY <2>1, <2>2 DEF Progress, Handled, Starting, Sending, environs
  <2> QED BY <2>3, <2>4
<1>2. CASE Kill \/ UNCHANGED vars
  <2>1. /\ UNCHANGED <<environs, loop>>
        /\ config' = config /\ Attempts' = Attempts /\ Slices' = Slices
    BY <1>2, SameConfig DEF Kill, environs, vars, loop
  <2>2. UNCHANGED <<at, exit>> \/ (at' = "exited" /\ exit' = "killed")
    BY <1>2 DEF Kill, vars, Exit
  <2>3. ProcTypeOK'
    BY <2>1, <2>2 DEF ProcTypeOK, InLoop, environs, loop
  <2>4. Progress'
    BY <2>1, <2>2 DEF Progress, Starting, Sending, environs, loop
  <2> QED BY <2>3, <2>4
<1>3. CASE Restart
  <2>1. restarts' \in 0 .. MaxRestarts
    BY <1>3, ProcessAssumption DEF Restart, ProcTypeOK
  <2>2. ProcTypeOK'
    BY <1>3, <2>1 DEF Restart, ProcTypeOK, InLoop
  <2>3. Progress'
    BY <1>3 DEF Restart, Progress, Starting, Sending
  <2> QED BY <2>2, <2>3
<1> QED BY <1>1, <1>2, <1>3

LEMMA ShapeNext == Shape /\ [ProcNext]_vars => Shape'
BY CheckedNext, BeginShape, RunShape, EnvironmentShape DEF Shape, ProcNext

-----------------------------------------------------------------------------
(* The age of a heartbeat whose n-th attempt begins, if nothing overran:    *)
(* n - 1 requests of t ms and the delays between them.                      *)
Budget(n, t) == (n - 1) * (t + MAX_RETRY_DELAY_MS)

Waited(n) == n * 100 <= age /\ age <= n * 100 + WorstSend + drift

(* What is on the clock, by where the process is.                           *)
Clock ==
  /\ ~stop => lag = 0
  /\ at \in {"sending", "waiting"} =>
       age <= Budget(attempt, Timeout) + drift /\ lag + drift <= age
  /\ at = "backoff" =>
       age <= Budget(attempt, Timeout) + Timeout + drift /\ lag + drift <= age
  /\ at = "dozing" => lag = 0
  /\ at \in {"top", "sleeping"} => lag <= WorstSend + 100
  /\ at = "sleeping" => Waited(slice)
  /\ at = "dozing" => Waited(IF slice = 0 THEN Slices - 1 ELSE slice - 1)
  /\ at = "top" /\ attempt # 0 => Waited(Slices)

LEMMA Monotonic ==
  ASSUME NEW k \in Nat, NEW m \in Nat, NEW d \in Nat, k <= m
  PROVE  k * d <= m * d
<1>1. PICK e \in Nat : m = k + e
  <2>1. m - k \in Nat /\ m = k + (m - k)
    OBVIOUS
  <2> QED BY <2>1
<1>2. (k + e) * d = k * d + e * d
  BY SMT
<1>3. e * d \in Nat /\ k * d \in Nat
  BY SMT
<1> QED BY <1>1, <1>2, <1>3

LEMMA BudgetIs ==
  ASSUME NEW n \in Nat, NEW t \in Nat, n >= 1
  PROVE  /\ Budget(n, t) \in Nat
         /\ Budget(1, t) = 0
         /\ Budget(n + 1, t) = Budget(n, t) + t + MAX_RETRY_DELAY_MS
<1>1. MAX_RETRY_DELAY_MS \in Nat
  BY DEF MAX_RETRY_DELAY_MS
<1>2. n - 1 \in Nat /\ t + MAX_RETRY_DELAY_MS \in Nat
  BY <1>1
<1>3. Budget(n, t) \in Nat
  BY <1>2 DEF Budget
<1>4. Budget(1, t) = 0
  BY <1>2 DEF Budget
<1>5. Budget(n + 1, t) = Budget(n, t) + t + MAX_RETRY_DELAY_MS
  BY <1>1 DEF Budget
<1> QED BY <1>3, <1>4, <1>5

(* A send_once of all attempts takes the longest. *)
LEMMA BudgetBounded ==
  ASSUME Validate(config), NEW n \in Nat, n >= 1, n <= Attempts
  PROVE  WorstSend \in Nat /\ Budget(n, Timeout) + Timeout <= WorstSend
<1> DEFINE r == config.max_retries
           d == Timeout + MAX_RETRY_DELAY_MS
<1>1. Timeout \in Nat /\ r \in Nat /\ Attempts = r + 1
  BY Limits
<1>2. MAX_RETRY_DELAY_MS \in Nat
  BY DEF MAX_RETRY_DELAY_MS
<1>3. WorstSend = r * d + Timeout
  BY <1>1, <1>2 DEF WorstSend
<1>4. n - 1 \in Nat /\ n - 1 <= r /\ d \in Nat
  BY <1>1, <1>2
<1>5. (n - 1) * d <= r * d
  <2> HIDE DEF r, d
  <2> QED BY <1>1, <1>4, Monotonic
<1>6. (n - 1) * d \in Nat /\ r * d \in Nat
  <2> HIDE DEF r, d
  <2> QED BY <1>1, <1>4
<1>7. Budget(n, Timeout) = (n - 1) * d
  BY DEF Budget
<1> HIDE DEF r, d
<1> QED BY <1>1, <1>3, <1>5, <1>6, <1>7

LEMMA ClockInit == ProcInit => Clock
BY DEF ProcInit, Clock

(* Outside the loop no time passes, ... *)
LEMMA ClockOutside ==
  Shape /\ Clock /\ (Begin \/ Interrupt \/ Kill \/ Restart \/ UNCHANGED vars) => Clock'
<1> SUFFICES ASSUME Shape, Clock, Begin \/ Interrupt \/ Kill \/ Restart \/ UNCHANGED vars
             PROVE  Clock'
  OBVIOUS
<1> USE DEF Shape
<1>1. CASE Begin
  <2>1. /\ at \in Starting /\ at' \in Starting \cup {"top", "exited"}
        /\ UNCHANGED loop
    BY <1>1 DEF Begin, ConfigArgument, CommandArgument, InfoOrUsage, LoadConfig,
                NewConnector, InstallHandler, Goto, Exit, Starting
  <2>2. attempt' = 0 /\ lag' = 0
    BY <2>1 DEF Progress, Clock, loop
  <2>3. at' = "top" => WorstSend' \in Nat
    <3>1. file' = file
      BY <1>1 DEF Begin, ConfigArgument, CommandArgument, InfoOrUsage, LoadConfig,
                  NewConnector, InstallHandler, environs
    <3>2. at' = "top" => Validate(config)'
      BY CheckedNext, <1>1 DEF ProcNext, Checked, InTheLoop
    <3>3. at' = "top" => Validate(config)
      BY <3>1, <3>2, SameConfig
    <3>4. at' = "top" => WorstSend \in Nat
      BY <3>3, BudgetBounded, Limits
    <3> QED BY <3>1, <3>4, SameConfig
  <2> QED BY <2>1, <2>2, <2>3 DEF Clock, Starting
<1>2. CASE Interrupt \/ Kill \/ UNCHANGED vars
  <2>1. /\ UNCHANGED <<attempt, slice, age, drift, lag>>
        /\ Timeout' = Timeout /\ Slices' = Slices /\ WorstSend' = WorstSend
    BY <1>2, SameConfig DEF Interrupt, Kill, environs, loop, vars
  <2>2. at' = at \/ at' = "exited"
    BY <1>2 DEF Interrupt, Kill, Exit, vars
  <2>3. ~stop' => ~stop
    BY <1>2 DEF Interrupt, Kill, loop, vars
  <2> QED BY <2>1, <2>2, <2>3 DEF Clock, Waited
<1>3. CASE Restart
  BY <1>3 DEF Restart, Clock
<1> QED BY <1>1, <1>2, <1>3

(* ... and what overran is kept apart. *)
LEMMA Elapsed ==
  ASSUME NEW d \in Nat, Elapse(d), age \in Nat, drift \in Nat, lag \in Nat
  PROVE  /\ age' \in Nat /\ drift' \in Nat /\ lag' \in Nat
         /\ \E over \in Nat : age' = age + d + over /\ drift' = drift + over
         /\ lag' = IF stop THEN lag + d ELSE lag
BY ProcessAssumption DEF Elapse

(* What is asked for is what passes, but for the overrun. *)
LEMMA WithoutOverrun ==
  ASSUME NEW asked \in Nat, NEW passed \in Nat, NEW over \in Nat, NEW most \in Nat,
         asked + over <= passed, passed <= most + over
  PROVE  asked <= most
OBVIOUS

LEMMA WithinTheWorst ==
  ASSUME NEW passed \in Nat, NEW over \in Nat, NEW before \in Nat, NEW last \in Nat,
         NEW most \in Nat, before + last <= most, passed <= before + last + over
  PROVE  /\ passed <= most + over
         /\ 0 * 100 <= passed /\ passed <= 0 * 100 + most + over
OBVIOUS

LEMMA ClockRun == Shape /\ Clock /\ Run => Clock'
<1> SUFFICES ASSUME Shape, Clock, Run PROVE Clock'
  OBVIOUS
<1>0. /\ at \in InTheLoop /\ at' \in InTheLoop \cup {"exited"}
      /\ Validate(config) /\ file' = file
      /\ stop' = stop
  BY RunContext
<1>1. Timeout' = Timeout /\ Slices' = Slices /\ WorstSend' = WorstSend
  BY <1>0, SameConfig
<1>2. /\ attempt \in Nat /\ slice \in Nat /\ age \in Nat /\ drift \in Nat /\ lag \in Nat
      /\ attempt <= Attempts /\ slice < Slices
      /\ at \in Sending => attempt >= 1
  BY <1>0 DEF Shape, ProcTypeOK, InLoop, InTheLoop, Progress
<1>3. Timeout \in Nat /\ Slices \in Nat /\ Slices > 0 /\ Attempts \in Nat /\ Attempts >= 1
  BY <1>0, Limits
<1>4. WorstSend \in Nat
  BY <1>0, <1>3, BudgetBounded
<1>5. ASSUME attempt >= 1
      PROVE  /\ Budget(attempt, Timeout) \in Nat
             /\ Budget(attempt, Timeout) + Timeout <= WorstSend
             /\ Budget(attempt + 1, Timeout)
                  = Budget(attempt, Timeout) + Timeout + MAX_RETRY_DELAY_MS
  BY <1>0, <1>2, <1>3, <1>5, BudgetBounded, BudgetIs
<1>6. CASE Stop \/ Report
  BY <1>6 DEF Stop, Report, Exit, Clock, loop
<1>7. CASE MakeHeartbeat
  <2>1. lag = 0 /\ lag' = 0
    BY <1>7 DEF MakeHeartbeat, Clock
  <2>2. Budget(1, Timeout) = 0
    BY <1>3, BudgetIs
  <2> QED BY <1>1, <1>7, <2>1, <2>2 DEF MakeHeartbeat, Goto, Exit, Clock
<1>8. CASE Send
  BY <1>1, <1>8 DEF Send, Goto, Clock, loop
<1>9. ASSUME NEW result, NEW d \in Durations \cup {Timeout}, at = "waiting", Answer(result, d)
      PROVE  Clock'
  <2>1. d \in Nat /\ d <= Timeout
    BY <1>3, <1>9, ProcessAssumption DEF Answer
  <2>2. /\ attempt >= 1 /\ (~stop => lag = 0)
        /\ age <= Budget(attempt, Timeout) + drift /\ lag + drift <= age
    BY <1>2, <1>9 DEF Sending, Clock
  <2>3. PICK over \in Nat :
          /\ age' = age + d + over /\ drift' = drift + over
          /\ lag' = IF stop THEN lag + d ELSE lag
    BY <1>2, <1>9, <2>1, Elapsed DEF Answer
  <2>4. /\ age' \in Nat /\ drift' \in Nat /\ lag' \in Nat
        /\ (~stop => lag' = 0) /\ lag' + drift' <= age'
    BY <1>2, <2>1, <2>2, <2>3
  <2>5. age' <= Budget(attempt, Timeout) + Timeout + drift'
    BY <1>2, <1>3, <1>5, <2>1, <2>2, <2>3
  <2>6. /\ age' <= WorstSend + drift'
        /\ 0 * 100 <= age' /\ age' <= 0 * 100 + WorstSend + drift'
    <3>1. /\ Budget(attempt, Timeout) \in Nat
          /\ Budget(attempt, Timeout) + Timeout <= WorstSend
      BY <1>5, <2>2
    <3> QED BY <1>3, <1>4, <2>4, <2>5, <3>1, WithinTheWorst
  <2>7. CASE Succeed
    <3>1. slice' = 0 /\ at' = "sleeping"
      BY <2>7 DEF Succeed, Goto
    <3>2. Waited(slice)'
      BY <1>1, <2>6, <3>1 DEF Waited
    <3>3. lag' <= WorstSend
      BY <1>4, <2>4, <2>6, WithoutOverrun
    <3>4. lag' <= WorstSend' + 100
      BY <1>1, <1>4, <2>4, <3>3
    <3> QED BY <1>0, <2>4, <3>1, <3>2, <3>4 DEF Clock
  <2>8. CASE BackOff
    <3>1. attempt' = attempt /\ at' = "backoff"
      BY <2>8 DEF BackOff, Goto
    <3>2. age' <= Budget(attempt', Timeout') + Timeout' + drift'
      BY <1>1, <2>5, <3>1
    <3> QED BY <1>0, <2>4, <3>1, <3>2 DEF Clock
  <2>9. CASE GiveUp(result)
    BY <1>0, <2>4, <2>9 DEF GiveUp, Exit, Clock
  <2> QED BY <1>9, <2>7, <2>8, <2>9 DEF Answer
<1>10. CASE Retry
  <2>1. at = "backoff" /\ at' = "sending" /\ attempt' = attempt + 1 /\ attempt >= 1
    BY <1>2, <1>10 DEF Retry, Goto, Sending
  <2>2. Delay \in Nat /\ Delay <= MAX_RETRY_DELAY_MS
    BY <1>0, <1>2, <2>1, DelayCapped DEF Shape, Progress
  <2>3. /\ age <= Budget(attempt, Timeout) + Timeout + drift
        /\ lag + drift <= age /\ (~stop => lag = 0)
    BY <2>1 DEF Clock
  <2>4. PICK over \in Nat :
          /\ age' = age + Delay + over /\ drift' = drift + over
          /\ lag' = IF stop THEN lag + Delay ELSE lag
    BY <1>2, <1>10, <2>2, Elapsed DEF Retry
  <2>5. MAX_RETRY_DELAY_MS \in Nat
    BY DEF MAX_RETRY_DELAY_MS
  <2>6. age' <= Budget(attempt', Timeout') + drift'
    BY <1>1, <1>2, <1>3, <1>5, <2>1, <2>2, <2>3, <2>4, <2>5
  <2>7. (~stop => lag' = 0) /\ lag' + drift' <= age'
    BY <1>2, <2>2, <2>3, <2>4
  <2> QED BY <1>0, <2>1, <2>6, <2>7 DEF Clock
<1>11. CASE Doze
  <2>1. at = "sleeping" /\ at' = "dozing" /\ UNCHANGED <<age, drift, lag>> /\ ~stop
        /\ slice' = (slice + 1) % Slices
    BY <1>11 DEF Doze, Goto
  <2>2. slice = IF slice' = 0 THEN Slices - 1 ELSE slice' - 1
    <3>1. CASE slice + 1 = Slices
      BY <1>2, <1>3, <2>1, <3>1
    <3>2. CASE slice + 1 # Slices
      <4>1. (slice + 1) % Slices = slice + 1
        BY <1>2, <1>3, <3>2
      <4> QED BY <1>2, <2>1, <4>1
    <3> QED BY <3>1, <3>2
  <2>3. Waited(slice) /\ lag = 0
    BY <2>1 DEF Clock
  <2>4. Waited(IF slice = 0 THEN Slices - 1 ELSE slice - 1)'
    BY <1>1, <2>1, <2>2, <2>3 DEF Waited
  <2> QED BY <1>0, <2>1, <2>3, <2>4 DEF Clock
<1>12. CASE Wake
  <2>1. at = "dozing" /\ at' = (IF slice = 0 THEN "top" ELSE "sleeping")
        /\ UNCHANGED <<slice, attempt>>
    BY <1>12 DEF Wake, Goto
  <2>2. lag = 0 /\ Waited(IF slice = 0 THEN Slices - 1 ELSE slice - 1)
    BY <2>1 DEF Clock
  <2>3. PICK over \in Nat :
          /\ age' = age + 100 + over /\ drift' = drift + over
          /\ lag' = IF stop THEN lag + 100 ELSE lag
    BY <1>2, <1>12, Elapsed DEF Wake
  <2>4. lag' <= WorstSend' + 100 /\ (~stop => lag' = 0)
    BY <1>1, <1>4, <2>2, <2>3
  <2>5. at' = "top" => Waited(Slices)'
    BY <1>1, <1>2, <1>3, <1>4, <2>1, <2>2, <2>3 DEF Waited
  <2>6. at' = "sleeping" => Waited(slice)'
    BY <1>1, <1>2, <1>3, <1>4, <2>1, <2>2, <2>3 DEF Waited
  <2> QED BY <1>0, <2>1, <2>4, <2>5, <2>6 DEF Clock
<1> QED BY <1>6, <1>7, <1>8, <1>9, <1>10, <1>11, <1>12 DEF Run

-----------------------------------------------------------------------------
(* Which heartbeats have been delivered, by where the process is.           *)
Outcome ==
  /\ \A n \in delivered : n \in Nat /\ n <= heartbeat.nonce
  /\ at \in Sending => heartbeat.nonce \notin delivered
  /\ at \in {"sleeping", "dozing"} => heartbeat.nonce \in delivered /\ attempt # 0
  /\ ExitStatusTells

(* Only a payload near its limit makes a body that is beyond it. *)
LEMMA OnlyNearTheLimit ==
  ASSUME file \in Files, Validate(config), ~(BodySize(config) <= MAX_PAYLOAD_BYTES)
  PROVE  config.payload > MAX_PAYLOAD_BYTES - Envelope
<1>1. config.payload \in Nat
  BY FilesAssumption DEF config, Parsed, Fields, Defaults
<1>2. config.status \in {"online", "offline", "degraded"}
  BY Limits
<1>3. [online |-> 6, offline |-> 7, degraded |-> 8][config.status] \in {6, 7, 8}
  BY <1>2
<1> HIDE DEF config
<1> QED BY <1>1, <1>3 DEF BodySize, Envelope, MAX_PAYLOAD_BYTES

LEMMA OutcomeInit == ProcInit => Outcome
BY DEF ProcInit, Outcome, Sending, ExitStatusTells

LEMMA OutcomeNext == Shape /\ Outcome /\ [ProcNext]_vars => Outcome'
<1> SUFFICES ASSUME Shape, Outcome, [ProcNext]_vars PROVE Outcome'
  OBVIOUS
<1>0. heartbeat.nonce \in Nat
  BY NonceIsNumber DEF Shape
<1>1. ASSUME UNCHANGED <<heartbeat, delivered, attempt>>, at' \notin Sending \cup {"sleeping", "dozing", "exited"}
      PROVE  Outcome'
  BY <1>1 DEF Outcome, ExitStatusTells
<1>2. ASSUME UNCHANGED <<heartbeat, delivered>>, at' = "exited",
             code' = "0" => \/ exit' = "info"
                            \/ command' = "once" /\ attempt' # 0 /\ heartbeat.nonce \in delivered
                            \/ command' = "run" /\ stop',
             exit' \in {"transient", "fatal"} => code' = "1" /\ heartbeat.nonce \notin delivered,
             exit' # "body"
      PROVE  Outcome'
  BY <1>2 DEF Outcome, ExitStatusTells, Sending
<1>3. CASE Begin
  <2>1. UNCHANGED <<heartbeat, delivered, attempt>>
    BY <1>3 DEF Begin, ConfigArgument, CommandArgument, InfoOrUsage, LoadConfig,
                NewConnector, InstallHandler, loop
  <2>2. \/ at' \in {"arguments", "new", "handler", "top"}
        \/ /\ at' = "exited" /\ (code' = "0" => exit' = "info")
           /\ exit' \notin {"transient", "fatal", "body"}
    BY <1>3 DEF Begin, ConfigArgument, CommandArgument, InfoOrUsage, LoadConfig,
                NewConnector, InstallHandler, Goto, Exit
  <2> QED BY <1>1, <1>2, <2>1, <2>2 DEF Sending
<1>4. CASE Stop
  <2>1. at' = "exited" /\ stop' /\ command' = "run" /\ exit' = "stopped"
        /\ UNCHANGED <<heartbeat, delivered>>
    BY <1>4 DEF Stop, Exit, Shape, Progress, environs, loop
  <2> QED BY <1>2, <2>1
<1>5. CASE MakeHeartbeat
  <2>1. CASE at' = "sending"
    <3>1. heartbeat'.nonce = heartbeat.nonce + 1 /\ delivered' = delivered
      BY <1>5, <2>1 DEF MakeHeartbeat, Goto, Exit
    <3>2. \A n \in delivered : n \in Nat /\ n <= heartbeat.nonce
      BY DEF Outcome
    <3>3. heartbeat'.nonce \notin delivered'
      BY <1>0, <3>1, <3>2
    <3>4. \A n \in delivered' : n \in Nat /\ n <= heartbeat'.nonce
      BY <1>0, <3>1, <3>2
    <3> QED BY <2>1, <3>3, <3>4 DEF Outcome, ExitStatusTells, Sending
  <2>2. CASE at' # "sending"
    <3>1. /\ at = "top" /\ at' = "exited" /\ code' = "1" /\ exit' = "body"
          /\ ~(BodySize(config) <= MAX_PAYLOAD_BYTES)
          /\ UNCHANGED <<heartbeat, delivered, attempt, file>>
      BY <1>5, <2>2 DEF MakeHeartbeat, Goto, Exit, environs
    <3>2. config' = config /\ Validate(config)
      BY <3>1, SameConfig DEF Shape, Checked, InTheLoop
    <3>3. attempt = 0
      BY <3>1 DEF Shape, Progress
    <3>4. config.payload > MAX_PAYLOAD_BYTES - Envelope
      BY <3>1, <3>2, OnlyNearTheLimit DEF Shape, ProcTypeOK
    <3> QED BY <3>1, <3>2, <3>3, <3>4 DEF Outcome, ExitStatusTells, Sending
  <2> QED BY <2>1, <2>2
<1>6. CASE Send \/ Retry \/ Doze \/ Wake
  <2>1. /\ UNCHANGED <<heartbeat, delivered>>
        /\ at' # "exited"
        /\ at' \in Sending => at \in Sending
        /\ at' \in {"sleeping", "dozing"} => at \in {"sleeping", "dozing"} /\ attempt' = attempt
    BY <1>6 DEF Send, Retry, Doze, Wake, Goto, Sending, loop
  <2> QED BY <2>1 DEF Outcome, ExitStatusTells
<1>7. ASSUME NEW result, NEW d, at = "waiting", Answer(result, d)
      PROVE  Outcome'
  <2>1. heartbeat.nonce \notin delivered /\ attempt # 0
    BY <1>7 DEF Outcome, Shape, Progress, ProcTypeOK, Sending
  <2>2. CASE Succeed
    BY <1>0, <2>1, <2>2 DEF Succeed, Goto, Outcome, ExitStatusTells, Sending
  <2>3. CASE BackOff
    BY <2>1, <2>3 DEF BackOff, Goto, Outcome, ExitStatusTells, Sending
  <2>4. CASE GiveUp(result)
    <3>1. /\ at' = "exited" /\ code' = "1" /\ exit' # "body"
          /\ UNCHANGED <<heartbeat, delivered>>
      BY <2>4 DEF GiveUp, Exit
    <3> QED BY <1>2, <2>1, <3>1
  <2> QED BY <1>7, <2>2, <2>3, <2>4 DEF Answer
<1>8. CASE Report
  <2>1. /\ at' = "exited" /\ exit' = "done" /\ command' = "once"
        /\ UNCHANGED <<heartbeat, delivered, attempt>>
        /\ heartbeat.nonce \in delivered /\ attempt # 0
    BY <1>8 DEF Report, Exit, environs, loop, Outcome
  <2> QED BY <1>2, <2>1
<1>9. CASE Interrupt \/ Kill
  <2>1. UNCHANGED <<heartbeat, delivered, attempt>>
    BY <1>9 DEF Interrupt, Kill, loop
  <2>2. \/ at' = at /\ at # "exited"
        \/ at' = "exited" /\ code' = "signal" /\ exit' = "killed"
    BY <1>9 DEF Interrupt, Kill, Exit
  <2> QED BY <1>2, <2>1, <2>2 DEF Outcome, ExitStatusTells
<1>10. CASE Restart
  BY <1>10 DEF Restart, Outcome, ExitStatusTells, Sending
<1>11. CASE UNCHANGED vars
  <2>1. config' = config
    BY <1>11, SameConfig DEF vars, environs
  <2> QED BY <1>11, <2>1 DEF vars, environs, Outcome, ExitStatusTells
<1> QED BY <1>3, <1>4, <1>5, <1>6, <1>7, <1>8, <1>9, <1>10, <1>11 DEF ProcNext, Run

-----------------------------------------------------------------------------
Invariant == Shape /\ Clock /\ Outcome

(* Every state of the program is within the bounds of this invariant, the  *)
(* one the theorems below are read off from.                               *)
THEOREM InvariantHolds == ProcSpec => []Invariant
<1>1. ProcInit => Invariant
  BY ShapeInit, ClockInit, OutcomeInit DEF Invariant
<1>2. Invariant /\ [ProcNext]_vars => Invariant'
  BY ShapeNext, ClockOutside, ClockRun, OutcomeNext DEF Invariant, ProcNext
<1> QED BY <1>1, <1>2, PTL DEF ProcSpec

(* Types, and that the loop runs only within the limits of validate.       *)
THEOREM ProcTypesCorrect == ProcSpec => []ProcTypeOK
<1>1. Invariant => ProcTypeOK
  BY DEF Invariant, Shape
<1> QED BY <1>1, InvariantHolds, PTL

(* No request leaves a process one of whose checks fails, whatever the     *)
(* file, the secrets and the arguments.                                    *)
THEOREM SendsOnlyChecked == ProcSpec => []NothingSentUnchecked
<1>1. ASSUME Invariant, InSendOnce PROVE NothingSentUnchecked
  <2>1. /\ Deserializes(file) /\ Validate(config)
        /\ ReadCredential(config) /\ ReadAccessCredentials(config)
        /\ BodySize(config) <= MAX_PAYLOAD_BYTES
    BY <1>1 DEF Invariant, Shape, Checked, InSendOnce, InTheLoop
  <2>2. file \in Files
    BY <1>1 DEF Invariant, Shape, ProcTypeOK
  <2>3. config.credential_env \in {"none", "good", "malformed", "unavailable"}
    BY <2>2, FilesAssumption DEF config, Parsed, Fields, Defaults
  <2>4. \A x \in SecretFiles : config[x] \in {"none", "good", "malformed", "exposed", "unavailable"}
    BY <2>2, FilesAssumption DEF config, Parsed, Fields, Defaults, SecretFiles
  <2>5. /\ config.credential_file \in {"none", "good", "malformed", "exposed", "unavailable"}
        /\ config.access_client_id_file \in {"none", "good", "malformed", "exposed", "unavailable"}
        /\ config.access_client_secret_file \in {"none", "good", "malformed", "exposed", "unavailable"}
    BY <2>4 DEF SecretFiles
  <2>6. /\ ~(config.credential_file = "none" <=> config.credential_env = "none")
        /\ (config.access_client_id_file = "none" <=> config.access_client_secret_file = "none")
    BY <2>1, Zenon DEF Validate
  <2>7. {config.credential_file, config.credential_env} \subseteq {"none", "good"}
    BY <2>1, <2>3, <2>5, <2>6 DEF ReadCredential, OwnerOnly, WellFormed
  <2>8. {config.access_client_id_file, config.access_client_secret_file} \subseteq {"none", "good"}
    BY <2>1, <2>5, <2>6 DEF ReadAccessCredentials, OwnerOnly, WellFormed
  <2> QED BY <2>1, <2>7, <2>8 DEF NothingSentUnchecked
<1>2. Invariant => NothingSentUnchecked
  BY <1>1 DEF NothingSentUnchecked
<1> QED BY <1>2, InvariantHolds, PTL

(* Only a sixth attempt after timeouts of 55 s, or sleeps and requests     *)
(* that overran by more than the margin, resend what the Worker finds too  *)
(* old.                                                                    *)
THEOREM FreshUnlessExtreme == ProcSpec => []FreshWhenSent
<1>1. ASSUME Invariant, at = "sending", age > HEARTBEAT_MAX_AGE_MS, drift <= Margin
      PROVE  attempt > MAX_RETRIES /\ config.timeout_secs >= 55
  <2>1. /\ age \in Nat /\ drift \in Nat
        /\ attempt \in Nat /\ attempt >= 1 /\ attempt <= Attempts
    BY <1>1 DEF Invariant, Shape, ProcTypeOK, Progress, Sending, InLoop
  <2>2. Validate(config)
    BY <1>1 DEF Invariant, Shape, Checked, InTheLoop
  <2>3. age <= Budget(attempt, Timeout) + drift
    BY <1>1 DEF Invariant, Clock
  <2>4. drift <= 5000
    BY <1>1 DEF Margin, HEARTBEAT_MAX_AGE_MS, MAX_RETRIES, MAX_RETRY_DELAY_MS
  <2>5. age <= (attempt - 1) * (Timeout + 5000) + drift /\ age > 300000
    BY <1>1, <2>3 DEF Budget, MAX_RETRY_DELAY_MS, HEARTBEAT_MAX_AGE_MS
  <2>6. /\ Timeout \in Nat /\ Timeout = config.timeout_secs * 1000 /\ Timeout <= 60000
        /\ config.timeout_secs \in Nat
        /\ config.max_retries \in Nat /\ config.max_retries <= 5
        /\ Attempts = config.max_retries + 1
    BY <2>2, Limits
  <2>7. attempt \in 1 .. 6
    BY <2>1, <2>6
  <2>8. attempt = 6 /\ config.timeout_secs >= 55
    BY <2>1, <2>4, <2>5, <2>6, <2>7
  <2> QED BY <2>8 DEF MAX_RETRIES
<1>2. ASSUME Invariant PROVE drift \in Nat /\ Margin \in Nat
  BY <1>2 DEF Invariant, Shape, ProcTypeOK, Margin, HEARTBEAT_MAX_AGE_MS, MAX_RETRIES,
              MAX_RETRY_DELAY_MS
<1>3. Invariant => FreshWhenSent
  BY <1>1, <1>2 DEF FreshWhenSent
<1> QED BY <1>3, InvariantHolds, PTL

(* An interrupted program asks to be blocked no longer than one send_once  *)
(* and one slice take.                                                     *)
THEOREM ShutdownBounded == ProcSpec => []StopBounded
<1>1. ASSUME Invariant, InLoop PROVE lag <= WorstSend + 100
  <2>1. /\ Validate(config) /\ attempt \in Nat /\ attempt <= Attempts
        /\ age \in Nat /\ lag \in Nat
        /\ at \in Sending => attempt >= 1
    BY <1>1 DEF Invariant, Shape, Checked, ProcTypeOK, Progress, Sending, InLoop, InTheLoop
  <2>2. WorstSend \in Nat
    BY <2>1, Limits, BudgetBounded
  <2>3. CASE at \in Sending
    <3>1. Budget(attempt, Timeout) + Timeout <= WorstSend
      BY <2>1, <2>3, BudgetBounded
    <3>2. Budget(attempt, Timeout) \in Nat /\ Timeout \in Nat
      BY <2>1, <2>3, Limits, BudgetIs
    <3>3. /\ drift \in Nat /\ lag + drift <= age
          /\ \/ age <= Budget(attempt, Timeout) + drift
             \/ age <= Budget(attempt, Timeout) + Timeout + drift
      BY <1>1, <2>3 DEF Invariant, Shape, ProcTypeOK, Clock, Sending
    <3> QED BY <2>1, <2>2, <3>1, <3>2, <3>3
  <2>4. CASE at \in {"top", "sleeping", "dozing"}
    BY <1>1, <2>2, <2>4 DEF Invariant, Clock
  <2> QED BY <1>1, <2>3, <2>4 DEF InLoop, Sending
<1>2. Invariant => StopBounded
  BY <1>1 DEF StopBounded
<1> QED BY <1>2, InvariantHolds, PTL

(* The exit status is 0 only for a delivered heartbeat or an interrupt (or *)
(* for --help and --version), and a reported error means none was.         *)
THEOREM ExitStatusRight == ProcSpec => []ExitStatusTells
<1>1. Invariant => ExitStatusTells
  BY DEF Invariant, Outcome
<1> QED BY <1>1, InvariantHolds, PTL

(* Between two heartbeats of a process lies the interval, and no more than *)
(* one send_once and the overruns besides.                                 *)
THEOREM SpacingKept == ProcSpec => Spacing
<1>1. ASSUME Invariant, [ProcNext]_vars, heartbeat' # heartbeat, attempt # 0
      PROVE  /\ age >= config.interval_secs * 1000
             /\ age <= config.interval_secs * 1000 + WorstSend + drift
  <2>1. MakeHeartbeat
    <3>1. \/ Begin \/ Stop \/ Send \/ Retry \/ Report \/ Doze \/ Wake
          \/ \E result, d : Answer(result, d)
          \/ Interrupt \/ Kill \/ Restart \/ UNCHANGED vars
          => heartbeat' = heartbeat
      BY DEF Begin, ConfigArgument, CommandArgument, InfoOrUsage, LoadConfig, NewConnector,
             InstallHandler, Stop, Send, Retry, Report, Doze, Wake, Answer, Succeed, BackOff,
             GiveUp, Interrupt, Kill, Restart, vars, loop
    <3> QED BY <1>1, <3>1 DEF ProcNext, Run
  <2>2. at = "top"
    BY <2>1 DEF MakeHeartbeat
  <2>3. Waited(Slices)
    BY <1>1, <2>2 DEF Invariant, Clock
  <2>4. Validate(config)
    BY <1>1, <2>2 DEF Invariant, Shape, Checked, InTheLoop
  <2>5. Slices * 100 = config.interval_secs * 1000
    BY <2>4, Limits
  <2> QED BY <1>1, <2>3, <2>5 DEF Waited, Invariant, Shape, ProcTypeOK
<1>2. Invariant /\ [ProcNext]_vars =>
        [heartbeat' # heartbeat /\ attempt # 0 =>
           /\ age >= config.interval_secs * 1000
           /\ age <= config.interval_secs * 1000 + WorstSend + drift]_vars
  BY <1>1
<1> QED BY <1>2, InvariantHolds, PTL DEF ProcSpec, Spacing

-----------------------------------------------------------------------------
(* The program implements Connector: the mapping, ...                      *)
MappedExit == IF exit \in {"running", "stopped", "transient", "fatal"} THEN exit ELSE "killed"

LEMMA ModeIs ==
  /\ at \in Starting \cup {"top"} => Mode = "top"
  /\ at \in {"sending", "waiting", "backoff", "sleeping", "exited"} => Mode = at
  /\ at = "dozing" => Mode = IF slice = 0 THEN "top" ELSE "sleeping"
BY DEF Mode, Starting

LEMMA ConfigIs ==
  ASSUME Deserializes(file), Validate(config)
  PROVE  /\ Loaded(file).status = config.status
         /\ Loaded(file).retries + 1 = Attempts
         /\ Loaded(file).slices = Slices
BY DEF Loaded, config, Attempts, Slices

(* ... that a step that only moves on before the loop, or wakes up, maps   *)
(* to none, ...                                                            *)
LEMMA Stutters ==
  ASSUME UNCHANGED loop, Mode' = Mode, file' = file, MappedExit' = MappedExit
  PROVE  UNCHANGED Conn!conn
BY DEF loop, Loaded, Parsed, Conn!conn, MappedExit

(* ... and that whatever ends the process for a reason Connector does not  *)
(* know is a kill.                                                         *)
LEMMA Killed ==
  ASSUME at # "exited", at \in Starting \cup InTheLoop,
         at' = "exited", exit' \notin {"running", "stopped", "transient", "fatal"},
         UNCHANGED loop, file' = file
  PROVE  Conn!Kill
<1>1. Mode # "exited"
  BY ModeIs DEF Starting, InTheLoop
<1>2. Mode' = "exited" /\ MappedExit' = "killed"
  BY DEF Mode, MappedExit
<1>3. Loaded(file)' = Loaded(file)
  BY DEF Loaded, Parsed
<1> QED BY <1>1, <1>2, <1>3 DEF Conn!Kill, Conn!Exit, loop, MappedExit

LEMMA BeginImplements == Shape /\ Begin => [Conn!ConnNext]_(Conn!conn)
<1> SUFFICES ASSUME Shape, Begin PROVE Conn!Kill \/ UNCHANGED Conn!conn
  BY DEF Conn!ConnNext
<1>1. /\ at \in Starting /\ UNCHANGED loop /\ file' = file
      /\ \/ at' \in Starting \cup {"top"} /\ exit' = exit
         \/ at' = "exited" /\ exit' \in {"info", "usage", "startup"}
  BY DEF Begin, ConfigArgument, CommandArgument, InfoOrUsage, LoadConfig,
         NewConnector, InstallHandler, Goto, Exit, Starting, environs
<1>2. CASE at' = "exited" /\ exit' \in {"info", "usage", "startup"}
  <2>1. at # "exited"
    BY <1>1 DEF Starting
  <2> QED BY <1>1, <1>2, <2>1, Killed
<1>3. CASE at' \in Starting \cup {"top"} /\ exit' = exit
  <2>1. Mode' = Mode /\ MappedExit' = MappedExit
    BY <1>1, <1>3 DEF Mode, MappedExit, Starting
  <2> QED BY <1>1, <2>1, Stutters
<1> QED BY <1>1, <1>2, <1>3

LEMMA RunImplements == Shape /\ Run => [Conn!ConnNext]_(Conn!conn)
<1> SUFFICES ASSUME Shape, Run PROVE Conn!ConnNext \/ UNCHANGED Conn!conn
  OBVIOUS
<1>0. /\ at \in InTheLoop /\ file' = file
      /\ Deserializes(file) /\ Validate(config)
      /\ exit = "running" /\ MappedExit = "running"
  BY RunContext DEF Shape, Checked, Progress, InTheLoop, MappedExit
<1>1. /\ Loaded(file)' = Loaded(file)
      /\ Loaded(file).status = config.status
      /\ Loaded(file).retries + 1 = Attempts
      /\ Loaded(file).slices = Slices
  BY <1>0, ConfigIs DEF Loaded, Parsed
<1>2. CASE Stop
  <2>1. Conn!Stop
    BY <1>1, <1>2, ModeIs DEF Stop, Exit, Conn!Stop, Conn!Exit, loop, Mode, MappedExit
  <2> QED BY <2>1 DEF Conn!ConnNext
<1>3. CASE MakeHeartbeat
  <2>1. CASE at' = "sending"
    <3>1. Conn!StartHeartbeat(Stamp)
      BY <1>0, <1>1, <1>3, <2>1, ModeIs
         DEF MakeHeartbeat, Goto, Exit, Conn!StartHeartbeat, Mode, MappedExit
    <3> QED BY <3>1 DEF Conn!ConnNext
  <2>2. CASE at' # "sending"
    <3>1. at = "top" /\ at' = "exited" /\ exit' = "body" /\ UNCHANGED loop
      BY <1>3, <2>2 DEF MakeHeartbeat, Goto, Exit, loop
    <3>2. Conn!Kill
      BY <1>0, <3>1, Killed
    <3> QED BY <3>2 DEF Conn!ConnNext
  <2> QED BY <2>1, <2>2
<1>4. CASE Send
  <2>1. Conn!Send
    BY <1>0, <1>1, <1>4, ModeIs DEF Send, Goto, Conn!Send, loop, Mode, MappedExit
  <2> QED BY <2>1 DEF Conn!ConnNext
<1>5. ASSUME NEW result \in {"accepted", "transient", "fatal"}, NEW d,
             at = "waiting", Answer(result, d)
      PROVE  Conn!ConnNext
  <2>1. CASE result = "accepted" /\ Succeed
    <3>1. Conn!Succeed
      BY <1>0, <1>1, <2>1, ModeIs DEF Succeed, Goto, Conn!Succeed, Mode, MappedExit
    <3> QED BY <2>1, <3>1 DEF Conn!Answer, Conn!ConnNext, Conn!Results
  <2>2. CASE result = "transient" /\ BackOff
    <3>1. Conn!BackOff("transient")
      BY <1>0, <1>1, <2>2, ModeIs DEF BackOff, Goto, Conn!BackOff, Conn!Attempts, Mode, MappedExit
    <3> QED BY <2>2, <3>1 DEF Conn!Answer, Conn!ConnNext, Conn!Results
  <2>3. CASE GiveUp(result)
    <3>1. Conn!GiveUp(result)
      BY <1>0, <1>1, <2>3, ModeIs DEF GiveUp, Exit, Conn!GiveUp, Conn!Exit, Conn!Attempts, Mode, MappedExit
    <3> QED BY <3>1 DEF Conn!Answer, Conn!ConnNext, Conn!Results
  <2> QED BY <1>5, <2>1, <2>2, <2>3 DEF Answer
<1>6. CASE Retry
  <2>1. Conn!Retry
    BY <1>0, <1>1, <1>6, ModeIs DEF Retry, Goto, Conn!Retry, Mode, MappedExit, Elapse
  <2> QED BY <2>1 DEF Conn!ConnNext
<1>7. CASE Report
  <2>1. at = "sleeping" /\ at' = "exited" /\ exit' = "done" /\ UNCHANGED loop
    BY <1>7 DEF Report, Exit
  <2>2. Conn!Kill
    BY <1>0, <2>1, Killed
  <2> QED BY <2>2 DEF Conn!ConnNext
<1>8. CASE Doze
  <2>1. Conn!Sleep
    BY <1>0, <1>1, <1>8, ModeIs DEF Doze, Goto, Conn!Sleep, Conn!SleepSlice, Mode, MappedExit
  <2> QED BY <2>1 DEF Conn!ConnNext
<1>9. CASE Wake
  <2>1. Mode' = Mode /\ exit' = exit
        /\ UNCHANGED <<heartbeat, attempt, slice, stop, delivered, restarts>>
    BY <1>9, ModeIs DEF Wake, Goto, Mode
  <2> QED BY <1>1, <2>1 DEF Conn!conn, MappedExit
<1> QED BY <1>2, <1>3, <1>4, <1>5, <1>6, <1>7, <1>8, <1>9 DEF Run

LEMMA EnvironmentImplements ==
  Shape /\ (Interrupt \/ Kill \/ Restart) => [Conn!ConnNext]_(Conn!conn)
<1> SUFFICES ASSUME Shape, Interrupt \/ Kill \/ Restart PROVE Conn!ConnNext
  OBVIOUS
<1>1. at \in Starting \cup InTheLoop \cup {"exited"}
  BY DEF Shape, ProcTypeOK, Starting, InTheLoop
<1>2. ASSUME at # "exited", at' = "exited", exit' = "killed", UNCHANGED loop, file' = file
      PROVE  Conn!ConnNext
  BY <1>1, <1>2, Killed DEF Conn!ConnNext
<1>3. CASE Interrupt
  <2>1. CASE Handled
    <3>1. at \in InTheLoop
      BY <1>1, <2>1 DEF Handled, Starting
    <3>2. Loaded(file)' = Loaded(file) /\ Mode' = Mode /\ Mode # "exited"
      BY <1>3, <2>1, <3>1, ModeIs DEF Interrupt, environs, Loaded, Parsed, Mode, InTheLoop
    <3>3. Conn!Interrupt
      BY <1>3, <2>1, <3>2 DEF Interrupt, Conn!Interrupt
    <3> QED BY <3>3 DEF Conn!ConnNext
  <2>2. CASE ~Handled
    BY <1>2, <1>3, <2>2 DEF Interrupt, Exit, environs, loop
  <2> QED BY <2>1, <2>2
<1>4. CASE Kill
  BY <1>2, <1>4 DEF Kill, Exit, environs
<1>5. CASE Restart
  <2>1. Loaded(file)' \in LoadedConfigs /\ LoadedConfigs' = LoadedConfigs
    BY <1>5 DEF Restart, LoadedConfigs, Loaded, Parsed
  <2>2. Mode = "exited" /\ Mode' = "top" /\ MappedExit' = "running"
    BY <1>5, ModeIs DEF Restart, Mode, MappedExit
  <2>3. Conn!Restart
    BY <1>5, <2>1, <2>2 DEF Restart, Conn!Restart, MappedExit
  <2> QED BY <2>3 DEF Conn!ConnNext
<1> QED BY <1>3, <1>4, <1>5

(* The safety part of ImplementsConnector: whatever Connector may never do *)
(* the program never does.                                                 *)
THEOREM ProgramImplementsConnector ==
  ProcSpec => Conn!ConnInit /\ [][Conn!ConnNext]_(Conn!conn)
<1>1. ProcInit => Conn!ConnInit
  BY ModeIs DEF ProcInit, Conn!ConnInit, LoadedConfigs, NoHeartbeat, Conn!NoHeartbeat, Mode
<1>2. Invariant /\ [ProcNext]_vars => [Conn!ConnNext]_(Conn!conn)
  <2>1. ASSUME UNCHANGED vars PROVE UNCHANGED Conn!conn
    <3>1. UNCHANGED loop /\ Mode' = Mode /\ file' = file /\ MappedExit' = MappedExit
      BY <2>1 DEF vars, environs, loop, Mode, MappedExit
    <3> QED BY <3>1, Stutters
  <2> QED BY <2>1, BeginImplements, RunImplements, EnvironmentImplements
          DEF Invariant, ProcNext
<1> QED BY <1>1, <1>2, InvariantHolds, PTL DEF ProcSpec
=============================================================================
