--------------------------- MODULE EventBusProofs ---------------------------
(***************************************************************************)
(* Theorems about the readers of the event log: the rules, whose effects   *)
(* are bounded, and the cursors of both readers, which pass nothing.       *)
(***************************************************************************)
EXTENDS MCEventBus, NumberLemmas, TLAPS

-----------------------------------------------------------------------------
(***************************************************************************)
(* Effects of rules                                                        *)
(***************************************************************************)

(* The inductive invariant *)

\* the effects the runs of a row allow it
Allowed(k) == runs[k] * Budget(k)
\* one of its runs has had no effect yet
RunLeft(k) == effects[k] + Budget(k) <= Allowed(k)
\* but for that run's first n attempts
RunUsed(k, n) == effects[k] + Budget(k) <= Allowed(k) + n

Typed ==
    /\ DOMAIN consumer = {"pc", "at", "plan", "batch", "claimed"}
    /\ row \in [Key -> Status]
    /\ worker \in [Key -> [pc : {"idle", "claimed", "acting", "acted", "dying"},
                           tries : 0..MaxAttempts]]
    /\ effects \in [Key -> Nat] /\ runs \in [Key -> Nat]

Claimed(k) == consumer.pc = "starting" /\ k \in consumer.claimed

\* Whoever may act for a row holds one of its runs; attempts are used up one by
\* one, within the budget; and a row has one worker, as it is running meanwhile.
Accounted(k) ==
    /\ effects[k] <= Allowed(k)
    /\ row[k] = "none" => effects[k] = 0
    /\ row[k] = "queued" \/ Claimed(k) \/ worker[k].pc = "claimed" => RunLeft(k)
    /\ worker[k].pc = "acting" =>
          worker[k].tries \in 1..Budget(k) /\ RunUsed(k, worker[k].tries - 1)
    /\ worker[k].pc = "acted" => worker[k].tries \in 1..Budget(k) /\ RunUsed(k, worker[k].tries)
    /\ worker[k].pc # "idle" \/ Claimed(k) => row[k] = "running"
    /\ Claimed(k) => worker[k].pc = "idle"
    /\ ~Up => worker[k].pc = "idle"

RulesInv == Typed /\ \A k \in Key : Accounted(k)

LEMMA BudgetType == \A k \in Key : Budget(k) \in 1..MaxAttempts
  BY RulesAssumption DEF Budget

\* one run more allows a budget more
LEMMA OneRunMore ==
  ASSUME NEW n \in Nat, NEW b \in Nat
  PROVE  (n + 1) * b = n * b + b /\ n * b \in Nat
  OBVIOUS

LEMMA AllowedType == RulesInv => \A k \in Key : Allowed(k) \in Nat
<1>1. ASSUME RulesInv, NEW k \in Key PROVE runs[k] \in Nat /\ Budget(k) \in Nat
  BY <1>1, BudgetType, RulesAssumption DEF RulesInv, Typed
<1>2. QED
  BY <1>1, OneRunMore DEF Allowed

-----------------------------------------------------------------------------
(* It is preserved *)

LEMMA StoppedIs ==
  ASSUME NEW pc
  PROVE  /\ DOMAIN Stopped(pc) = {"pc", "at", "plan", "batch", "claimed"}
         /\ Stopped(pc).pc = pc /\ Stopped(pc).claimed = {}
  BY DEF Stopped

LEMMA DrainingIs ==
  ASSUME NEW at, BackToDraining(at)
  PROVE  DOMAIN consumer' = {"pc", "at", "plan", "batch", "claimed"} /\ consumer'.pc = "draining"
  BY DEF BackToDraining, Stopped

LEMMA InitRulesInv == Init => RulesInv
<1> SUFFICES ASSUME Init PROVE RulesInv
  OBVIOUS
<1>1. Idle \in [pc : {"idle", "claimed", "acting", "acted", "dying"}, tries : 0..MaxAttempts]
  BY RulesAssumption DEF Idle
<1>2. Typed
  BY <1>1, StoppedIs DEF Init, Typed, Status
<1>3. ASSUME NEW k \in Key PROVE Accounted(k)
  <2>1. Budget(k) \in Nat
    BY BudgetType, RulesAssumption
  <2>2. Allowed(k) = 0
    BY <2>1 DEF Init, Allowed
  <2>3. ~Claimed(k)
    BY StoppedIs DEF Init, Claimed
  <2>4. QED
    BY <2>2, <2>3 DEF Init, Accounted, Idle
<1>4. QED
  BY <1>2, <1>3 DEF RulesInv

\* a row that a step leaves alone
LEMMA LeftAlone ==
  ASSUME RulesInv, NEW k \in Key, row'[k] = row[k], worker'[k] = worker[k],
         effects'[k] = effects[k], runs'[k] = runs[k], Claimed(k)' => Claimed(k),
         ~Up' => ~Up
  PROVE  Accounted(k)'
<1>1. Allowed(k)' = Allowed(k)
  BY DEF Allowed
<1>2. Accounted(k)
  BY DEF RulesInv
<1>3. QED
  BY <1>1, <1>2 DEF Accounted, RunLeft, RunUsed

LEMMA QuietKeeps ==
  ASSUME RulesInv, UNCHANGED <<row, worker, effects, runs>>,
         DOMAIN consumer' = {"pc", "at", "plan", "batch", "claimed"},
         consumer'.pc = "starting" => UNCHANGED consumer, ~Up' => ~Up
  PROVE  RulesInv'
<1>1. Typed'
  BY DEF RulesInv, Typed
<1>2. ASSUME NEW k \in Key PROVE Accounted(k)'
  BY LeftAlone DEF Claimed
<1>3. QED
  BY <1>1, <1>2 DEF RulesInv

\* a row that is put in the queue once more, which nobody works on
LEMMA QueuedAgain ==
  ASSUME RulesInv, NEW k \in Key, row'[k] = "queued", runs'[k] = runs[k] + 1,
         effects'[k] = effects[k], worker'[k] = worker[k], worker[k].pc = "idle", ~Claimed(k)'
  PROVE  Accounted(k)'
<1>1. runs[k] \in Nat /\ Budget(k) \in Nat /\ effects[k] \in Nat /\ effects[k] <= Allowed(k)
  BY BudgetType, RulesAssumption DEF RulesInv, Typed, Accounted
<1>2. Allowed(k)' = Allowed(k) + Budget(k) /\ Allowed(k) \in Nat
  BY <1>1, OneRunMore DEF Allowed
<1>3. RunLeft(k)' /\ effects'[k] <= Allowed(k)'
  BY <1>1, <1>2 DEF RunLeft
<1>4. QED
  BY <1>3 DEF Accounted

LEMMA RequeueKeeps ==
  ASSUME RulesInv, NEW k \in Key, Requeue(k)
  PROVE  RulesInv'
<1>1. Typed'
  BY DEF Requeue, RulesInv, Typed, Status
<1>2. worker[k].pc = "idle" /\ ~Claimed(k)
  BY DEF Requeue, RulesInv, Accounted
<1>3. Accounted(k)'
  BY <1>2, QueuedAgain DEF Requeue, RulesInv, Typed, Claimed
<1>4. ASSUME NEW j \in Key, j # k PROVE Accounted(j)'
  BY <1>4, LeftAlone DEF Requeue, RulesInv, Typed, Claimed, Up
<1>5. QED
  BY <1>1, <1>3, <1>4 DEF RulesInv

LEMMA BootKeeps ==
  ASSUME RulesInv, NEW stuck \in SUBSET Key, Boot(stuck)
  PROVE  RulesInv'
<1>1. DOMAIN consumer' = {"pc", "at", "plan", "batch", "claimed"} /\ consumer'.pc = "draining"
  BY StoppedIs DEF Boot
<1>2. /\ row' = [k \in Key |-> IF k \in stuck THEN "queued" ELSE row[k]]
      /\ runs' = [k \in Key |-> IF k \in stuck THEN runs[k] + 1 ELSE runs[k]]
      /\ UNCHANGED <<worker, effects>> /\ ~Up
  BY DEF Boot
<1>3. Typed'
  BY <1>1, <1>2 DEF RulesInv, Typed, Status
<1>4. ASSUME NEW k \in Key PROVE Accounted(k)'
  <2>1. worker[k].pc = "idle" /\ ~Claimed(k)'
    BY <1>1, <1>2 DEF RulesInv, Accounted, Claimed
  <2>2. CASE k \in stuck
    BY <1>2, <2>1, <2>2, QueuedAgain
  <2>3. CASE k \notin stuck
    BY <1>2, <2>1, <2>3, LeftAlone
  <2>4. QED
    BY <2>2, <2>3
<1>5. QED
  BY <1>3, <1>4 DEF RulesInv

LEMMA CommitKeeps ==
  ASSUME RulesInv, consumer.pc = "committing", NEW at, BackToDraining(at),
         UNCHANGED <<worker, effects>>,
         CommitBatch \/ UNCHANGED <<row, runs>>
  PROVE  RulesInv'
<1>1. DOMAIN consumer' = {"pc", "at", "plan", "batch", "claimed"} /\ consumer'.pc = "draining"
  BY DrainingIs
<1>2. Up' /\ \A k \in Key : ~Claimed(k)'
  BY <1>1 DEF Up, Claimed
<1>3. CASE UNCHANGED <<row, runs>>
  BY <1>1, <1>2, <1>3, QuietKeeps
<1>4. CASE CommitBatch
  <2>1. PICK new : new = {p \in consumer.plan : row[p[1]] = "none"}
    OBVIOUS
  <2>2. /\ row' = [k \in Key |-> IF <<k, "queued">> \in new THEN "queued"
                                 ELSE IF <<k, "throttled">> \in new THEN "throttled" ELSE row[k]]
        /\ runs' = [k \in Key |-> IF <<k, "queued">> \in new THEN 1 ELSE runs[k]]
    BY <1>4, <2>1 DEF CommitBatch
  <2>3. Typed'
    BY <1>1, <2>2 DEF RulesInv, Typed, Status
  <2>4. ASSUME NEW k \in Key PROVE Accounted(k)'
    <3>1. Budget(k) \in Nat /\ effects[k] \in Nat
      BY BudgetType, RulesAssumption DEF RulesInv, Typed
    <3>2. CASE <<k, "queued">> \in new
      <4>1. row[k] = "none" /\ effects[k] = 0 /\ worker[k].pc = "idle"
        BY <2>1, <3>2 DEF RulesInv, Accounted
      <4>2. Allowed(k)' = Budget(k)
        BY <2>2, <3>1, <3>2 DEF Allowed
      <4>3. RunLeft(k)' /\ effects'[k] <= Allowed(k)'
        BY <3>1, <4>1, <4>2 DEF RunLeft
      <4>4. QED
        BY <1>2, <2>2, <3>2, <4>1, <4>3 DEF Accounted
    <3>3. CASE <<k, "queued">> \notin new /\ <<k, "throttled">> \in new
      <4>1. row[k] = "none" /\ effects[k] = 0 /\ worker[k].pc = "idle" /\ effects[k] <= Allowed(k)
        BY <2>1, <3>3 DEF RulesInv, Accounted
      <4>2. Allowed(k)' = Allowed(k)
        BY <2>2, <3>3 DEF Allowed
      <4>3. QED
        BY <1>2, <2>2, <3>3, <4>1, <4>2 DEF Accounted
    <3>4. CASE <<k, "queued">> \notin new /\ <<k, "throttled">> \notin new
      BY <1>2, <2>2, <3>4, LeftAlone
    <3>5. QED
      BY <3>2, <3>3, <3>4
  <2>5. QED
    BY <2>3, <2>4 DEF RulesInv
<1>5. QED
  BY <1>3, <1>4

LEMMA ClaimKeeps ==
  ASSUME RulesInv, NEW ks \in SUBSET Key, Claim(ks)
  PROVE  RulesInv'
<1>1. /\ row' = [k \in Key |-> IF k \in ks THEN "running" ELSE row[k]]
      /\ consumer.pc = "draining" /\ UNCHANGED <<worker, effects, runs>>
      /\ \A k \in ks : row[k] = "queued"
  BY DEF Claim, Claimable
<1>2. /\ DOMAIN consumer' = {"pc", "at", "plan", "batch", "claimed"}
      /\ consumer'.pc = "starting" /\ consumer'.claimed = ks
  BY DEF Claim, RulesInv, Typed
<1>3. Typed'
  BY <1>1, <1>2 DEF RulesInv, Typed, Status
<1>4. ASSUME NEW k \in Key PROVE Accounted(k)'
  <2>1. Allowed(k)' = Allowed(k) /\ Accounted(k) /\ Up'
    BY <1>1, <1>2 DEF Allowed, RulesInv, Up
  <2>2. CASE k \in ks
    <3>1. RunLeft(k) /\ effects[k] <= Allowed(k) /\ worker[k].pc = "idle" /\ row'[k] = "running"
      BY <1>1, <2>1, <2>2 DEF Accounted
    <3>2. QED
      BY <1>1, <2>1, <3>1 DEF Accounted, RunLeft
  <2>3. CASE k \notin ks
    BY <1>1, <1>2, <2>1, <2>3, LeftAlone DEF Claimed
  <2>4. QED
    BY <2>2, <2>3
<1>5. QED
  BY <1>3, <1>4 DEF RulesInv

LEMMA StartKeeps ==
  ASSUME RulesInv, StartWorkers \/ ClaimLost
  PROVE  RulesInv'
<1>1. DOMAIN consumer' = {"pc", "at", "plan", "batch", "claimed"} /\ consumer'.pc = "draining"
  BY DrainingIs DEF StartWorkers, ClaimLost
<1>2. Up' /\ \A k \in Key : ~Claimed(k)'
  BY <1>1 DEF Up, Claimed
<1>3. CASE ClaimLost
  BY <1>1, <1>2, <1>3, QuietKeeps DEF ClaimLost
<1>4. CASE StartWorkers
  <2>1. PICK new : new = [pc |-> "claimed", tries |-> 0]
    OBVIOUS
  <2>2. /\ worker' = [k \in Key |-> IF k \in consumer.claimed THEN new ELSE worker[k]]
        /\ UNCHANGED <<row, effects, runs>> /\ consumer.pc = "starting"
    BY <1>4, <2>1 DEF StartWorkers
  <2>3. /\ new \in [pc : {"idle", "claimed", "acting", "acted", "dying"}, tries : 0..MaxAttempts]
        /\ new.pc = "claimed"
    BY <2>1, RulesAssumption
  <2>4. Typed'
    BY <1>1, <2>2, <2>3 DEF RulesInv, Typed
  <2>5. ASSUME NEW k \in Key PROVE Accounted(k)'
    <3>1. CASE k \in consumer.claimed
      <4>1. Allowed(k)' = Allowed(k) /\ Accounted(k) /\ Claimed(k)
        BY <2>2, <3>1 DEF Allowed, RulesInv, Claimed
      <4>2. worker'[k].pc = "claimed" /\ RunLeft(k) /\ row[k] = "running" /\ effects[k] <= Allowed(k)
        BY <2>2, <2>3, <3>1, <4>1 DEF Accounted
      <4>3. QED
        BY <1>2, <2>2, <4>1, <4>2 DEF Accounted, RunLeft
    <3>2. CASE k \notin consumer.claimed
      BY <1>2, <2>2, <3>2, LeftAlone
    <3>3. QED
      BY <3>1, <3>2
  <2>6. QED
    BY <2>4, <2>5 DEF RulesInv
<1>5. QED
  BY <1>3, <1>4

-----------------------------------------------------------------------------
(* The workers *)

\* one worker goes on, in the row it has
LEMMA OneWorks ==
  ASSUME RulesInv, NEW k \in Key, worker[k].pc # "idle",
         NEW w \in [pc : {"idle", "claimed", "acting", "acted", "dying"}, tries : 0..MaxAttempts],
         worker' = [worker EXCEPT ![k] = w], NEW n \in 0..1,
         effects' = [effects EXCEPT ![k] = @ + n], UNCHANGED <<runs, consumer>>,
         \/ UNCHANGED row
         \/ w.pc = "idle" /\ \E to \in {"ok", "dead"} : row' = [row EXCEPT ![k] = to],
         effects[k] + n <= Allowed(k), w.pc # "claimed",
         w.pc = "acting" => w.tries \in 1..Budget(k) /\ RunUsed(k, w.tries - 1 - n),
         w.pc = "acted" => w.tries \in 1..Budget(k) /\ RunUsed(k, w.tries - n)
  PROVE  RulesInv'
<1>1. Accounted(k) /\ effects[k] \in Nat /\ Budget(k) \in Nat /\ Allowed(k) \in Nat
  BY AllowedType, BudgetType, RulesAssumption DEF RulesInv, Typed
<1>2. Typed'
  BY DEF RulesInv, Typed, Status
<1>3. effects'[k] = effects[k] + n /\ worker'[k] = w /\ Allowed(k)' = Allowed(k)
  BY DEF RulesInv, Typed, Allowed
<1>4. row[k] = "running" /\ Up /\ ~Claimed(k)
  BY <1>1 DEF Accounted
<1>5. Up' /\ ~Claimed(k)' /\ row'[k] # "queued" /\ row'[k] # "none"
  BY <1>4 DEF Up, Claimed, RulesInv, Typed
<1>6. w.pc = "acting" => RunUsed(k, w.tries - 1)'
  BY <1>1, <1>3 DEF RunUsed
<1>7. w.pc = "acted" => RunUsed(k, w.tries)'
  BY <1>1, <1>3 DEF RunUsed
<1>8. w.pc # "idle" => row'[k] = "running"
  BY <1>4
<1>9. Accounted(k)'
  BY <1>3, <1>5, <1>6, <1>7, <1>8 DEF Accounted
<1>10. ASSUME NEW j \in Key, j # k PROVE Accounted(j)'
  BY <1>5, <1>10, LeftAlone DEF RulesInv, Typed, Claimed, Up
<1>11. QED
  BY <1>2, <1>9, <1>10 DEF RulesInv

LEMMA WentTo ==
  ASSUME RulesInv, NEW k \in Key, Goto(k, "acted") \/ Goto(k, "dying")
  PROVE  \E w \in [pc : {"idle", "claimed", "acting", "acted", "dying"}, tries : 0..MaxAttempts] :
            /\ worker' = [worker EXCEPT ![k] = w]
            /\ w.tries = worker[k].tries
            /\ w.pc \in {"acted", "dying"} /\ (w.pc = "acted" => Goto(k, "acted"))
<1>1. worker[k] \in [pc : {"idle", "claimed", "acting", "acted", "dying"}, tries : 0..MaxAttempts]
  BY DEF RulesInv, Typed
<1>2. CASE Goto(k, "acted")
  BY <1>1, <1>2 DEF Goto
<1>3. CASE Goto(k, "dying")
  <2>1. PICK w : w = [worker[k] EXCEPT !.pc = "dying"]
    OBVIOUS
  <2>2. /\ w \in [pc : {"idle", "claimed", "acting", "acted", "dying"}, tries : 0..MaxAttempts]
        /\ w.tries = worker[k].tries /\ w.pc = "dying" /\ worker' = [worker EXCEPT ![k] = w]
    BY <1>1, <1>3, <2>1 DEF Goto
  <2>3. QED
    BY <2>2
<1>4. QED
  BY <1>2, <1>3

LEMMA RetriedOrDying ==
  ASSUME RulesInv, NEW k \in Key, NEW permanent, RetryOrDie(k, permanent)
  PROVE  \E w \in [pc : {"idle", "claimed", "acting", "acted", "dying"}, tries : 0..MaxAttempts] :
            /\ worker' = [worker EXCEPT ![k] = w]
            /\ w.pc \in {"acting", "dying"}
            /\ w.pc = "acting" => w.tries = worker[k].tries + 1 /\ w.tries \in 1..Budget(k)
<1>1. worker[k] \in [pc : {"idle", "claimed", "acting", "acted", "dying"}, tries : 0..MaxAttempts]
  BY DEF RulesInv, Typed
<1>2. CASE TypeOf(k) \in Retryable /\ ~permanent /\ worker[k].tries < MaxAttempts
  <2>1. PICK w : w = [pc |-> "acting", tries |-> worker[k].tries + 1]
    OBVIOUS
  <2>2. /\ w \in [pc : {"idle", "claimed", "acting", "acted", "dying"}, tries : 0..MaxAttempts]
        /\ w.pc = "acting" /\ w.tries = worker[k].tries + 1 /\ w.tries \in 1..MaxAttempts
    BY <1>1, <1>2, <2>1, RulesAssumption
  <2>3. Budget(k) = MaxAttempts
    BY <1>2 DEF Budget
  <2>4. worker' = [worker EXCEPT ![k] = w]
    BY <1>2, <2>1 DEF RetryOrDie
  <2>5. QED
    BY <2>2, <2>3, <2>4
<1>3. CASE ~(TypeOf(k) \in Retryable /\ ~permanent /\ worker[k].tries < MaxAttempts)
  <2>1. Goto(k, "dying")
    BY <1>3 DEF RetryOrDie
  <2>2. PICK w : w = [worker[k] EXCEPT !.pc = "dying"]
    OBVIOUS
  <2>3. /\ w \in [pc : {"idle", "claimed", "acting", "acted", "dying"}, tries : 0..MaxAttempts]
        /\ w.pc = "dying" /\ worker' = [worker EXCEPT ![k] = w]
    BY <1>1, <2>1, <2>2 DEF Goto
  <2>4. QED
    BY <2>3
<1>4. QED
  BY <1>2, <1>3

\* a step of a worker that has no effect outside
LEMMA OneWorksInside ==
  ASSUME RulesInv, NEW k \in Key, worker[k].pc # "idle",
         NEW w \in [pc : {"idle", "claimed", "acting", "acted", "dying"}, tries : 0..MaxAttempts],
         worker' = [worker EXCEPT ![k] = w], UNCHANGED <<effects, runs, consumer>>,
         \/ UNCHANGED row
         \/ w.pc = "idle" /\ \E to \in {"ok", "dead"} : row' = [row EXCEPT ![k] = to],
         w.pc # "claimed",
         w.pc = "acting" => w.tries \in 1..Budget(k) /\ RunUsed(k, w.tries - 1),
         w.pc = "acted" => w.tries \in 1..Budget(k) /\ RunUsed(k, w.tries)
  PROVE  RulesInv'
<1>1. PICK n \in 0..1 : n = 0
  OBVIOUS
<1>2. effects' = [effects EXCEPT ![k] = @ + n] /\ effects[k] + n <= Allowed(k)
  BY <1>1 DEF RulesInv, Typed, Accounted
<1>3. w.tries - 1 - n = w.tries - 1 /\ w.tries - n = w.tries
  BY <1>1
<1>4. QED
  BY <1>2, <1>3, OneWorks

LEMMA EnterKeeps ==
  ASSUME RulesInv, NEW k \in Key, Enter(k)
  PROVE  RulesInv'
<1>1. worker[k].pc = "claimed" /\ UNCHANGED <<row, effects, runs, consumer>>
  BY DEF Enter
<1>2. RunLeft(k) /\ effects[k] \in Nat /\ Allowed(k) \in Nat /\ Budget(k) \in 1..MaxAttempts
  BY <1>1, AllowedType, BudgetType DEF RulesInv, Typed, Accounted
<1>4. CASE worker' = [worker EXCEPT ![k] = [pc |-> "acting", tries |-> 1]]
  <2>1. PICK w : w = [pc |-> "acting", tries |-> 1]
    OBVIOUS
  <2>2. w \in [pc : {"idle", "claimed", "acting", "acted", "dying"}, tries : 0..MaxAttempts]
    BY <2>1, RulesAssumption
  <2>3. w.pc = "acting" /\ w.tries = 1 /\ w.tries \in 1..Budget(k) /\ worker' = [worker EXCEPT ![k] = w]
    BY <1>2, <1>4, <2>1, RulesAssumption
  <2>4. RunUsed(k, w.tries - 1)
    BY <1>2, <2>3, RulesAssumption DEF RunLeft, RunUsed
  <2>5. QED
    BY <1>1, <2>2, <2>3, <2>4, OneWorksInside
<1>5. CASE Goto(k, "dying")
  <2>1. PICK w \in [pc : {"idle", "claimed", "acting", "acted", "dying"}, tries : 0..MaxAttempts] :
          w = [worker[k] EXCEPT !.pc = "dying"]
    BY DEF RulesInv, Typed
  <2>2. w.pc = "dying" /\ worker' = [worker EXCEPT ![k] = w]
    BY <1>5, <2>1 DEF Goto, RulesInv, Typed
  <2>3. QED
    BY <1>1, <2>2, OneWorksInside
<1>6. QED
  BY <1>4, <1>5 DEF Enter

LEMMA ActsKeeps ==
  ASSUME RulesInv, NEW k \in Key, Acts(k)
  PROVE  RulesInv'
<1>1. worker[k].pc = "acting" /\ UNCHANGED <<row, runs, consumer>>
      /\ effects' = [effects EXCEPT ![k] = @ + 1]
  BY DEF Acts
<1>2. /\ worker[k].tries \in 1..Budget(k) /\ RunUsed(k, worker[k].tries - 1)
      /\ effects[k] \in Nat /\ Allowed(k) \in Nat /\ Budget(k) \in Nat
  BY <1>1, AllowedType, BudgetType, RulesAssumption DEF RulesInv, Typed, Accounted
<1>3. effects[k] + 1 <= Allowed(k)
  BY <1>2 DEF RunUsed
<1>4. PICK w \in [pc : {"idle", "claimed", "acting", "acted", "dying"}, tries : 0..MaxAttempts] :
        w = [worker[k] EXCEPT !.pc = "acted"]
  BY DEF RulesInv, Typed
<1>5. w.pc = "acted" /\ w.tries = worker[k].tries /\ worker' = [worker EXCEPT ![k] = w]
  BY <1>4 DEF Acts, Goto, RulesInv, Typed
<1>6. PICK n \in 0..1 : n = 1
  OBVIOUS
<1>7. w.tries - n = worker[k].tries - 1
  BY <1>2, <1>5, <1>6
<1>8. effects[k] + n <= Allowed(k) /\ effects' = [effects EXCEPT ![k] = @ + n]
  BY <1>1, <1>3, <1>6
<1>9. QED
  BY <1>1, <1>2, <1>5, <1>7, <1>8, OneWorks

LEMMA ActionRaisesKeeps ==
  ASSUME RulesInv, NEW k \in Key, ActionRaises(k)
  PROVE  RulesInv'
<1>1. worker[k].pc = "acting" /\ UNCHANGED <<row, runs, consumer>>
  BY DEF ActionRaises
<1>2. PICK n \in 0..1 : effects' = [effects EXCEPT ![k] = @ + n]
  BY DEF ActionRaises
<1>3. PICK permanent \in BOOLEAN : RetryOrDie(k, permanent)
  BY DEF ActionRaises
<1>4. PICK w \in [pc : {"idle", "claimed", "acting", "acted", "dying"}, tries : 0..MaxAttempts] :
        /\ worker' = [worker EXCEPT ![k] = w] /\ w.pc \in {"acting", "dying"}
        /\ w.pc = "acting" => w.tries = worker[k].tries + 1 /\ w.tries \in 1..Budget(k)
  BY <1>3, RetriedOrDying
<1>5. /\ worker[k].tries \in 1..Budget(k) /\ RunUsed(k, worker[k].tries - 1)
      /\ effects[k] \in Nat /\ Allowed(k) \in Nat /\ Budget(k) \in Nat
  BY <1>1, AllowedType, BudgetType, RulesAssumption DEF RulesInv, Typed, Accounted
<1>6. effects[k] + n <= Allowed(k)
  BY <1>5 DEF RunUsed
<1>7. w.pc = "acting" => RunUsed(k, w.tries - 1 - n)
  BY <1>4, <1>5 DEF RunUsed
<1>8. QED
  BY <1>1, <1>2, <1>4, <1>6, <1>7, OneWorks

LEMMA RecordOkRaisesKeeps ==
  ASSUME RulesInv, NEW k \in Key, RecordOkRaises(k)
  PROVE  RulesInv'
<1>1. worker[k].pc = "acted" /\ UNCHANGED <<row, effects, runs, consumer>>
      /\ RetryOrDie(k, FALSE)
  BY DEF RecordOkRaises
<1>2. PICK w \in [pc : {"idle", "claimed", "acting", "acted", "dying"}, tries : 0..MaxAttempts] :
        /\ worker' = [worker EXCEPT ![k] = w] /\ w.pc \in {"acting", "dying"}
        /\ w.pc = "acting" => w.tries = worker[k].tries + 1 /\ w.tries \in 1..Budget(k)
  BY <1>1, RetriedOrDying
<1>3. worker[k].tries \in Nat /\ RunUsed(k, worker[k].tries)
  BY <1>1 DEF RulesInv, Typed, Accounted
<1>4. w.pc = "acting" => w.tries - 1 = worker[k].tries
  BY <1>2, <1>3
<1>5. w.pc = "acting" => RunUsed(k, w.tries - 1)
  BY <1>3, <1>4
<1>6. QED
  BY <1>1, <1>2, <1>5, OneWorksInside

LEMMA RecordKeeps ==
  ASSUME RulesInv, NEW k \in Key, RecordOk(k) \/ RecordDead(k) \/ RecordDeadRaises(k)
  PROVE  RulesInv'
<1>1. worker[k].pc # "idle" /\ UNCHANGED <<effects, runs, consumer>>
  BY DEF RecordOk, RecordDead, RecordDeadRaises
<1>2. PICK w : w = Idle
  OBVIOUS
<1>3. /\ w \in [pc : {"idle", "claimed", "acting", "acted", "dying"}, tries : 0..MaxAttempts]
      /\ w.pc = "idle"
  BY <1>2, RulesAssumption DEF Idle
<1>4. worker' = [worker EXCEPT ![k] = w]
  BY <1>2 DEF RecordOk, RecordDead, RecordDeadRaises, Recorded
<1>5. UNCHANGED row \/ \E to \in {"ok", "dead"} : row' = [row EXCEPT ![k] = to]
  BY DEF RecordOk, RecordDead, RecordDeadRaises, Recorded
<1>6. QED
  BY <1>1, <1>3, <1>4, <1>5, OneWorksInside

LEMMA CrashKeeps ==
  ASSUME RulesInv, Crash
  PROVE  RulesInv'
<1>1. UNCHANGED <<row, effects, runs>> /\ consumer' = Stopped("down")
      /\ worker' = [k \in Key |-> Idle]
  BY DEF Crash
<1>2. DOMAIN consumer' = {"pc", "at", "plan", "batch", "claimed"} /\ consumer'.pc = "down"
  BY <1>1, StoppedIs
<1>3. Idle \in [pc : {"idle", "claimed", "acting", "acted", "dying"}, tries : 0..MaxAttempts]
      /\ Idle.pc = "idle"
  BY RulesAssumption DEF Idle
<1>4. Typed'
  BY <1>1, <1>2, <1>3 DEF RulesInv, Typed
<1>5. ASSUME NEW k \in Key PROVE Accounted(k)'
  <2>1. Accounted(k) /\ Allowed(k)' = Allowed(k) /\ worker'[k].pc = "idle" /\ ~Claimed(k)'
    BY <1>1, <1>2, <1>3 DEF RulesInv, Allowed, Claimed
  <2>2. QED
    BY <1>1, <2>1 DEF Accounted, RunLeft
<1>6. QED
  BY <1>4, <1>5 DEF RulesInv

-----------------------------------------------------------------------------
LEMMA ConsumerKeeps ==
  ASSUME RulesInv, ConsumerStep \/ CommitRaises \/ ClaimLost
  PROVE  RulesInv'
<1>1. CASE Match
  <2>1. UNCHANGED <<row, worker, effects, runs>> /\ consumer.pc = "draining"
    BY <1>1 DEF Match
  <2>2. PICK plan, batch :
          consumer' = [consumer EXCEPT !.pc = "committing", !.plan = plan, !.batch = batch]
    BY <1>1 DEF Match
  <2>3. DOMAIN consumer' = {"pc", "at", "plan", "batch", "claimed"} /\ consumer'.pc = "committing"
    BY <2>2 DEF RulesInv, Typed
  <2>4. QED
    BY <2>1, <2>3, QuietKeeps DEF Up
<1>2. CASE Commit
  BY <1>2, CommitKeeps DEF Commit
<1>3. CASE CommitRaises
  BY <1>3, CommitKeeps DEF CommitRaises
<1>4. CASE \E ks \in SUBSET Key : Claim(ks)
  BY <1>4, ClaimKeeps
<1>5. CASE StartWorkers \/ ClaimLost
  BY <1>5, StartKeeps
<1>6. QED
  BY <1>1, <1>2, <1>3, <1>4, <1>5 DEF ConsumerStep

LEMMA WorkerKeeps ==
  ASSUME RulesInv, NEW k \in Key, WorkerStep(k)
  PROVE  RulesInv'
  BY EnterKeeps, ActsKeeps, ActionRaisesKeeps, RecordOkRaisesKeeps, RecordKeeps DEF WorkerStep

\* steps that leave the rows and their workers alone
LEMMA OthersKeep ==
  ASSUME RulesInv, UNCHANGED <<row, worker, effects, runs>>,
         UNCHANGED consumer \/ (consumer.pc = "down" /\ consumer' = Stopped("failed"))
  PROVE  RulesInv'
<1>1. CASE UNCHANGED consumer
  BY <1>1, QuietKeeps DEF RulesInv, Typed, Up
<1>2. CASE consumer.pc = "down" /\ consumer' = Stopped("failed")
  BY <1>2, StoppedIs, QuietKeeps DEF Up
<1>3. QED
  BY <1>1, <1>2

LEMMA NextKeeps == RulesInv /\ [Next]_vars => RulesInv'
<1> SUFFICES ASSUME RulesInv, [Next]_vars PROVE RulesInv'
  OBVIOUS
<1>1. CASE UNCHANGED vars
  BY <1>1, OthersKeep DEF vars, rulesVars
<1>2. ASSUME NEW m \in SUBSET Rule, NEW d \in 0..MaxDepth + 1, Ingest(m, d) PROVE RulesInv'
  BY <1>2, OthersKeep DEF Ingest, rulesVars
<1>3. ASSUME NEW s \in 1..MaxEvents, NEW p \in Phase, IngestEnds(s, p) PROVE RulesInv'
  BY <1>3, OthersKeep DEF IngestEnds, rulesVars
<1>4. ASSUME NEW r \in Rule, NEW v \in {"on", "off", "gone"}, SetRule(r, v) PROVE RulesInv'
  BY <1>4, OthersKeep DEF SetRule
<1>5. ASSUME NEW r \in Rule, WindowSlides(r) PROVE RulesInv'
  BY <1>5, OthersKeep DEF WindowSlides
<1>6. ASSUME NEW k \in Key, Requeue(k) \/ WorkerStep(k) PROVE RulesInv'
  BY <1>6, RequeueKeeps, WorkerKeeps
<1>7. ASSUME NEW k \in Key, Emit(k) PROVE RulesInv'
  BY <1>7, OthersKeep DEF Emit
<1>8. CASE ConsumerStep \/ CommitRaises \/ ClaimLost
  BY <1>8, ConsumerKeeps
<1>9. ASSUME NEW ks \in SUBSET Key, Boot(ks) PROVE RulesInv'
  BY <1>9, BootKeeps
<1>10. CASE BootFails
  BY <1>10, OthersKeep DEF BootFails
<1>11. CASE Crash
  BY <1>11, CrashKeeps
<1>12. QED
  BY <1>1, <1>2, <1>3, <1>4, <1>5, <1>6, <1>7, <1>8, <1>9, <1>10, <1>11 DEF Next

\* At any time, through deaths of the hub, lost answers, recoveries and requeues
\* of the operator, a row has had at most its budget of effects for each time it
\* was queued (_run_execution, _recover_stuck, requeue_execution).
THEOREM EffectsAreBounded == Spec => []EffectsBounded
<1>1. Init => RulesInv
  BY InitRulesInv
<1>2. RulesInv /\ [Next]_vars => RulesInv'
  BY NextKeeps
<1>3. RulesInv => EffectsBounded
  BY DEF RulesInv, Accounted, Allowed, EffectsBounded
<1>4. QED
  BY <1>1, <1>2, <1>3, PTL DEF Spec

-----------------------------------------------------------------------------
(***************************************************************************)
(* Cursors                                                                 *)
(***************************************************************************)

\* who follows the rows of one writer at a time meets no row that appears behind him
LastOpen == \A s \in Seqs : log[s].phase = "open" => s = Len(log)

LogInv == LogTypeOK /\ Len(log) <= MaxEvents /\ LastOpen

\* no row that is still open is at c or before it
Ahead(c) == c <= Len(log) /\ \A s \in Seqs : log[s].phase = "open" => c < s

\* what any step does to the log
LogMoves ==
    \/ UNCHANGED log
    \/ \E m \in SUBSET Rule, d \in Nat : Insert(m, d)
    \/ \E s \in 1..MaxEvents, p \in Phase : EndInsert(s, p)
    \/ AbortOpen

\* the log keeps its shape, and a row whose transaction has ended its content
LogFollows ==
    /\ LogInv' /\ Len(log) <= Len(log')
    /\ \A s \in Seqs : log[s].phase # "open" => log'[s] = log[s]
    /\ \A s \in Seqs' : s \notin Seqs => log'[s].phase = "open" /\ s > Len(log)
    /\ \A s \in Seqs : log'[s].phase = "open" => log[s].phase = "open"

LEMMA LogFacts ==
  ASSUME LogInv
  PROVE  Len(log) \in Nat /\ Seqs = 1..Len(log) /\ Visible \subseteq Seqs
         /\ \A s \in Seqs : log[s] \in Event
  BY DEF LogInv, LogTypeOK, Seqs, Visible

\* nobody writes while a row is open
LEMMA OpenAlone ==
  ASSUME LogInv, Writers = 1, NEW m, NEW d, Insert(m, d), NEW s \in Seqs
  PROVE  log[s].phase # "open"
<1> DEFINE open == {t \in Seqs : log[t].phase = "open"}
<1>1. IsFiniteSet(open)
  <2>1. IsFiniteSet(Seqs)
    BY LogFacts, FS_Interval
  <2>2. QED
    BY <2>1, FS_Subset
<1>2. Cardinality(open) < 1
  BY DEF Insert
<1>3. Cardinality(open) = 0
  BY <1>1, <1>2, FS_CardinalityType
<1>4. QED
  BY <1>1, <1>3, FS_EmptySet

LEMMA LogKeeps ==
  ASSUME LogInv, Writers = 1, LogMoves
  PROVE  LogFollows
<1>1. CASE UNCHANGED log
  BY <1>1, LogFacts DEF LogInv, LogTypeOK, LastOpen, Seqs, LogFollows
<1>2. ASSUME NEW m \in SUBSET Rule, NEW d \in Nat, Insert(m, d)
      PROVE  LogFollows
  <2>1. PICK e : e = [match |-> m, depth |-> d, phase |-> "open"]
    OBVIOUS
  <2>2. e \in Event /\ e.phase = "open"
    BY <2>1 DEF Event, Phase
  <2>3. log' = Append(log, e) /\ Len(log) < MaxEvents
    BY <1>2, <2>1 DEF Insert
  <2>4. log \in Seq(Event) /\ Len(log) \in Nat
    BY LogFacts DEF LogInv, LogTypeOK
  <2>5. /\ log' \in Seq(Event) /\ Len(log') = Len(log) + 1
        /\ \A s \in 1..Len(log) : log'[s] = log[s]
        /\ log'[Len(log) + 1] = e
    BY <2>2, <2>3, <2>4
  <2>6. \A s \in Seqs : log[s].phase # "open"
    BY <1>2, OpenAlone
  <2>7. Seqs = 1..Len(log) /\ Seqs' = 1..(Len(log) + 1)
    BY <2>5 DEF Seqs
  <2>8. \A s \in Seqs' : s \notin Seqs => s = Len(log) + 1
    BY <2>4, <2>7
  <2>9. \A s \in Seqs : log'[s] = log[s]
    BY <2>5, <2>7
  <2>10. Len(log') <= MaxEvents /\ Len(log) <= Len(log')
    BY <2>3, <2>4, <2>5, LogAssumption
  <2>11. LastOpen'
    BY <2>5, <2>6, <2>8, <2>9 DEF LastOpen
  <2>12. \A s \in Seqs' : s \notin Seqs => log'[s].phase = "open" /\ s > Len(log)
    BY <2>2, <2>4, <2>5, <2>8
  <2>13. QED
    BY <2>5, <2>6, <2>9, <2>10, <2>11, <2>12 DEF LogInv, LogTypeOK, LogFollows
<1>3. ASSUME NEW s \in 1..MaxEvents, NEW p \in Phase, EndInsert(s, p)
      PROVE  LogFollows
  <2>1. log \in Seq(Event) /\ Len(log) \in Nat /\ s \in 1..Len(log)
    BY <1>3, LogFacts DEF LogInv, LogTypeOK, EndInsert, Seqs
  <2>2. PICK e : e = [log[s] EXCEPT !.phase = p]
    OBVIOUS
  <2>3. e \in Event /\ e.phase = p /\ p # "open"
    <3>1. log[s] \in Event /\ p \in Phase /\ p # "open"
      BY <1>3, <2>1 DEF EndInsert
    <3>2. QED
      BY <2>2, <3>1 DEF Event
  <2>4. log' = [log EXCEPT ![s] = e]
    BY <1>3, <2>2 DEF EndInsert
  <2>5. log' \in Seq(Event) /\ Len(log') = Len(log) /\ log'[s] = e
        /\ \A t \in 1..Len(log) : t # s => log'[t] = log[t]
    BY <2>1, <2>3, <2>4
  <2>6. Seqs' = Seqs /\ Seqs = 1..Len(log) /\ log[s].phase = "open"
    BY <1>3, <2>5 DEF Seqs, EndInsert
  <2>7. LastOpen'
    BY <2>3, <2>5, <2>6 DEF LastOpen, LogInv
  <2>8. \A t \in Seqs : log'[t].phase = "open" => log[t].phase = "open"
    BY <2>3, <2>5, <2>6
  <2>9. \A t \in Seqs : log[t].phase # "open" => log'[t] = log[t]
    BY <2>5, <2>6
  <2>10. QED
    BY <2>1, <2>5, <2>6, <2>7, <2>8, <2>9 DEF LogInv, LogTypeOK, LogFollows
<1>4. CASE AbortOpen
  <2>1. log \in Seq(Event) /\ Len(log) \in Nat /\ Seqs = 1..Len(log)
    BY LogFacts DEF LogInv, LogTypeOK
  <2>2. \A t \in Seqs : [log[t] EXCEPT !.phase = "aborted"] \in Event
                        /\ [log[t] EXCEPT !.phase = "aborted"].phase = "aborted"
    BY <2>1, LogFacts DEF Event, Phase
  <2>3. /\ \A t \in Seqs : log'[t] = IF log[t].phase = "open"
                           THEN [log[t] EXCEPT !.phase = "aborted"] ELSE log[t]
        /\ DOMAIN log' = Seqs
    BY <1>4 DEF AbortOpen
  <2>4. log' \in [1..Len(log) -> Event]
    <3>1. \A t \in Seqs : log'[t] \in Event
      BY <2>2, <2>3, LogFacts
    <3>2. log' = [t \in Seqs |-> log'[t]]
      BY <1>4 DEF AbortOpen
    <3>3. QED
      BY <2>1, <3>1, <3>2
  <2>5. log' \in Seq(Event) /\ Len(log') = Len(log)
    BY <2>1, <2>4
  <2>6. Seqs' = Seqs
    BY <2>1, <2>5 DEF Seqs
  <2>7. \A t \in Seqs : log'[t].phase # "open"
    BY <2>2, <2>3
  <2>8. \A t \in Seqs : log[t].phase # "open" => log'[t] = log[t]
    BY <2>3
  <2>9. QED
    BY <2>1, <2>5, <2>6, <2>7, <2>8 DEF LogInv, LogTypeOK, LastOpen, LogFollows
<1>5. QED
  BY <1>1, <1>2, <1>3, <1>4 DEF LogMoves

\* so nothing appears behind a reader who is ahead
LEMMA AheadKeeps ==
  ASSUME LogInv, Writers = 1, LogMoves, NEW c \in Int, Ahead(c)
  PROVE  Ahead(c)' /\ \A s \in Visible' : s <= c => s \in Visible
<1>1. LogInv' /\ Len(log) \in Nat /\ Len(log') \in Nat /\ Len(log) <= Len(log')
  BY LogKeeps, LogFacts DEF LogFollows, LogInv, LogTypeOK
<1>2. \A s \in Seqs' : s <= c => s \in Seqs
  BY <1>1, LogFacts DEF Seqs, Ahead
<1>3. \A s \in Seqs' : s \in Seqs \/ s > c
  BY <1>1, LogKeeps, LogFacts DEF LogFollows, Seqs, Ahead
<1>4. \A s \in Seqs' : log'[s].phase = "open" => c < s
  BY <1>3, LogKeeps DEF LogFollows, Ahead
<1>5. c <= Len(log')
  BY <1>1 DEF Ahead
<1>6. ASSUME NEW s \in Visible', s <= c PROVE s \in Visible
  <2>1. s \in Seqs' /\ log'[s].phase = "visible" /\ s \in Seqs
    BY <1>2, <1>6 DEF Visible
  <2>2. log[s].phase # "open"
    BY <1>6, <2>1, LogFacts DEF Ahead
  <2>3. QED
    BY <2>1, <2>2, LogKeeps DEF LogFollows, Visible
<1>7. QED
  BY <1>4, <1>5, <1>6 DEF Ahead

LEMMA VisibleStays ==
  ASSUME LogInv, Writers = 1, LogMoves
  PROVE  Visible \subseteq Visible'
<1>1. Len(log) \in Nat /\ Len(log') \in Nat /\ Len(log) <= Len(log')
  BY LogKeeps, LogFacts DEF LogFollows, LogInv, LogTypeOK
<1>2. Seqs \subseteq Seqs'
  BY <1>1 DEF Seqs
<1>3. QED
  BY <1>2, LogKeeps DEF LogFollows, Visible

\* who takes a visible row leaves no open one behind
LEMMA VisibleAhead ==
  ASSUME LogInv, NEW c \in Visible \cup {0}
  PROVE  Ahead(c) /\ c \in Nat
<1>1. Len(log) \in Nat /\ Seqs = 1..Len(log)
  BY LogFacts
<1>2. CASE c = 0
  BY <1>1, <1>2 DEF Ahead
<1>3. CASE c \in Visible
  <2>1. c \in 1..Len(log) /\ log[c].phase = "visible"
    BY <1>1, <1>3 DEF Visible
  <2>2. ASSUME NEW s \in Seqs, log[s].phase = "open" PROVE c < s
    <3>1. s = Len(log) /\ s # c
      BY <2>1, <2>2 DEF LogInv, LastOpen
    <3>2. QED
      BY <1>1, <2>1, <3>1
  <2>3. QED
    BY <1>1, <2>1, <2>2 DEF Ahead
<1>4. QED
  BY <1>2, <1>3

\* a batch: rows behind the cursor, without a gap, and the last of them
LEMMA FetchedAre ==
  ASSUME LogInv, NEW at \in Nat, NEW n \in Nat, NEW batch, batch = FetchAfter(at, n)
  PROVE  /\ batch \subseteq Visible
         /\ \A w \in batch : at < w /\ Ahead(w) /\ w \in Nat
         /\ \A w \in batch, u \in Visible : at < u /\ u <= w => u \in batch
<1>1. batch \subseteq Visible /\ \A w \in batch : at < w
  BY DEF FetchAfter
<1>2. \A w \in batch : Ahead(w) /\ w \in Nat
  BY <1>1, VisibleAhead
<1>3. ASSUME NEW w \in batch, NEW u \in Visible, at < u, u <= w PROVE u \in batch
  <2>1. Visible \in SUBSET Nat
    BY VisibleAhead
  <2>2. w \in Visible /\ Cardinality({v \in Visible : at < v /\ v <= w}) <= n
    BY DEF FetchAfter
  <2>3. Cardinality({v \in Visible : at < v /\ v <= u}) <= n
    BY <1>3, <2>1, <2>2, FirstAreDense
  <2>4. QED
    BY <1>3, <2>3 DEF FetchAfter
<1>4. QED
  BY <1>1, <1>2, <1>3

LEMMA LastOfBatch ==
  ASSUME LogInv, NEW batch \in SUBSET Visible, batch # {}
  PROVE  LET last == CHOOSE s \in batch : \A t \in batch : t <= s
         IN  last \in batch /\ \A t \in batch : t <= last
<1>1. batch \in SUBSET Nat /\ \A v \in batch : v <= Len(log)
  BY LogFacts, VisibleAhead DEF Ahead
<1>2. Len(log) \in Nat
  BY LogFacts
<1>3. QED
  BY <1>1, <1>2, GreatestPicked

-----------------------------------------------------------------------------
(* The rules' cursor *)

BatchIs(batch, at) ==
    /\ batch # {} /\ batch \subseteq Visible
    /\ \A w \in batch : at < w /\ Ahead(w)
    /\ \A w \in batch, u \in Visible : at < u /\ u <= w => u \in batch

\* The consumer is ahead of every open row and its cursor in memory is not ahead
\* of the saved one; its batch leaves no row out.
CursorInv ==
    /\ cursor \in Nat \cup {-1} /\ origin \in Nat /\ consumer.at \in Nat
    /\ Ahead(cursor) /\ Ahead(consumer.at)
    /\ Up => cursor # -1 /\ consumer.at <= cursor
    /\ consumer.pc = "committing" => BatchIs(consumer.batch, consumer.at)

\* rows of the queue are about rows of the log
KeysInv ==
    /\ emitting \in [Key -> Nat]
    /\ \A k \in Key : row[k] # "none" \/ emitting[k] > 0 => k[2] \in Seqs
    /\ consumer.pc = "committing" => \A p \in consumer.plan : p[1] \in Key /\ p[1][2] \in Seqs

ReaderInv == RulesInv /\ LogInv /\ CursorInv /\ KeysInv /\ NothingSkipped

\* whatever happens to the log: the consumer keeps its place, or stops
LEMMA PlaceKept ==
  ASSUME ReaderInv, Writers = 1, LogMoves, UNCHANGED <<cursor, origin, seen>>,
         consumer'.at \in {0, consumer.at}, Up' => Up,
         consumer'.pc = "committing" => UNCHANGED consumer
  PROVE  LogInv' /\ CursorInv' /\ NothingSkipped'
<1>1. LogInv' /\ Visible \subseteq Visible'
  BY LogKeeps, VisibleStays DEF ReaderInv, LogFollows
<1>2. cursor \in Int /\ consumer.at \in Int
  BY DEF ReaderInv, CursorInv
<1>3. Ahead(cursor)' /\ \A s \in Visible' : s <= cursor => s \in Visible
  <2>1. PICK c \in Int : c = cursor
    BY <1>2
  <2>2. Ahead(c)' /\ \A s \in Visible' : s <= c => s \in Visible
    BY <2>1, AheadKeeps DEF ReaderInv, CursorInv
  <2>3. QED
    BY <2>1, <2>2 DEF Ahead
<1>4. Ahead(consumer.at)' /\ consumer'.at \in Nat
  <2>1. PICK c \in Nat : c = consumer'.at
    BY DEF ReaderInv, CursorInv
  <2>2. Ahead(c)
    BY <2>1, VisibleAhead DEF ReaderInv, CursorInv
  <2>3. Ahead(c)'
    BY <2>2, AheadKeeps DEF ReaderInv
  <2>4. QED
    BY <2>1, <2>3 DEF Ahead
<1>5. ASSUME consumer'.pc = "committing" PROVE BatchIs(consumer.batch, consumer.at)'
  <2>1. BatchIs(consumer.batch, consumer.at) /\ UNCHANGED consumer
    BY <1>5 DEF ReaderInv, CursorInv
  <2>2. ASSUME NEW w \in consumer.batch
        PROVE  w \in Int /\ Ahead(w)' /\ \A s \in Visible' : s <= w => s \in Visible
    <3>1. w \in Nat /\ Ahead(w)
      BY <2>1, <2>2, VisibleAhead DEF BatchIs, ReaderInv
    <3>2. QED
      BY <3>1, AheadKeeps DEF ReaderInv
  <2>3. QED
    BY <1>1, <2>1, <2>2 DEF BatchIs
<1>6. Up' => cursor # -1 /\ consumer'.at <= cursor
  BY DEF ReaderInv, CursorInv
<1>7. CursorInv'
  BY <1>3, <1>4, <1>5, <1>6 DEF ReaderInv, CursorInv
<1>8. NothingSkipped'
  BY <1>3 DEF ReaderInv, NothingSkipped
<1>9. QED
  BY <1>1, <1>7, <1>8

LEMMA KeysKept ==
  ASSUME ReaderInv, Seqs \subseteq Seqs', emitting' \in [Key -> Nat],
         \A k \in Key : row'[k] # "none" \/ emitting'[k] > 0 => row[k] # "none" \/ emitting[k] > 0,
         consumer'.pc = "committing" => UNCHANGED consumer
  PROVE  KeysInv'
  BY DEF ReaderInv, KeysInv

LEMMA SeqsStay ==
  ASSUME LogInv, Writers = 1, LogMoves
  PROVE  Seqs \subseteq Seqs'
<1>1. Len(log) \in Nat /\ Len(log') \in Nat /\ Len(log) <= Len(log')
  BY LogKeeps, LogFacts DEF LogFollows, LogInv, LogTypeOK
<1>2. QED
  BY <1>1 DEF Seqs

LEMMA InitReaderInv == Init => ReaderInv
<1> SUFFICES ASSUME Init PROVE ReaderInv
  OBVIOUS
<1>1. RulesInv
  BY InitRulesInv
<1>2. Len(log) = 0 /\ Seqs = {} /\ LogInv /\ Visible = {}
  BY LogAssumption DEF Init, LogInv, LogTypeOK, LastOpen, Seqs, Visible
<1>3. consumer.pc = "down" /\ consumer.at = 0 /\ cursor = -1 /\ origin = 0
  BY DEF Init, Stopped
<1>4. CursorInv
  BY <1>2, <1>3 DEF CursorInv, Ahead, Up
<1>5. KeysInv
  BY <1>3 DEF Init, KeysInv
<1>6. NothingSkipped
  BY <1>3 DEF NothingSkipped
<1>7. QED
  BY <1>1, <1>2, <1>4, <1>5, <1>6 DEF ReaderInv

LEMMA BootReads ==
  ASSUME ReaderInv, NEW stuck \in SUBSET Key, Boot(stuck)
  PROVE  LogInv' /\ CursorInv' /\ KeysInv' /\ NothingSkipped'
<1>1. UNCHANGED <<log, emitting, seen>>
      /\ row' = [k \in Key |-> IF k \in stuck THEN "queued" ELSE row[k]]
      /\ \A k \in stuck : row[k] = "running"
  BY DEF Boot
<1>2. LogInv' /\ Seqs' = Seqs /\ Visible' = Visible
  BY <1>1 DEF ReaderInv, LogInv, LogTypeOK, LastOpen, Seqs, Visible
<1>3. consumer'.pc = "draining" /\ consumer'.at = cursor'
  BY StoppedIs DEF Boot, Stopped
<1>4. PICK head \in Visible \cup {0} :
        /\ cursor' = IF cursor = -1 THEN head ELSE cursor
        /\ origin' = IF cursor = -1 THEN head ELSE origin
  BY DEF Boot
<1>5. cursor' \in Nat /\ origin' \in Nat /\ Ahead(cursor')
  BY <1>4, VisibleAhead DEF ReaderInv, CursorInv
<1>6. Ahead(cursor)' /\ Ahead(consumer.at)'
  BY <1>1, <1>2, <1>3, <1>5 DEF Ahead
<1>7. CursorInv'
  BY <1>3, <1>5, <1>6 DEF CursorInv
<1>8. KeysInv'
  BY <1>1, <1>2, <1>3, KeysKept DEF ReaderInv, KeysInv
<1>9. NothingSkipped'
  <2>1. CASE cursor = -1
    BY <1>2, <1>4, <2>1, <1>5, VisibleAhead DEF NothingSkipped, ReaderInv
  <2>2. CASE cursor # -1
    BY <1>1, <1>2, <1>4, <2>2 DEF NothingSkipped, ReaderInv
  <2>3. QED
    BY <2>1, <2>2
<1>10. QED
  BY <1>2, <1>7, <1>8, <1>9

LEMMA MatchReads ==
  ASSUME ReaderInv, Match
  PROVE  LogInv' /\ CursorInv' /\ KeysInv' /\ NothingSkipped'
<1>1. UNCHANGED <<log, row, cursor, origin, emitting, seen>> /\ Up
  BY DEF Match, Up
<1>2. LogInv' /\ Seqs' = Seqs /\ Visible' = Visible
  BY <1>1 DEF ReaderInv, LogInv, LogTypeOK, LastOpen, Seqs, Visible
<1>3. PICK batch : /\ batch = FetchAfter(consumer.at, BatchSize) /\ batch # {}
                   /\ consumer' = [consumer EXCEPT !.pc = "committing", !.plan = Plan(batch),
                                                  !.batch = batch]
  BY DEF Match
<1>4. consumer'.batch = batch /\ consumer'.plan = Plan(batch) /\ consumer'.at = consumer.at
      /\ consumer'.pc = "committing"
  BY <1>3 DEF ReaderInv, RulesInv, Typed
<1>5. BatchIs(batch, consumer.at)
  <2>1. consumer.at \in Nat /\ BatchSize \in Nat /\ LogInv
    BY RulesAssumption DEF ReaderInv, CursorInv
  <2>2. /\ batch \subseteq Visible
        /\ \A w \in batch : consumer.at < w /\ Ahead(w) /\ w \in Nat
        /\ \A w \in batch, u \in Visible : consumer.at < u /\ u <= w => u \in batch
    BY <1>3, <2>1, FetchedAre
  <2>3. QED
    BY <1>3, <2>2 DEF BatchIs
<1>6. BatchIs(consumer.batch, consumer.at)'
  BY <1>1, <1>2, <1>4, <1>5 DEF BatchIs, Ahead
<1>7. Ahead(cursor)' /\ Ahead(consumer.at)'
  BY <1>1, <1>2, <1>4 DEF Ahead, ReaderInv, CursorInv
<1>8. CursorInv'
  BY <1>1, <1>4, <1>6, <1>7 DEF ReaderInv, CursorInv
<1>9. \A p \in Plan(batch) : p[1] \in Key /\ p[1][2] \in Seqs
  BY <1>5, LogFacts DEF Plan, Fires, BatchIs, ReaderInv
<1>10. KeysInv'
  BY <1>1, <1>2, <1>4, <1>9 DEF ReaderInv, KeysInv
<1>11. NothingSkipped'
  BY <1>1, <1>2 DEF ReaderInv, NothingSkipped
<1>12. QED
  BY <1>2, <1>8, <1>10, <1>11

\* rows, cursor and the events they are about are saved together
LEMMA CommitReads ==
  ASSUME ReaderInv, consumer.pc = "committing", CommitBatch, UNCHANGED <<log, emitting, origin>>,
         NEW at \in {cursor', consumer.at}, BackToDraining(at)
  PROVE  LogInv' /\ CursorInv' /\ KeysInv' /\ NothingSkipped'
<1>1. LogInv' /\ Seqs' = Seqs /\ Visible' = Visible
  BY DEF ReaderInv, LogInv, LogTypeOK, LastOpen, Seqs, Visible
<1>2. consumer'.pc = "draining" /\ consumer'.at = at
  BY DEF BackToDraining, Stopped
<1>3. PICK batch : batch = consumer.batch /\ BatchIs(batch, consumer.at)
  BY DEF ReaderInv, CursorInv
<1>4. PICK last : last = CHOOSE s \in batch : \A t \in batch : t <= s
  OBVIOUS
<1>5. last \in batch /\ (\A t \in batch : t <= last) /\ cursor' = last /\ seen' = seen \cup batch
  <2>1. last \in batch /\ \A t \in batch : t <= last
    BY <1>3, <1>4, LastOfBatch DEF ReaderInv, BatchIs
  <2>2. QED
    BY <1>3, <1>4, <2>1 DEF CommitBatch
<1>6. last \in Nat /\ Ahead(last) /\ consumer.at < last /\ consumer.at <= cursor
      /\ cursor \in Nat /\ consumer.at \in Nat
  BY <1>3, <1>5, VisibleAhead DEF BatchIs, ReaderInv, CursorInv, Up
<1>7. Ahead(cursor)' /\ Ahead(consumer.at)'
  BY <1>1, <1>2, <1>5, <1>6 DEF Ahead, ReaderInv, CursorInv
<1>8. CursorInv'
  BY <1>2, <1>5, <1>6, <1>7 DEF ReaderInv, CursorInv
<1>9. KeysInv'
  <2>1. PICK new : new = {p \in consumer.plan : row[p[1]] = "none"}
    OBVIOUS
  <2>2. row' = [k \in Key |-> IF <<k, "queued">> \in new THEN "queued"
                              ELSE IF <<k, "throttled">> \in new THEN "throttled" ELSE row[k]]
    BY <2>1 DEF CommitBatch
  <2>3. \A p \in new : p[1][2] \in Seqs
    BY <2>1 DEF ReaderInv, KeysInv
  <2>4. ASSUME NEW k \in Key, row'[k] # "none" \/ emitting[k] > 0 PROVE k[2] \in Seqs
    <3>1. CASE <<k, "queued">> \in new
      <4>1. <<k, "queued">>[1] = k
        OBVIOUS
      <4>2. QED
        BY <2>3, <3>1, <4>1
    <3>2. CASE <<k, "throttled">> \in new
      <4>1. <<k, "throttled">>[1] = k
        OBVIOUS
      <4>2. QED
        BY <2>3, <3>2, <4>1
    <3>3. CASE <<k, "queued">> \notin new /\ <<k, "throttled">> \notin new
      BY <2>2, <2>4, <3>3 DEF ReaderInv, KeysInv
    <3>4. QED
      BY <3>1, <3>2, <3>3
  <2>5. QED
    BY <1>1, <1>2, <2>4 DEF ReaderInv, KeysInv
<1>10. ASSUME NEW s \in Visible, origin < s, s <= last PROVE s \in seen \cup batch
  <2>1. s \in Nat
    BY VisibleAhead DEF ReaderInv
  <2>2. CASE s <= consumer.at
    BY <1>6, <1>10, <2>1, <2>2 DEF ReaderInv, NothingSkipped
  <2>3. CASE consumer.at < s
    BY <1>3, <1>5, <1>10, <2>3 DEF BatchIs
  <2>4. QED
    BY <1>6, <2>1, <2>2, <2>3
<1>11. NothingSkipped'
  BY <1>1, <1>5, <1>10 DEF NothingSkipped
<1>12. QED
  BY <1>1, <1>8, <1>9, <1>11

\* the work on the rows leaves the readers where they are
LEMMA WorkReads ==
  ASSUME ReaderInv, Writers = 1, LogMoves, UNCHANGED <<cursor, origin, consumer, seen>>,
         emitting' \in [Key -> Nat],
         \A k \in Key : row'[k] # "none" \/ emitting'[k] > 0 => row[k] # "none" \/ emitting[k] > 0
  PROVE  LogInv' /\ CursorInv' /\ KeysInv' /\ NothingSkipped'
<1>1. LogInv' /\ CursorInv' /\ NothingSkipped'
  BY PlaceKept DEF Up
<1>2. KeysInv'
  BY SeqsStay, KeysKept DEF ReaderInv
<1>3. QED
  BY <1>1, <1>2

LEMMA WorkerReads ==
  ASSUME ReaderInv, Writers = 1, NEW k \in Key, WorkerStep(k) \/ Requeue(k) \/ Emit(k)
  PROVE  LogInv' /\ CursorInv' /\ KeysInv' /\ NothingSkipped'
<1>1. UNCHANGED <<cursor, origin, consumer, seen>>
  BY DEF WorkerStep, Enter, Acts, ActionRaises, RecordOk, RecordOkRaises, RecordDead,
         RecordDeadRaises, Requeue, Emit
<1>2. row \in [Key -> Status] /\ emitting \in [Key -> Nat]
  BY DEF ReaderInv, RulesInv, Typed, KeysInv
<1>3. CASE Enter(k) \/ Acts(k) \/ ActionRaises(k) \/ RecordOkRaises(k) \/ RecordDeadRaises(k)
  <2>1. UNCHANGED <<log, row, emitting>>
    BY <1>3 DEF Enter, Acts, ActionRaises, RecordOkRaises, RecordDeadRaises
  <2>2. QED
    BY <1>1, <1>2, <2>1, WorkReads DEF LogMoves
<1>4. CASE RecordOk(k) \/ RecordDead(k)
  <2>1. UNCHANGED log /\ worker[k].pc # "idle"
    BY <1>4 DEF RecordOk, RecordDead
  <2>2. row[k] = "running"
    BY <2>1 DEF ReaderInv, RulesInv, Accounted
  <2>3. PICK status : Recorded(k, status)
    BY <1>4 DEF RecordOk, RecordDead
  <2>4. emitting' \in [Key -> Nat] /\ \A j \in Key : j # k => emitting'[j] = emitting[j]
                                                          /\ row'[j] = row[j]
    BY <1>2, <2>3 DEF Recorded
  <2>5. QED
    BY <1>1, <2>1, <2>2, <2>4, WorkReads DEF LogMoves
<1>5. CASE Requeue(k)
  <2>1. UNCHANGED <<log, emitting>> /\ row[k] # "none" /\ row' = [row EXCEPT ![k] = "queued"]
    BY <1>5 DEF Requeue
  <2>2. QED
    BY <1>1, <1>2, <2>1, WorkReads DEF LogMoves
<1>6. CASE Emit(k)
  <2>1. UNCHANGED row /\ emitting[k] > 0 /\ emitting' = [emitting EXCEPT ![k] = @ - 1]
    BY <1>6 DEF Emit
  <2>2. emitting' \in [Key -> Nat] /\ \A j \in Key : emitting'[j] > 0 => emitting[j] > 0
    BY <1>2, <2>1
  <2>3. LogMoves
    <3>1. k[2] \in Seqs
      BY <2>1 DEF ReaderInv, KeysInv
    <3>2. log[k[2]].depth + 1 \in Nat
      BY <3>1, LogFacts DEF ReaderInv, Event
    <3>3. QED
      BY <1>6, <3>2 DEF Emit, LogMoves
  <2>4. QED
    BY <1>1, <2>1, <2>2, <2>3, WorkReads
<1>7. QED
  BY <1>3, <1>4, <1>5, <1>6 DEF WorkerStep

LEMMA ConsumerReads ==
  ASSUME ReaderInv, Writers = 1, ConsumerStep \/ CommitRaises \/ ClaimLost \/ BootFails \/ Crash
  PROVE  LogInv' /\ CursorInv' /\ KeysInv' /\ NothingSkipped'
<1>1. CASE Match
  BY <1>1, MatchReads
<1>2. CASE Commit
  BY <1>2, CommitReads DEF Commit
<1>3. CASE CommitRaises /\ CommitBatch
  BY <1>3, CommitReads DEF CommitRaises
<1>4. DOMAIN consumer = {"pc", "at", "plan", "batch", "claimed"} /\ emitting \in [Key -> Nat]
  BY DEF ReaderInv, RulesInv, Typed, KeysInv
<1>5. ASSUME LogMoves, UNCHANGED <<cursor, origin, seen>>, consumer'.at \in {0, consumer.at},
             Up' => Up, consumer'.pc # "committing", emitting' \in [Key -> Nat],
             \A k \in Key : row'[k] # "none" => row[k] # "none",
             \A k \in Key : emitting'[k] > 0 => emitting[k] > 0
      PROVE  LogInv' /\ CursorInv' /\ KeysInv' /\ NothingSkipped'
  <2>1. LogInv' /\ CursorInv' /\ NothingSkipped'
    BY <1>5, PlaceKept
  <2>2. KeysInv'
    BY <1>5, SeqsStay, KeysKept DEF ReaderInv
  <2>3. QED
    BY <2>1, <2>2
<1>6. CASE CommitRaises /\ UNCHANGED <<row, runs, cursor, seen>>
  <2>1. UNCHANGED <<log, emitting, origin>> /\ BackToDraining(consumer.at)
        /\ consumer.pc = "committing"
    BY <1>6 DEF CommitRaises
  <2>2. consumer'.at = consumer.at /\ consumer'.pc = "draining" /\ Up
    BY <2>1 DEF BackToDraining, Stopped, Up
  <2>3. QED
    BY <1>4, <1>5, <1>6, <2>1, <2>2 DEF LogMoves
<1>7. ASSUME NEW ks \in SUBSET Key, Claim(ks) PROVE LogInv' /\ CursorInv' /\ KeysInv' /\ NothingSkipped'
  <2>1. /\ UNCHANGED <<log, emitting, origin, cursor, seen>> /\ consumer.pc = "draining"
        /\ row' = [k \in Key |-> IF k \in ks THEN "running" ELSE row[k]]
        /\ \A k \in ks : row[k] = "queued"
        /\ consumer' = [consumer EXCEPT !.pc = "starting", !.claimed = ks]
    BY <1>7 DEF Claim, Claimable
  <2>2. consumer'.at = consumer.at /\ consumer'.pc = "starting" /\ Up
    BY <1>4, <2>1 DEF Up
  <2>3. QED
    BY <1>4, <1>5, <2>1, <2>2 DEF LogMoves
<1>8. CASE StartWorkers \/ ClaimLost
  <2>1. UNCHANGED <<log, row, emitting, origin, cursor, seen>> /\ consumer.pc = "starting"
        /\ BackToDraining(consumer.at)
    BY <1>8 DEF StartWorkers, ClaimLost
  <2>2. consumer'.at = consumer.at /\ consumer'.pc = "draining" /\ Up
    BY <2>1 DEF BackToDraining, Stopped, Up
  <2>3. QED
    BY <1>4, <1>5, <2>1, <2>2 DEF LogMoves
<1>9. CASE BootFails \/ Crash
  <2>1. /\ UNCHANGED <<row, origin, cursor, seen>> /\ LogMoves
        /\ consumer' = Stopped("down") \/ consumer' = Stopped("failed")
        /\ UNCHANGED emitting \/ emitting' = [k \in Key |-> 0]
    BY <1>9 DEF BootFails, Crash, LogMoves
  <2>2. consumer'.at = 0 /\ consumer'.pc \in {"down", "failed"} /\ ~Up'
    BY <2>1 DEF Stopped, Up
  <2>3. QED
    BY <1>4, <1>5, <2>1, <2>2
<1>10. QED
  BY <1>1, <1>2, <1>3, <1>6, <1>7, <1>8, <1>9 DEF ConsumerStep, CommitRaises

LEMMA ReaderKeeps == Writers = 1 => (ReaderInv /\ [Next]_vars => ReaderInv')
<1> SUFFICES ASSUME ReaderInv, Writers = 1, [Next]_vars
             PROVE  LogInv' /\ CursorInv' /\ KeysInv' /\ NothingSkipped'
  BY NextKeeps DEF ReaderInv
<1>1. emitting \in [Key -> Nat]
  BY DEF ReaderInv, KeysInv
<1>2. CASE UNCHANGED vars
  BY <1>1, <1>2, WorkReads DEF vars, rulesVars, LogMoves
<1>3. ASSUME NEW m \in SUBSET Rule, NEW d \in 0..MaxDepth + 1, Ingest(m, d)
      PROVE  LogInv' /\ CursorInv' /\ KeysInv' /\ NothingSkipped'
  <2>1. d \in Nat
    BY RulesAssumption
  <2>2. LogMoves /\ UNCHANGED rulesVars
    BY <1>3, <2>1 DEF Ingest, LogMoves
  <2>3. QED
    BY <1>1, <2>2, WorkReads DEF rulesVars
<1>4. ASSUME NEW s \in 1..MaxEvents, NEW p \in Phase, IngestEnds(s, p)
      PROVE  LogInv' /\ CursorInv' /\ KeysInv' /\ NothingSkipped'
  <2>1. LogMoves /\ UNCHANGED rulesVars
    BY <1>4 DEF IngestEnds, LogMoves
  <2>2. QED
    BY <1>1, <2>1, WorkReads DEF rulesVars
<1>5. ASSUME NEW r \in Rule, NEW v \in {"on", "off", "gone"}, SetRule(r, v) \/ WindowSlides(r)
      PROVE  LogInv' /\ CursorInv' /\ KeysInv' /\ NothingSkipped'
  BY <1>1, <1>5, WorkReads DEF SetRule, WindowSlides, LogMoves
<1>6. ASSUME NEW k \in Key, Requeue(k) \/ WorkerStep(k) \/ Emit(k)
      PROVE  LogInv' /\ CursorInv' /\ KeysInv' /\ NothingSkipped'
  BY <1>6, WorkerReads
<1>7. CASE ConsumerStep \/ CommitRaises \/ ClaimLost \/ BootFails \/ Crash
  BY <1>7, ConsumerReads
<1>8. ASSUME NEW ks \in SUBSET Key, Boot(ks)
      PROVE  LogInv' /\ CursorInv' /\ KeysInv' /\ NothingSkipped'
  BY <1>8, BootReads
<1>9. QED
  BY <1>2, <1>3, <1>4, <1>5, <1>6, <1>7, <1>8 DEF Next

-----------------------------------------------------------------------------
(* The sink's cursor *)

SinkInv ==
    /\ sinkCursor \in Nat /\ sink \in [pc : {"down", "draining", "saving"}, at : Nat]
    /\ DOMAIN index = 1..MaxEvents
    /\ Ahead(sinkCursor) /\ Ahead(sink.at)
    /\ SinkSkipsNothing

\* a row that has been dealt with
Dealt(s) == index[s] # "none" \/ s \in dropped

LEMMA InitSinkInv == log = <<>> /\ SinkInit => SinkInv
<1> SUFFICES ASSUME log = <<>>, SinkInit PROVE SinkInv
  OBVIOUS
<1>1. Len(log) = 0 /\ Seqs = {} /\ Visible = {}
  BY DEF Seqs, Visible
<1>2. sinkCursor = 0 /\ sink = SinkDown /\ SinkDown.at = 0 /\ DOMAIN index = 1..MaxEvents
  BY DEF SinkInit, SinkDown
<1>3. SinkDown \in [pc : {"down", "draining", "saving"}, at : Nat]
  BY DEF SinkDown
<1>4. QED
  BY <1>1, <1>2, <1>3 DEF SinkInv, Ahead, SinkSkipsNothing

\* whatever happens to the log: what the sink has passed stays dealt with
LEMMA SinkPlaceKept ==
  ASSUME LogInv, SinkInv, Writers = 1, LogMoves,
         sinkCursor' \in {sinkCursor, sink.at}, sink'.at \in {0, sink.at},
         sink' \in [pc : {"down", "draining", "saving"}, at : Nat],
         DOMAIN index' = 1..MaxEvents, \A s \in Seqs : Dealt(s) => Dealt(s)'
  PROVE  SinkInv'
<1>1. PICK c \in Nat : c = sinkCursor'
  BY DEF SinkInv
<1>2. PICK a \in Nat : a = sink'.at
  OBVIOUS
<1>3. Ahead(c) /\ Ahead(a)
  BY <1>1, <1>2, VisibleAhead DEF SinkInv
<1>4. Ahead(c)' /\ \A s \in Visible' : s <= c => s \in Visible
  BY <1>3, AheadKeeps
<1>5. Ahead(a)' /\ \A s \in Visible' : s <= a => s \in Visible
  BY <1>3, AheadKeeps
<1>6. Ahead(sinkCursor)' /\ Ahead(sink.at)'
  BY <1>1, <1>2, <1>4, <1>5 DEF Ahead
<1>7. ASSUME NEW s \in Visible', s <= sinkCursor' \/ s <= sink'.at
      PROVE  Dealt(s)'
  <2>1. s \in Visible /\ s \in Seqs /\ s \in Nat
    BY <1>1, <1>2, <1>4, <1>5, <1>7, LogFacts, VisibleAhead
  <2>2. s <= sinkCursor \/ s <= sink.at
    <3>1. 1 <= s /\ sinkCursor \in Nat /\ sink.at \in Nat
      BY <2>1, LogFacts DEF SinkInv
    <3>2. QED
      BY <1>7, <2>1, <3>1
  <2>3. Dealt(s)
    BY <2>1, <2>2 DEF SinkInv, SinkSkipsNothing, Dealt
  <2>4. QED
    BY <2>1, <2>3
<1>8. SinkSkipsNothing'
  BY <1>7 DEF SinkSkipsNothing, Dealt
<1>9. QED
  BY <1>1, <1>6, <1>8 DEF SinkInv

LEMMA IndexKeeps ==
  ASSUME LogInv, SinkInv, IndexBatch
  PROVE  SinkInv'
<1>1. PICK batch : /\ batch = FetchAfter(sink.at, SinkBatch) /\ batch # {}
                  /\ \E rejected \in SUBSET batch : \E lost \in SUBSET rejected :
                        /\ index' = [s \in 1..MaxEvents |->
                                       IF s \in batch \ rejected THEN "full"
                                       ELSE IF s \in rejected \ lost THEN "fallback" ELSE index[s]]
                        /\ dropped' = dropped \cup lost
                  /\ sink' = [pc |-> "saving", at |-> CHOOSE s \in batch : \A t \in batch : t <= s]
  BY DEF IndexBatch
<1>2. sink.at \in Nat /\ SinkBatch \in Nat
  BY SinkAssumption DEF SinkInv
<1>3. /\ batch \subseteq Visible
      /\ \A w \in batch : sink.at < w /\ Ahead(w) /\ w \in Nat
      /\ \A w \in batch, u \in Visible : sink.at < u /\ u <= w => u \in batch
  BY <1>1, <1>2, FetchedAre
<1>4. PICK last : last = CHOOSE s \in batch : \A t \in batch : t <= s
  OBVIOUS
<1>5. last \in batch /\ sink' = [pc |-> "saving", at |-> last]
  BY <1>1, <1>3, <1>4, LastOfBatch
<1>6. UNCHANGED <<log, sinkCursor>>
  BY DEF IndexBatch
<1>7. Visible \subseteq 1..MaxEvents
  BY LogFacts, LogAssumption DEF LogInv
<1>8. \A s \in 1..MaxEvents : (s \in batch => Dealt(s)') /\ (Dealt(s) => Dealt(s)')
  <2>1. PICK rejected \in SUBSET batch, lost \in SUBSET batch :
           /\ lost \subseteq rejected
           /\ index' = [s \in 1..MaxEvents |->
                          IF s \in batch \ rejected THEN "full"
                          ELSE IF s \in rejected \ lost THEN "fallback" ELSE index[s]]
           /\ dropped' = dropped \cup lost
    BY <1>1
  <2>2. ASSUME NEW s \in 1..MaxEvents PROVE (s \in batch => Dealt(s)') /\ (Dealt(s) => Dealt(s)')
    BY <2>1 DEF Dealt
  <2>3. QED
    BY <2>2
<1>9. Seqs' = Seqs /\ Visible' = Visible
  BY <1>6 DEF Seqs, Visible
<1>10. Ahead(last) /\ last \in Nat /\ Ahead(sinkCursor)
  BY <1>3, <1>5 DEF SinkInv
<1>11. Ahead(sinkCursor)' /\ Ahead(sink.at)'
  BY <1>5, <1>6, <1>9, <1>10 DEF Ahead
<1>12. ASSUME NEW s \in Visible, s <= sinkCursor \/ s <= last PROVE Dealt(s)'
  <2>1. s \in 1..MaxEvents /\ s \in Nat
    BY <1>7, VisibleAhead
  <2>2. CASE s <= sinkCursor \/ s <= sink.at
    BY <1>8, <2>1, <2>2 DEF SinkInv, SinkSkipsNothing, Dealt
  <2>3. CASE sink.at < s /\ s <= last
    BY <1>3, <1>5, <1>8, <2>1, <2>3
  <2>4. QED
    BY <1>2, <1>12, <2>1, <2>2, <2>3
<1>13. SinkSkipsNothing'
  BY <1>5, <1>6, <1>9, <1>12 DEF SinkSkipsNothing, Dealt
<1>14. DOMAIN index' = 1..MaxEvents
  BY <1>1
<1>15. QED
  BY <1>5, <1>6, <1>10, <1>11, <1>13, <1>14 DEF SinkInv

LEMMA SinkKeeps ==
  ASSUME LogInv, SinkInv, Writers = 1, SinkNext
  PROVE  SinkInv' /\ LogMoves
<1>1. sink \in [pc : {"down", "draining", "saving"}, at : Nat] /\ DOMAIN index = 1..MaxEvents
  BY DEF SinkInv
<1>2. CASE SinkIngest \/ \E s \in 1..MaxEvents, p \in Phase : AppendEnds(s, p)
  <2>1. LogMoves /\ UNCHANGED sinkVars
    BY <1>2 DEF SinkIngest, AppendEnds, LogMoves
  <2>2. QED
    BY <1>1, <2>1, SinkPlaceKept DEF sinkVars, Dealt
<1>3. CASE SinkBoot
  <2>1. UNCHANGED <<log, sinkCursor, index, dropped>>
        /\ sink' = [pc |-> "draining", at |-> sinkCursor]
    BY <1>3 DEF SinkBoot
  <2>2. Seqs' = Seqs /\ Visible' = Visible /\ sink'.at = sinkCursor
    BY <2>1 DEF Seqs, Visible
  <2>3. Ahead(sinkCursor)' /\ Ahead(sink.at)'
    BY <2>1, <2>2 DEF Ahead, SinkInv
  <2>4. SinkSkipsNothing'
    BY <2>1, <2>2 DEF SinkInv, SinkSkipsNothing
  <2>5. QED
    BY <2>1, <2>3, <2>4 DEF SinkInv, LogMoves
<1>4. CASE IndexBatch
  BY <1>4, IndexKeeps DEF IndexBatch, LogMoves
<1>5. CASE IndexBatchRaises
  <2>1. UNCHANGED <<log, sinkCursor, sink, dropped>>
        /\ \E full : index' = Indexed(full, "full")
    BY <1>5 DEF IndexBatchRaises
  <2>2. DOMAIN index' = 1..MaxEvents /\ \A s \in 1..MaxEvents : Dealt(s) => Dealt(s)'
    BY <2>1 DEF Indexed, Dealt
  <2>3. Seqs \subseteq 1..MaxEvents
    BY LogFacts, LogAssumption DEF LogInv
  <2>4. LogMoves
    BY <2>1 DEF LogMoves
  <2>5. QED
    BY <1>1, <2>1, <2>2, <2>3, <2>4, SinkPlaceKept
<1>6. CASE SaveCursor
  <2>1. UNCHANGED <<log, index, dropped>> /\ sink' = [sink EXCEPT !.pc = "draining"]
        /\ sinkCursor' \in {sinkCursor, sink.at}
    BY <1>6 DEF SaveCursor
  <2>2. sink' \in [pc : {"down", "draining", "saving"}, at : Nat] /\ sink'.at = sink.at
    BY <1>1, <2>1
  <2>3. LogMoves
    BY <2>1 DEF LogMoves
  <2>4. QED
    BY <1>1, <2>1, <2>2, <2>3, SinkPlaceKept DEF Dealt
<1>7. CASE SinkCrash
  <2>1. UNCHANGED <<sinkCursor, index, dropped>> /\ sink' = SinkDown /\ AbortOpen
    BY <1>7 DEF SinkCrash
  <2>2. sink' \in [pc : {"down", "draining", "saving"}, at : Nat] /\ sink'.at = 0
    BY <2>1 DEF SinkDown
  <2>3. LogMoves
    BY <2>1 DEF LogMoves
  <2>4. QED
    BY <1>1, <2>1, <2>2, <2>3, SinkPlaceKept DEF Dealt
<1>8. QED
  BY <1>2, <1>3, <1>4, <1>5, <1>6, <1>7 DEF SinkNext

LEMMA RulesMoveLog == ReaderInv /\ [Next]_vars => LogMoves
<1> SUFFICES ASSUME ReaderInv, [Next]_vars PROVE LogMoves
  OBVIOUS
<1>1. ASSUME NEW m \in SUBSET Rule, NEW d \in 0..MaxDepth + 1, Ingest(m, d) PROVE LogMoves
  <2>1. d \in Nat
    BY RulesAssumption
  <2>2. QED
    BY <1>1, <2>1 DEF Ingest, LogMoves
<1>2. ASSUME NEW k \in Key, Emit(k) PROVE LogMoves
  <2>1. k[2] \in Seqs
    BY <1>2 DEF Emit, ReaderInv, KeysInv
  <2>2. log[k[2]].depth + 1 \in Nat
    BY <2>1, LogFacts DEF ReaderInv, Event
  <2>3. QED
    BY <1>2, <2>2 DEF Emit, LogMoves
<1>3. ASSUME NEW k \in Key, Requeue(k) \/ WorkerStep(k) PROVE UNCHANGED log
  BY <1>3 DEF WorkerStep, Enter, Acts, ActionRaises, RecordOk, RecordOkRaises, RecordDead,
              RecordDeadRaises, Requeue
<1>4. CASE ConsumerStep \/ CommitRaises \/ ClaimLost \/ BootFails
  BY <1>4 DEF ConsumerStep, Match, Commit, Claim, StartWorkers, CommitRaises, ClaimLost,
              BootFails, LogMoves
<1>5. ASSUME NEW r \in Rule, NEW v \in {"on", "off", "gone"}, SetRule(r, v) \/ WindowSlides(r)
      PROVE  UNCHANGED log
  BY <1>5 DEF SetRule, WindowSlides
<1>6. ASSUME NEW ks \in SUBSET Key, Boot(ks) PROVE UNCHANGED log
  BY <1>6 DEF Boot
<1>7. CASE UNCHANGED vars
  BY <1>7 DEF vars, LogMoves
<1>8. CASE Crash
  BY <1>8 DEF Crash, LogMoves
<1>9. ASSUME NEW s \in 1..MaxEvents, NEW p \in Phase, IngestEnds(s, p) PROVE LogMoves
  BY <1>9 DEF IngestEnds, LogMoves
<1>10. QED
  BY <1>1, <1>2, <1>3, <1>4, <1>5, <1>6, <1>7, <1>8, <1>9 DEF Next, LogMoves

\* the sink's steps leave the rules alone but for the log
LEMMA RulesRest ==
  ASSUME ReaderInv, Writers = 1, LogMoves, UNCHANGED rulesVars
  PROVE  ReaderInv'
<1>1. emitting \in [Key -> Nat]
  BY DEF ReaderInv, KeysInv
<1>2. LogInv' /\ CursorInv' /\ KeysInv' /\ NothingSkipped'
  BY <1>1, WorkReads DEF rulesVars
<1>3. RulesInv'
  BY OthersKeep DEF rulesVars, ReaderInv
<1>4. QED
  BY <1>2, <1>3 DEF ReaderInv

BothReaders == ReaderInv /\ SinkInv

LEMMA BusKeeps == Writers = 1 => (BothReaders /\ [BusNext]_busVars => BothReaders')
<1> SUFFICES ASSUME Writers = 1, BothReaders, [BusNext]_busVars PROVE BothReaders'
  OBVIOUS
<1>1. LogInv /\ ReaderInv /\ SinkInv
  BY DEF BothReaders, ReaderInv
<1>2. sink \in [pc : {"down", "draining", "saving"}, at : Nat] /\ DOMAIN index = 1..MaxEvents
  BY DEF BothReaders, SinkInv
<1>3. ASSUME LogMoves, UNCHANGED sinkVars PROVE SinkInv'
  BY <1>1, <1>2, <1>3, SinkPlaceKept DEF sinkVars, Dealt
<1>4. CASE Next /\ UNCHANGED sinkVars
  BY <1>1, <1>3, <1>4, ReaderKeeps, RulesMoveLog DEF BothReaders
<1>5. CASE SinkNext /\ UNCHANGED rulesVars
  BY <1>1, <1>5, SinkKeeps, RulesRest DEF BothReaders
<1>6. CASE UNCHANGED <<vars, sinkVars>>
  BY <1>1, <1>3, <1>6, RulesRest DEF vars, LogMoves, BothReaders
<1>7. QED
  BY <1>4, <1>5, <1>6 DEF BusNext, busVars

\* With one ingest transaction open at a time, through lost answers, failed
\* saves and deaths of the hub, neither the cursor of the rules nor that of the
\* OpenSearch sink passes an event that its reader has not dealt with
\* (fetch_events_after, _commit_batch, SaveEventCursor).  With two the rows can
\* appear out of order, and the theorem is false.
THEOREM CursorsPassNothing == Writers = 1 => (BusSpec => []ReadersSkipNothing)
<1> SUFFICES ASSUME Writers = 1 PROVE BusSpec => []ReadersSkipNothing
  OBVIOUS
<1>1. BusInit => BothReaders
  BY InitReaderInv, InitSinkInv DEF BusInit, Init, BothReaders
<1>2. BothReaders /\ [BusNext]_busVars => BothReaders'
  BY BusKeeps
<1>3. BothReaders => ReadersSkipNothing
  BY DEF BothReaders, ReaderInv, SinkInv, ReadersSkipNothing
<1>4. QED
  BY <1>1, <1>2, <1>3, PTL DEF BusSpec

=============================================================================
