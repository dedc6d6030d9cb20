----------------------------- MODULE VoipProofs -----------------------------
(***************************************************************************)
(* Proofs about the Agent of a PABX host: the channel-start rate window,   *)
(* for every window, patience, ceiling and number of ticks in a second,    *)
(* and the fenced lease of pabx.command, for any jobs, leases, renewals,   *)
(* late requests and restarts.                                             *)
(***************************************************************************)
EXTENDS VoipRate, PabxCommand, FiniteSetTheorems, TLAPS
-----------------------------------------------------------------------------
(* The channel-start rate window                                           *)

\* A second of the clock is one of the model's.
USE RateAssumption DEF Seconds

\* No second went over the ceiling, and the clock never stepped back.
Trusted == steady /\ \A k \in Seconds : starts[k] <= Ceiling

\* On a trusted connection the buckets agree with the history wherever the
\* window still looks, and lie in no later second.
Agrees ==
  stream /\ Trusted =>
    /\ connectedAt # NoTime /\ ~Before(clock, connectedAt)
    /\ \A k \in Recent(clock.s) : Count(buckets, k) = starts[k]
    /\ \A k \in DOMAIN buckets : k <= clock.s
    /\ \A k \in Seconds : k > clock.s => starts[k] = 0

RateInv == RateTypeOK /\ Agrees

\* A moment is two numbers.
LEMMA Moment == \A c \in Times : c.s \in Seconds /\ c.s \in Nat /\ c.t \in Nat
BY DEF Times

LEMMA Now == RateTypeOK => clock.s \in Seconds /\ clock.s \in Nat /\ clock.t \in Nat
BY Moment DEF RateTypeOK
-----------------------------------------------------------------------------
(* The buckets.                                                            *)

\* A part of the seconds is finite and no larger than the whole of it.
LEMMA SmallerKeys ==
  ASSUME NEW S \in SUBSET Seconds, NEW T \in SUBSET S
  PROVE  Cardinality(T) \in Nat /\ Cardinality(T) <= Cardinality(S)
<1>1. IsFiniteSet(Seconds)
  BY FS_Interval
<1>2. IsFiniteSet(S)
  BY <1>1, FS_Subset
<1> QED
  BY <1>2, FS_Subset, FS_CardinalityType

\* A window and its current second.
LEMMA WindowSize ==
  ASSUME NEW s \in Seconds, NEW S \in SUBSET Seconds,
         \A k \in S : k >= s - Window /\ k <= s
  PROVE  Cardinality(S) <= Window + 1
<1>1. /\ IsFiniteSet((s - Window)..s)
      /\ Cardinality((s - Window)..s) = Window + 1
  BY FS_Interval
<1>2. S \subseteq (s - Window)..s
  OBVIOUS
<1> QED
  BY <1>1, <1>2, FS_Subset

\* Dropping buckets keeps their counts and their number small.
LEMMA KeptBuckets ==
  ASSUME RateTypeOK, NEW S
  PROVE  LET b == Keep(buckets, S) IN
         /\ DOMAIN b = DOMAIN buckets \cap S
         /\ b \in [DOMAIN b -> Nat]
         /\ \A k \in DOMAIN b : b[k] = buckets[k]
         /\ Cardinality(DOMAIN b) <= Window + 1
<1> DEFINE b == Keep(buckets, S)
<1>1. DOMAIN b = DOMAIN buckets \cap S
  BY DEF Keep
<1>2. \A k \in DOMAIN b : b[k] = buckets[k] /\ b[k] \in Nat
  BY DEF Keep, RateTypeOK
<1>3. b \in [DOMAIN b -> Nat]
  BY <1>2 DEF Keep
<1>4. Cardinality(DOMAIN b) <= Window + 1
  <2>1. DOMAIN buckets \in SUBSET Seconds /\ DOMAIN b \in SUBSET DOMAIN buckets
    BY <1>1 DEF RateTypeOK
  <2>2. /\ Cardinality(DOMAIN b) \in Nat /\ Cardinality(DOMAIN buckets) \in Nat
        /\ Cardinality(DOMAIN b) <= Cardinality(DOMAIN buckets)
    BY <2>1, SmallerKeys
  <2> QED
    BY <2>2 DEF RateTypeOK
<1> HIDE DEF b
<1>5. /\ DOMAIN b = DOMAIN buckets \cap S
      /\ b \in [DOMAIN b -> Nat]
      /\ \A k \in DOMAIN b : b[k] = buckets[k]
      /\ Cardinality(DOMAIN b) <= Window + 1
  BY <1>1, <1>2, <1>3, <1>4
<1> QED
  BY <1>5 DEF b

\* The buckets after a start hold what was recent and one more start.
LEMMA CountedBuckets ==
  ASSUME RateTypeOK
  PROVE  /\ DOMAIN Counted = (DOMAIN buckets \cap Recent(clock.s)) \cup {clock.s}
         /\ Counted \in [DOMAIN Counted -> Nat]
         /\ \A k \in Recent(clock.s) :
              Count(Counted, k) =
                IF k = clock.s THEN Count(buckets, k) + 1 ELSE Count(buckets, k)
<1> DEFINE kept == Keep(buckets, Recent(clock.s))
<1>1. /\ DOMAIN kept = DOMAIN buckets \cap Recent(clock.s)
      /\ \A k \in DOMAIN kept : kept[k] = buckets[k] /\ kept[k] \in Nat
  BY DEF RateTypeOK, Keep
<1>2. clock.s \in Recent(clock.s) /\ clock.s \in Seconds
  BY Now DEF Recent
<1>3. Counted = [k \in DOMAIN kept \cup {clock.s} |->
                  IF k = clock.s THEN Count(kept, k) + 1 ELSE kept[k]]
  BY DEF Counted
<1>4. \A k \in Recent(clock.s) : Count(kept, k) = Count(buckets, k)
  BY <1>1 DEF Count
<1>5. \A k : Count(kept, k) \in Nat
  BY <1>1 DEF Count
<1> HIDE DEF kept
<1>6. DOMAIN Counted = DOMAIN kept \cup {clock.s}
  BY <1>3
<1>7. \A k \in DOMAIN Counted :
        Counted[k] = IF k = clock.s THEN Count(kept, k) + 1 ELSE kept[k]
  BY <1>3
<1>8. \A k \in DOMAIN Counted : Counted[k] \in Nat
  BY <1>1, <1>5, <1>6, <1>7
<1>9. Counted \in [DOMAIN Counted -> Nat]
  BY <1>3, <1>8
<1>10. \A k \in Recent(clock.s) :
         Count(Counted, k) =
           IF k = clock.s THEN Count(buckets, k) + 1 ELSE Count(buckets, k)
  <2> TAKE k \in Recent(clock.s)
  <2>1. CASE k = clock.s
    BY <2>1, <1>2, <1>4, <1>6, <1>7 DEF Count
  <2>2. CASE k # clock.s
    BY <2>2, <1>4, <1>6, <1>7 DEF Count
  <2> QED
    BY <2>1, <2>2
<1> QED
  BY <1>1, <1>6, <1>9, <1>10
-----------------------------------------------------------------------------
(* The inductive invariant.                                                *)

\* No bucket at all.
LEMMA NoBucketsTyped ==
  /\ DOMAIN NoBuckets = {} /\ NoBuckets \in [DOMAIN NoBuckets -> Nat]
  /\ Cardinality(DOMAIN NoBuckets) = 0
<1>1. DOMAIN NoBuckets = {} /\ NoBuckets \in [DOMAIN NoBuckets -> Nat]
  BY DEF NoBuckets
<1> QED
  BY <1>1, FS_EmptySet

\* The initial states satisfy the invariant.
LEMMA RateInitInv == RateInit => RateInv
<1> SUFFICES ASSUME RateInit PROVE RateInv
  OBVIOUS
<1>1. clock \in Times
  BY DEF RateInit, Times
<1>2. starts \in [Seconds -> Nat]
  BY DEF RateInit, Silent
<1>3. Cardinality(DOMAIN buckets) <= Window + 1 /\ DOMAIN buckets = {}
  BY NoBucketsTyped DEF RateInit
<1>4. RateTypeOK
  BY <1>1, <1>2, <1>3, NoBucketsTyped DEF RateInit, RateTypeOK
<1> QED
  BY <1>4 DEF RateInit, RateInv, Agrees

\* Time passes forward.
LEMMA TimeForward ==
  ASSUME RateTypeOK, TimePasses
  PROVE  clock' \in Times /\ clock'.s >= clock.s /\ Before(clock, clock')
<1>1. CASE clock.t < MaxTick /\ clock' = [clock EXCEPT !.t = @ + 1]
  <2>1. clock' = [s |-> clock.s, t |-> clock.t + 1]
    BY <1>1 DEF RateTypeOK, Times
  <2>2. clock.s \in Seconds /\ clock.t \in 0..MaxTick /\ clock.t + 1 \in 0..MaxTick
    BY <1>1 DEF RateTypeOK, Times
  <2>3. clock' \in Times
    BY <2>1, <2>2 DEF Times
  <2> QED
    BY <2>1, <2>2, <2>3 DEF Before
<1>2. CASE clock.s < MaxSecond /\ clock' = [s |-> clock.s + 1, t |-> 0]
  BY <1>2 DEF RateTypeOK, Times, Before
<1> QED
  BY <1>1, <1>2 DEF TimePasses

\* Every step keeps the types.
LEMMA RateTypeStep == RateTypeOK /\ [RateNext]_rateVars => RateTypeOK'
<1> SUFFICES ASSUME RateTypeOK, [RateNext]_rateVars PROVE RateTypeOK'
  OBVIOUS
<1>1. CASE Connect
  BY <1>1, NoBucketsTyped DEF RateTypeOK, Connect, Silent
<1>2. CASE Disconnect
  <2>1. buckets' = NoBuckets /\ connectedAt' = NoTime /\ acknowledgedAt' = NoTime
    BY <1>2 DEF Disconnect
  <2> QED
    BY <1>2, <2>1, NoBucketsTyped DEF RateTypeOK, Disconnect
<1>3. CASE Acknowledge
  BY <1>3 DEF RateTypeOK, Acknowledge
<1>4. CASE Record
  <2>1. /\ stream' \in BOOLEAN /\ clock' \in Times /\ steady' \in BOOLEAN
        /\ starts' \in [Seconds -> Nat] /\ started' \in Nat /\ steps' \in Nat
    <3>1. starts' = [starts EXCEPT ![clock.s] = @ + 1] /\ started' = started + 1
      BY <1>4 DEF Record
    <3>2. clock.s \in Seconds /\ starts \in [Seconds -> Nat]
      BY Now DEF RateTypeOK
    <3>3. starts[clock.s] + 1 \in Nat
      BY <3>2
    <3>4. starts' = [starts EXCEPT ![clock.s] = starts[clock.s] + 1]
      BY <3>1
    <3>5. starts' \in [Seconds -> Nat]
      BY <3>2, <3>3, <3>4
    <3> QED
      BY <1>4, <3>1, <3>5 DEF RateTypeOK, Record
  <2>2. CASE UNCHANGED window
    BY <2>1, <2>2 DEF RateTypeOK, window
  <2>3. CASE /\ connectedAt' = NoTime /\ acknowledgedAt' = NoTime
             /\ buckets' = NoBuckets
    BY <2>1, <2>3, NoBucketsTyped DEF RateTypeOK
  <2>4. CASE /\ ~(Cardinality(DOMAIN Counted) > Window + 1)
             /\ buckets' = Counted /\ UNCHANGED <<connectedAt, acknowledgedAt>>
    <3>1. DOMAIN Counted \in SUBSET Seconds
      BY Now, CountedBuckets DEF RateTypeOK
    <3>2. Cardinality(DOMAIN Counted) \in Nat
      BY <3>1, SmallerKeys
    <3>3. Cardinality(DOMAIN Counted) <= Window + 1
      BY <2>4, <3>2
    <3> QED
      BY <2>1, <2>4, <3>1, <3>3, CountedBuckets DEF RateTypeOK
  <2> QED
    BY <1>4, <2>2, <2>3, <2>4 DEF Record
<1>5. CASE TakeSample
  BY <1>5, KeptBuckets DEF RateTypeOK, TakeSample
<1>6. CASE TimePasses
  BY <1>6, TimeForward DEF RateTypeOK, TimePasses, window
<1>7. CASE ClockStepsBack
  <2>1. clock' \in Times /\ steps' \in Nat
    BY <1>7 DEF RateTypeOK, ClockStepsBack
  <2> QED
    BY <1>7, <2>1 DEF RateTypeOK, ClockStepsBack, window
<1>8. CASE UNCHANGED rateVars
  BY <1>8 DEF RateTypeOK, rateVars, window
<1> QED
  BY <1>1, <1>2, <1>3, <1>4, <1>5, <1>6, <1>7, <1>8 DEF RateNext

\* Every step keeps the agreement of the buckets with the history.
LEMMA AgreesStep == RateInv /\ [RateNext]_rateVars => Agrees'
<1> SUFFICES ASSUME RateInv, [RateNext]_rateVars, stream', Trusted'
             PROVE  /\ connectedAt' # NoTime /\ ~Before(clock', connectedAt')
                    /\ \A k \in Recent(clock'.s) : Count(buckets', k) = starts'[k]
                    /\ \A k \in DOMAIN buckets' : k <= clock'.s
                    /\ \A k \in Seconds : k > clock'.s => starts'[k] = 0
  BY DEF Agrees
<1> USE DEF RateInv
<1>1. CASE Connect
  <2>1. clock' = clock /\ connectedAt' = clock /\ clock \in Times
    BY <1>1 DEF Connect, RateTypeOK
  <2>2. connectedAt' # NoTime /\ ~Before(clock', connectedAt')
    BY <2>1, Moment DEF Before, Times
  <2>3. \A k \in Seconds : Count(buckets', k) = starts'[k] /\ starts'[k] = 0
    BY <1>1 DEF Connect, Silent, Count, NoBuckets
  <2>4. DOMAIN buckets' = {}
    BY <1>1, NoBucketsTyped DEF Connect
  <2> QED
    BY <2>2, <2>3, <2>4 DEF Recent
<1>2. CASE Disconnect
  BY <1>2 DEF Disconnect
<1>3. CASE Acknowledge
  BY <1>3 DEF Acknowledge, Agrees, Trusted
<1>4. CASE Record
  <2>1. /\ clock' = clock /\ stream /\ steady /\ starts \in [Seconds -> Nat]
        /\ starts' = [starts EXCEPT ![clock.s] = @ + 1]
        /\ clock \in Times
    BY <1>4 DEF Record, Trusted, RateTypeOK
  <2>2. \A k \in Seconds : starts[k] <= starts'[k] /\ starts'[k] \in Nat
    BY <2>1
  <2>3. Trusted
    BY <2>1, <2>2 DEF Trusted
  <2>4. /\ connectedAt # NoTime /\ ~Before(clock, connectedAt)
        /\ \A k \in Recent(clock.s) : Count(buckets, k) = starts[k]
        /\ \A k \in DOMAIN buckets : k <= clock.s
        /\ \A k \in Seconds : k > clock.s => starts[k] = 0
    BY <2>1, <2>3 DEF Agrees
  <2>5. clock.s \in Recent(clock.s) /\ clock.s \in Seconds
    BY Now DEF Recent
  <2>6. \A k \in Recent(clock.s) : Count(Counted, k) = starts'[k]
    <3> TAKE k \in Recent(clock.s)
    <3>1. k \in Seconds
      BY DEF Recent
    <3>2. Count(Counted, k) = IF k = clock.s THEN starts[k] + 1 ELSE starts[k]
      BY <2>4, CountedBuckets
    <3> QED
      BY <2>1, <3>1, <3>2
  <2>7. \A k \in DOMAIN Counted : k <= clock.s /\ k >= clock.s - Window
    BY <2>4, Now, CountedBuckets DEF Recent
  <2>8. ~(Counted[clock.s] > Ceiling)
    <3>1. Counted[clock.s] = starts'[clock.s]
      BY <2>5, <2>6, CountedBuckets DEF Count
    <3> QED
      BY <2>2, <2>5, <3>1 DEF Trusted
  <2>9. ~(Cardinality(DOMAIN Counted) > Window + 1)
    <3>1. DOMAIN Counted \in SUBSET Seconds
      BY Now, CountedBuckets DEF RateTypeOK
    <3>2. Cardinality(DOMAIN Counted) <= Window + 1
      BY <2>7, <3>1, Now, WindowSize
    <3>3. Cardinality(DOMAIN Counted) \in Nat
      BY <3>1, SmallerKeys
    <3> QED
      BY <3>2, <3>3
  <2>10. buckets' = Counted /\ connectedAt' = connectedAt
    BY <1>4, <2>4, <2>8, <2>9 DEF Record
  <2>11. \A k \in Seconds : k > clock.s => starts'[k] = 0
    BY <2>1, <2>4
  <2> QED
    BY <2>1, <2>4, <2>6, <2>7, <2>10, <2>11
<1>5. CASE TakeSample
  <2>1. /\ clock' = clock /\ connectedAt' = connectedAt /\ starts' = starts
        /\ buckets' = Keep(buckets, Recent(clock.s))
        /\ stream /\ Trusted
    BY <1>5 DEF TakeSample, Trusted
  <2>2. \A k \in Recent(clock.s) : Count(buckets', k) = Count(buckets, k)
    BY <2>1, KeptBuckets DEF Count
  <2>3. DOMAIN buckets' \subseteq DOMAIN buckets
    BY <2>1, KeptBuckets
  <2> QED
    BY <2>1, <2>2, <2>3 DEF Agrees
<1>6. CASE TimePasses
  <2>1. /\ stream /\ Trusted /\ connectedAt' = connectedAt /\ buckets' = buckets
        /\ starts' = starts /\ clock \in Times
    BY <1>6 DEF TimePasses, Trusted, window, RateTypeOK
  <2>2. clock' \in Times /\ clock'.s >= clock.s /\ Before(clock, clock')
    BY <1>6, TimeForward
  <2>3. Recent(clock'.s) \subseteq Recent(clock.s)
    BY <2>1, <2>2, Moment DEF Recent
  <2>4. ~Before(clock', connectedAt)
    <3>1. connectedAt \in Times /\ ~Before(clock, connectedAt)
      BY <2>1 DEF Agrees, RateTypeOK
    <3> QED
      BY <2>1, <2>2, <3>1, Moment DEF Before
  <2>5. /\ \A k \in DOMAIN buckets : k <= clock'.s
        /\ \A k \in Seconds : k > clock'.s => starts[k] = 0
    <3>1. /\ \A k \in DOMAIN buckets : k \in Seconds /\ k <= clock.s
          /\ \A k \in Seconds : k > clock.s => starts[k] = 0
      BY <2>1 DEF Agrees, RateTypeOK
    <3> QED
      BY <2>1, <2>2, <3>1, Moment
  <2> QED
    BY <2>1, <2>3, <2>4, <2>5 DEF Agrees
<1>7. CASE ClockStepsBack
  BY <1>7 DEF ClockStepsBack, Trusted
<1>8. CASE UNCHANGED rateVars
  BY <1>8 DEF rateVars, window, Agrees, Trusted
<1> QED
  BY <1>1, <1>2, <1>3, <1>4, <1>5, <1>6, <1>7, <1>8 DEF RateNext

\* The invariant holds of every behaviour.
LEMMA RateInvariant == RateSpec => []RateInv
<1>1. RateInv /\ [RateNext]_rateVars => RateInv'
  BY RateTypeStep, AgreesStep DEF RateInv
<1> QED
  BY RateInitInv, <1>1, PTL DEF RateSpec
-----------------------------------------------------------------------------
(* The theorems.                                                           *)

\* Where buckets and history agree, the peak over the buckets is the peak over
\* every complete second of the window.
LEMMA PeakOfBuckets ==
  ASSUME RateTypeOK, \A k \in Recent(clock.s) : Count(buckets, k) = starts[k]
  PROVE  Peak({buckets[k] : k \in DOMAIN buckets \cap Complete(clock.s)}) =
         Peak({starts[k] : k \in Complete(clock.s)})
<1> DEFINE B == {buckets[k] : k \in DOMAIN buckets \cap Complete(clock.s)}
           S == {starts[k] : k \in Complete(clock.s)}
<1>1. \A k \in Complete(clock.s) : Count(buckets, k) = starts[k]
  BY DEF Complete, Recent
<1>2. B \cup {0} = S \cup {0}
  BY <1>1 DEF Count
<1> HIDE DEF B, S
<1>3. Peak(B) = Peak(S)
  BY <1>2 DEF Peak
<1> QED
  BY <1>3 DEF B, S

\* Every variable keeps its type, and the window never outgrows its bound
\* (voip-rate.ts).
THEOREM RateTypeCorrect == RateSpec => []RateTypeOK
BY RateInvariant, PTL DEF RateInv

\* For every window, patience, ceiling and tick: a trusted window is not given
\* up, and its sample is the peak of all the starts of complete seconds that lie
\* within the connection (VoipRateWindow).
THEOREM SampleIsPeakHolds == RateSpec => []SampleIsPeak
<1>1. RateInv => SampleIsPeak
  <2> SUFFICES ASSUME RateInv, stream, Trusted
               PROVE  /\ connectedAt # NoTime
                      /\ Sample # NoSample =>
                           /\ Sample = Peak({starts[k] : k \in Complete(clock.s)})
                           /\ \A k \in Complete(clock.s) :
                                ~Before([s |-> k, t |-> 0], connectedAt)
                           /\ clock.s >= Window
    BY DEF SampleIsPeak, Trusted
  <2>1. /\ connectedAt # NoTime
        /\ \A k \in Recent(clock.s) : Count(buckets, k) = starts[k]
        /\ connectedAt \in Times /\ clock \in Times
    BY DEF RateInv, Agrees, RateTypeOK
  <2>2. ASSUME Sample # NoSample
        PROVE  /\ Sample = Peak({starts[k] : k \in Complete(clock.s)})
               /\ Apart(Window + 1, connectedAt, clock)
    BY <2>1, <2>2, PeakOfBuckets DEF Sample, RateInv
  <2>3. ASSUME Apart(Window + 1, connectedAt, clock)
        PROVE  /\ \A k \in Complete(clock.s) :
                    ~Before([s |-> k, t |-> 0], connectedAt)
               /\ clock.s >= Window
    BY <2>1, <2>3, Moment DEF Apart, Before, Complete
  <2> QED
    BY <2>1, <2>2, <2>3
<1> QED
  BY RateInvariant, <1>1, PTL

HIDE RateAssumption DEF Seconds
-----------------------------------------------------------------------------
(* PABX commands                                                           *)

USE PabxAssumption

\* The steps of a command: what changes the runtime does so first.
LEMMA Kinds == CommandKinds = {"freeswitch", "asterisk", "unregister", "diagnostic"}
BY DEF CommandKinds, Steps

LEMMA MutatingSteps ==
  \A k \in CommandKinds : Mutates(k) =>
    /\ Len(Steps[k]) \in Nat /\ Len(Steps[k]) > 1
    /\ Steps[k][1] \in Mutating
BY Kinds DEF Mutates, Mutating, Steps, FreeswitchSteps, AsteriskSteps, UnregisterSteps, DiagnosticSteps

LEMMA SomeSteps == \A k \in CommandKinds : Len(Steps[k]) \in Nat /\ Len(Steps[k]) >= 1
BY Kinds DEF Steps, FreeswitchSteps, AsteriskSteps, UnregisterSteps, DiagnosticSteps

LEMMA OneQuery ==
  /\ Len(Steps["diagnostic"]) = 1
  /\ Steps["diagnostic"][1] \notin Mutating
  /\ "diagnostic" \in CommandKinds
BY Kinds DEF Mutating, Steps, DiagnosticSteps

Active == {"run", "report", "drain"}

\* An execution is in the lane between its begin and its end, the renewals within.
LaneInv ==
  /\ Idle <=> running = NoExecution
  /\ timer => pabxPc \in {"run", "report"}
  /\ chain > 0 => pabxPc \in Active

\* What is executed and what was posted is of the last lease or has no token.
TokenInv ==
  /\ \A e \in batched : e.token \in {0, lease[e.job].token}
  /\ running # NoExecution => running.token \in {0, lease[running.job].token}
  /\ \A p \in posts : p.by = p.token /\ p.token <= lease[p.job].token
  /\ \A j \in PabxJobs : mutated[j] <= lease[j].token

\* An execution under a token runs once the API confirmed it; without one it is a
\* diagnostic.
ConfirmedInv ==
  /\ pabxPc = "renew" => step = 1 /\ running.token # 0
  /\ pabxPc = "renew" /\ call = "ok" => running \in confirmed
  /\ pabxPc \in Active => \/ running.token = 0 /\ ~Mutates(Kind_)
                          \/ running.token # 0 /\ running \in confirmed
  /\ pabxPc = "run" => step <= Len(Steps[Kind_])

\* A completion is posted after the runtime was changed.
ChangedInv ==
  /\ pabxPc = "run" /\ step > 1 /\ Mutates(Kind_) => mutated[running.job] = running.token
  /\ pabxPc = "report" /\ reporting = "complete" /\ Mutates(Kind_) =>
       mutated[running.job] = running.token
  /\ \A p \in posts :
       p.what = "complete" /\ Mutates(kindOf[p.job]) => p.token <= mutated[p.job]
  /\ \A j \in PabxJobs : ~Mutates(kindOf[j]) => mutated[j] = 0

\* An accepted completion is of the last lease there will be.
AcceptedInv ==
  \A j \in PabxJobs :
    accepted[j] # 0 => lease[j].state = "completed" /\ accepted[j] = lease[j].token

PabxInv ==
  /\ PabxTypeOK /\ LaneInv /\ TokenInv /\ ConfirmedInv /\ ChangedInv /\ AcceptedInv
  /\ AcceptedIsLatest /\ MutatesOnceConfirmed

LEMMA PabxInitInv == PabxInit => PabxInv
<1> SUFFICES ASSUME PabxInit PROVE PabxInv
  OBVIOUS
<1>1. PabxTypeOK
  <2>1. lease \in [PabxJobs -> [state : {"open", "leased", "completed", "failed"},
                                 token : Nat, live : BOOLEAN]]
    BY DEF PabxInit
  <2>2. mutated \in [PabxJobs -> Nat] /\ accepted \in [PabxJobs -> Nat]
    BY DEF PabxInit
  <2>3. /\ kindOf \in [PabxJobs -> CommandKinds] /\ running = NoExecution
        /\ pabxPc = "idle" /\ step = 1 /\ reporting = "complete" /\ acks = 0
        /\ call = "none" /\ timer = FALSE /\ chain = 0 /\ pabxStops = 0
    BY DEF PabxInit
  <2>4. batched = {} /\ posts = {} /\ confirmed = {} /\ succeeded = {}
    BY DEF PabxInit
  <2>5. acks \in 0..3 /\ step \in Nat \ {0} /\ chain \in Nat /\ pabxStops \in Nat
        /\ running \in Execution \cup {NoExecution}
    BY <2>3
  <2>6. batched \subseteq Execution /\ posts \subseteq Post /\ confirmed \subseteq Execution
        /\ succeeded \subseteq Execution
    BY <2>4
  <2> QED BY <2>1, <2>2, <2>3, <2>5, <2>6 DEF PabxTypeOK
<1>2. LaneInv /\ TokenInv /\ ConfirmedInv /\ ChangedInv /\ AcceptedInv
  BY DEF PabxInit, LaneInv, TokenInv, ConfirmedInv, ChangedInv, AcceptedInv, Idle, Active
<1>3. AcceptedIsLatest /\ MutatesOnceConfirmed
  BY DEF PabxInit, AcceptedIsLatest, MutatesOnceConfirmed
<1> QED BY <1>1, <1>2, <1>3 DEF PabxInv

\* A batch is leased when nothing runs, so that a new token leaves none behind.
LEMMA LeaseBatchInv ==
  ASSUME PabxInv, LeaseBatch
  PROVE  PabxInv'
<1> PICK S \in SUBSET {j \in PabxJobs : /\ lease[j].state \in {"open", "leased"}
                                       /\ ~lease[j].live /\ lease[j].token < MaxLeases},
         fenced \in BOOLEAN :
      /\ lease' = [j \in PabxJobs |->
           IF j \in S THEN [state |-> "leased", live |-> TRUE, token |-> lease[j].token + 1]
           ELSE lease[j]]
      /\ batched' \in {{}, {[job |-> j, token |-> IF fenced THEN lease'[j].token ELSE 0] :
                              j \in S}}
  BY DEF LeaseBatch
<1> USE DEF PabxInv
<1>1. PabxTypeOK
  OBVIOUS
<1>2. \A j \in PabxJobs : lease'[j].token \in Nat /\ lease[j].token <= lease'[j].token
                         /\ (j \notin S => lease'[j] = lease[j])
  BY <1>1 DEF PabxTypeOK
<1>3. PabxTypeOK'
  <2>1. lease' \in [PabxJobs -> [state : {"open", "leased", "completed", "failed"},
                                  token : Nat, live : BOOLEAN]]
    BY <1>1 DEF PabxTypeOK
  <2>2. batched' \subseteq Execution
    BY <1>2 DEF Execution
  <2> QED BY <1>1, <2>1, <2>2 DEF LeaseBatch, PabxTypeOK, told
<1>4. LaneInv' /\ ConfirmedInv' /\ ChangedInv'
  BY DEF LeaseBatch, LaneInv, ConfirmedInv, ChangedInv, Idle, Active, Kind_, told
<1>5. TokenInv'
  <2>1. \A e \in batched' : e.token \in {0, lease'[e.job].token}
    OBVIOUS
  <2>2. running' = NoExecution
    BY DEF LeaseBatch, LaneInv, Idle
  <2>3. \A p \in posts' : p.by = p.token /\ p.token <= lease'[p.job].token
    BY <1>1, <1>2 DEF LeaseBatch, TokenInv, PabxTypeOK, Post
  <2>4. \A j \in PabxJobs : mutated'[j] <= lease'[j].token
    BY <1>1, <1>2 DEF LeaseBatch, TokenInv, PabxTypeOK, told
  <2> QED BY <2>1, <2>2, <2>3, <2>4 DEF TokenInv
<1>6. AcceptedInv'
  BY <1>2 DEF LeaseBatch, AcceptedInv, told
<1>7. AcceptedIsLatest' /\ MutatesOnceConfirmed'
  BY DEF LeaseBatch, AcceptedIsLatest, MutatesOnceConfirmed, told
<1> QED BY <1>3, <1>4, <1>5, <1>6, <1>7

LEMMA BeginCommandInv ==
  ASSUME PabxInv, NEW e \in batched, BeginCommand(e)
  PROVE  PabxInv'
<1> USE DEF PabxInv
<1>0. e \in Execution /\ e # NoExecution /\ e.job \in PabxJobs /\ kindOf[e.job] \in CommandKinds
  BY DEF PabxTypeOK, Execution, NoExecution
<1>1. PabxTypeOK'
  BY <1>0 DEF BeginCommand, PabxTypeOK, told
<1>2. LaneInv'
  BY <1>0 DEF BeginCommand, LaneInv, Idle, Active
<1>3. TokenInv'
  BY <1>0 DEF BeginCommand, TokenInv, LaneInv, Idle, told
<1>4. ConfirmedInv'
  <2>1. CASE pabxPc' = "run"
    <3>1. running' = e /\ e.token = 0 /\ ~Mutates(kindOf[e.job]) /\ step' = 1
      BY <2>1 DEF BeginCommand, Idle
    <3>2. kindOf[e.job] = "diagnostic"
      BY <3>1 DEF Mutates
    <3> QED BY <2>1, <3>1, <3>2, OneQuery DEF BeginCommand, ConfirmedInv, Kind_
  <2>2. CASE pabxPc' # "run"
    BY <2>2 DEF BeginCommand, ConfirmedInv, Idle, Active
  <2> QED BY <2>1, <2>2
<1>5. ChangedInv'
  BY DEF BeginCommand, ChangedInv, Idle, told
<1>6. AcceptedInv' /\ AcceptedIsLatest' /\ MutatesOnceConfirmed'
  BY DEF BeginCommand, AcceptedInv, AcceptedIsLatest, MutatesOnceConfirmed, told
<1> QED BY <1>1, <1>2, <1>3, <1>4, <1>5, <1>6

\* What the lane posts carries the token of its execution.
LEMMA PostedInv ==
  ASSUME PabxInv, NEW what \in {"progress", "complete", "fail"},
         running # NoExecution,
         what = "complete" => pabxPc = "report" /\ reporting = "complete",
         UNCHANGED <<kindOf, lease, batched, running, mutated>>,
         posts' \in {posts, posts \cup {Request(what)}}
  PROVE  TokenInv' /\ posts' \subseteq Post
         /\ \A p \in posts' :
              p.what = "complete" /\ Mutates(kindOf[p.job]) => p.token <= mutated[p.job]
<1> USE DEF PabxInv
<1>1. running \in Execution
  BY DEF PabxTypeOK
<1>2. lease[running.job].token \in Nat /\ mutated[running.job] \in Nat
  BY <1>1 DEF PabxTypeOK, Execution
<1>3. Request(what) \in Post
  BY <1>1 DEF Request, Post, Execution
<1>4. TokenInv'
  BY <1>1, <1>2 DEF TokenInv, Request, Execution
<1>5. \A p \in posts' :
        p.what = "complete" /\ Mutates(kindOf[p.job]) => p.token <= mutated[p.job]
  BY <1>1, <1>2 DEF ChangedInv, Request, Kind_, Execution
<1>6. posts \subseteq Post
  BY DEF PabxTypeOK
<1> QED BY <1>3, <1>4, <1>5, <1>6

LEMMA RequestInv ==
  ASSUME PabxInv, Renew \/ ReportCommand
  PROVE  PabxInv'
<1> USE DEF PabxInv
<1> DEFINE what == IF pabxPc = "renew" THEN "progress" ELSE reporting
<1>1. /\ running # NoExecution /\ what \in {"progress", "complete", "fail"}
      /\ what = "complete" => pabxPc = "report" /\ reporting = "complete"
      /\ posts' \in {posts, posts \cup {Request(what)}}
      /\ UNCHANGED <<kindOf, lease, batched, running, mutated>>
  BY DEF Renew, ReportCommand, Post_, GiveUp, LaneInv, Idle, PabxTypeOK, told
<1>2. TokenInv' /\ posts' \subseteq Post
      /\ \A p \in posts' :
           p.what = "complete" /\ Mutates(kindOf[p.job]) => p.token <= mutated[p.job]
  BY <1>1, PostedInv
<1>3. call' \in {"sent", "thrown"}
  BY DEF Renew, ReportCommand, Post_, GiveUp
<1>4. PabxTypeOK'
  BY <1>2, <1>3 DEF Renew, ReportCommand, PabxTypeOK, told
<1>5. LaneInv' /\ ConfirmedInv' /\ ChangedInv'
  BY <1>2, <1>3
  DEF Renew, ReportCommand, LaneInv, ConfirmedInv, ChangedInv, Idle, Active, Kind_, told
<1>6. AcceptedInv' /\ AcceptedIsLatest' /\ MutatesOnceConfirmed'
  BY DEF Renew, ReportCommand, AcceptedInv, AcceptedIsLatest, MutatesOnceConfirmed, told
<1> QED BY <1>2, <1>4, <1>5, <1>6

LEMMA ChainInv ==
  ASSUME PabxInv, Tick \/ ChainedRenewal
  PROVE  PabxInv'
<1> USE DEF PabxInv
<1>1. running # NoExecution
  BY DEF Tick, ChainedRenewal, LaneInv, Idle, Active
<1>2. posts' \in {posts, posts \cup {Request("progress")}}
      /\ UNCHANGED <<kindOf, lease, batched, running, mutated>>
  BY DEF Tick, ChainedRenewal, told
<1>3. TokenInv' /\ posts' \subseteq Post
      /\ \A p \in posts' :
           p.what = "complete" /\ Mutates(kindOf[p.job]) => p.token <= mutated[p.job]
  BY <1>1, <1>2, PostedInv
<1>4. PabxTypeOK'
  BY <1>3 DEF Tick, ChainedRenewal, PabxTypeOK, told
<1>5. LaneInv' /\ ConfirmedInv' /\ ChangedInv'
  <2>1. LaneInv'
    BY DEF Tick, ChainedRenewal, LaneInv, Idle, Active, PabxTypeOK
  <2>2. ConfirmedInv' /\ ChangedInv'
    BY <1>3 DEF Tick, ChainedRenewal, ConfirmedInv, ChangedInv, Active, Kind_, told
  <2> QED BY <2>1, <2>2
<1>6. AcceptedInv' /\ AcceptedIsLatest' /\ MutatesOnceConfirmed'
  BY DEF Tick, ChainedRenewal, AcceptedInv, AcceptedIsLatest, MutatesOnceConfirmed, told
<1> QED BY <1>3, <1>4, <1>5, <1>6

\* The first renewal is answered: the token is confirmed, or the job is left.
LEMMA RenewedInv ==
  ASSUME PabxInv, Renewed
  PROVE  PabxInv'
<1> USE DEF PabxInv
<1>1. pabxPc = "renew" /\ running # NoExecution /\ chain = 0
  BY DEF Renewed, LaneInv, Idle, Active, PabxTypeOK
<1>2. PabxTypeOK'
  BY DEF Renewed, PabxTypeOK, told
<1>3. LaneInv'
  BY <1>1 DEF Renewed, LaneInv, Idle, Active
<1>4. TokenInv'
  BY DEF Renewed, TokenInv, told
<1>5. kindOf[running.job] \in CommandKinds
  BY <1>1 DEF PabxTypeOK, Execution
<1>6. ConfirmedInv' /\ ChangedInv'
  BY <1>1, <1>5, SomeSteps DEF Renewed, ConfirmedInv, ChangedInv, Active, Kind_, told
<1>7. AcceptedInv' /\ AcceptedIsLatest' /\ MutatesOnceConfirmed'
  BY DEF Renewed, AcceptedInv, AcceptedIsLatest, MutatesOnceConfirmed, told
<1> QED BY <1>2, <1>3, <1>4, <1>5, <1>6, <1>7

\* A step changes the runtime under the token the API confirmed.
LEMMA RunStepInv ==
  ASSUME PabxInv, RunStep
  PROVE  PabxInv'
<1> USE DEF PabxInv
<1> DEFINE k == kindOf[running.job]
           changed == IF Steps[k][step] \in Mutating
                      THEN [mutated EXCEPT ![running.job] = running.token] ELSE mutated
<1>1. /\ pabxPc = "run" /\ running \in Execution /\ running # NoExecution
      /\ running.job \in PabxJobs /\ running.token \in Nat /\ k \in CommandKinds
      /\ running = [job |-> running.job, token |-> running.token]
  BY DEF RunStep, LaneInv, Idle, PabxTypeOK, Execution
<1>2. mutated' \in {mutated, changed}
  BY DEF RunStep, Kind_
<1>3. Steps[k][step] \in Mutating => Mutates(k) /\ running.token # 0 /\ running \in confirmed
  <2>1. step \in Nat \ {0} /\ step <= Len(Steps[k])
    BY <1>1 DEF PabxTypeOK, ConfirmedInv, Kind_
  <2>2. CASE ~Mutates(k)
    BY <2>1, <2>2, OneQuery DEF Mutates
  <2>3. CASE Mutates(k)
    BY <1>1, <2>3 DEF ConfirmedInv, Active, Kind_
  <2> QED BY <2>2, <2>3
<1>4. \A j \in PabxJobs :
        \/ mutated'[j] = mutated[j]
        \/ /\ j = running.job /\ mutated'[j] = running.token
           /\ Mutates(k) /\ running.token # 0 /\ running \in confirmed
  BY <1>1, <1>2, <1>3 DEF PabxTypeOK
<1>5. mutated' \in [PabxJobs -> Nat]
  BY <1>1, <1>2 DEF PabxTypeOK
<1>6. step' \in Nat \ {0} /\ pabxPc' \in {"run", "report"} /\ reporting' \in {"complete", "fail"}
      /\ UNCHANGED <<kindOf, lease, batched, running, acks, call, timer, chain, posts,
                     confirmed, accepted, pabxStops>>
      /\ succeeded' \subseteq Execution
  BY <1>1 DEF RunStep, PabxTypeOK
<1>7. PabxTypeOK'
  BY <1>5, <1>6 DEF PabxTypeOK
<1>8. LaneInv'
  BY <1>1, <1>6 DEF LaneInv, Idle, Active
<1>9. running.token = lease[running.job].token \/ running.token = 0
  BY <1>1 DEF TokenInv
<1>10. \A j \in PabxJobs : mutated[j] <= mutated'[j] /\ mutated'[j] <= lease[j].token
  BY <1>1, <1>4, <1>9 DEF TokenInv, PabxTypeOK
<1>11. TokenInv'
  BY <1>6, <1>10 DEF TokenInv
<1>12. ConfirmedInv'
  <2>1. pabxPc' = "run" => step' <= Len(Steps[k])
    BY <1>1, SomeSteps DEF RunStep, PabxTypeOK, Kind_
  <2> QED BY <1>1, <1>6, <2>1 DEF ConfirmedInv, Active, Kind_
<1>13. ChangedInv'
  <2>1. Mutates(k) /\ mutated' = changed => mutated'[running.job] = running.token
    <3> SUFFICES ASSUME Mutates(k), mutated' = changed
                 PROVE  mutated'[running.job] = running.token
      OBVIOUS
    <3>1. CASE step = 1
      BY <1>1, <3>1, MutatingSteps DEF PabxTypeOK
    <3>2. CASE step # 1
      <4>1. mutated[running.job] = running.token
        BY <1>1, <3>2 DEF ChangedInv, Kind_, PabxTypeOK
      <4> QED BY <1>1, <4>1 DEF PabxTypeOK
    <3> QED BY <3>1, <3>2
  <2>2. /\ pabxPc' = "run" => mutated' = changed
        /\ pabxPc' = "report" /\ reporting' = "complete" => mutated' = changed
    BY <1>1 DEF RunStep, Kind_
  <2>3. \A p \in posts :
          p.what = "complete" /\ Mutates(kindOf[p.job]) => p.token <= mutated'[p.job]
    <3> SUFFICES ASSUME NEW p \in posts, p.what = "complete", Mutates(kindOf[p.job])
                 PROVE  p.token <= mutated'[p.job]
      OBVIOUS
    <3>1. p.job \in PabxJobs /\ p.token \in Nat
      BY DEF PabxTypeOK, Post
    <3>2. p.token <= mutated[p.job]
      BY DEF ChangedInv
    <3>3. mutated[p.job] \in Nat /\ mutated'[p.job] \in Nat
      BY <1>5, <3>1 DEF PabxTypeOK
    <3> QED BY <3>1, <3>2, <3>3, <1>10
  <2>4. \A j \in PabxJobs : ~Mutates(kindOf[j]) => mutated'[j] = 0
    BY <1>4 DEF ChangedInv
  <2> QED BY <1>6, <2>1, <2>2, <2>3, <2>4 DEF ChangedInv, Kind_
<1>14. AcceptedInv'
  BY <1>6 DEF AcceptedInv
<1>15. AcceptedIsLatest'
  BY <1>1, <1>4, <1>6, <1>9 DEF AcceptedIsLatest, AcceptedInv
<1>16. MutatesOnceConfirmed'
  BY <1>1, <1>4, <1>6 DEF MutatesOnceConfirmed
<1> QED BY <1>7, <1>8, <1>11, <1>12, <1>13, <1>14, <1>15, <1>16

LEMMA ReportedInv ==
  ASSUME PabxInv, Reported
  PROVE  PabxInv'
<1> USE DEF PabxInv
<1>1. PabxTypeOK'
  <2>0. acks \in 0..3 /\ acks' \in {acks, acks + 1} /\ (acks' # acks => acks < 3)
    BY DEF Reported, PabxTypeOK
  <2>1. acks' \in 0..3
    BY <2>0
  <2>2. reporting' \in {"complete", "fail"} /\ pabxPc' \in {"report", "drain"}
        /\ timer' \in BOOLEAN /\ call' = "none"
    BY DEF Reported, PabxTypeOK
  <2> QED BY <2>1, <2>2 DEF Reported, PabxTypeOK, told
<1>2. LaneInv' /\ ConfirmedInv'
  BY DEF Reported, LaneInv, ConfirmedInv, Idle, Active, Kind_, told
<1>3. TokenInv'
  BY DEF Reported, TokenInv, told
<1>4. ChangedInv'
  BY DEF Reported, ChangedInv, Kind_, told
<1>5. AcceptedInv' /\ AcceptedIsLatest' /\ MutatesOnceConfirmed'
  BY DEF Reported, AcceptedInv, AcceptedIsLatest, MutatesOnceConfirmed, told
<1> QED BY <1>1, <1>2, <1>3, <1>4, <1>5

LEMMA DrainedInv ==
  ASSUME PabxInv, Drained \/ PabxStop
  PROVE  PabxInv'
<1> USE DEF PabxInv
<1>1. PabxTypeOK'
  <2>1. CASE Drained
    BY <2>1 DEF Drained, PabxTypeOK, told
  <2>2. CASE PabxStop
    <3>1. batched' = {} /\ running' = NoExecution /\ pabxPc' = "idle"
          /\ step' = 1 /\ reporting' = "complete" /\ acks' = 0 /\ call' = "none"
          /\ timer' = FALSE /\ chain' = 0 /\ pabxStops' = pabxStops + 1
          /\ UNCHANGED <<kindOf, lease, posts, mutated, confirmed, accepted, succeeded>>
      BY <2>2 DEF PabxStop, told
    <3>2. acks' \in 0..3 /\ step' \in Nat \ {0} /\ chain' \in Nat /\ pabxStops' \in Nat
          /\ running' \in Execution \cup {NoExecution} /\ batched' \subseteq Execution
      BY <3>1 DEF PabxTypeOK
    <3> QED BY <3>1, <3>2 DEF PabxTypeOK
  <2> QED BY <2>1, <2>2
<1>2. LaneInv' /\ ConfirmedInv'
  BY DEF Drained, PabxStop, LaneInv, ConfirmedInv, Idle, Active, Kind_, told
<1>3. TokenInv' /\ ChangedInv'
  BY DEF Drained, PabxStop, TokenInv, ChangedInv, Kind_, told
<1>4. AcceptedInv' /\ AcceptedIsLatest' /\ MutatesOnceConfirmed'
  BY DEF Drained, PabxStop, AcceptedInv, AcceptedIsLatest, MutatesOnceConfirmed, told
<1> QED BY <1>1, <1>2, <1>3, <1>4

\* A completion that is accepted is of the lease under which the runtime last changed.
LEMMA DeliverInv ==
  ASSUME PabxInv, NEW p \in posts, Deliver(p)
  PROVE  PabxInv'
<1> USE DEF PabxInv
<1> DEFINE L == lease[p.job]
           ok == L.state = "leased" /\ L.live /\ p.token \in {0, L.token}
<1>1. /\ p.job \in PabxJobs /\ p.what \in {"progress", "complete", "fail"}
      /\ p.by \in Nat /\ p.token \in Nat /\ p.by = p.token /\ p.token <= L.token
      /\ L.token \in Nat
  BY DEF PabxTypeOK, Post, TokenInv
<1>2. /\ posts' = posts \ {p}
      /\ UNCHANGED <<kindOf, batched, running, pabxPc, step, reporting, acks, timer, chain,
                     mutated, succeeded, pabxStops>>
      /\ lease' = IF ~ok \/ p.what = "progress" THEN lease
                  ELSE [lease EXCEPT ![p.job].live = FALSE,
                          ![p.job].state = IF p.what = "complete" THEN "completed" ELSE "failed"]
      /\ accepted' = IF ok /\ p.what = "complete" THEN [accepted EXCEPT ![p.job] = p.by]
                     ELSE accepted
      /\ confirmed' = IF ok /\ p.what = "progress"
                      THEN confirmed \cup {[job |-> p.job, token |-> p.by]} ELSE confirmed
      /\ Answered(p, ok)
  BY DEF Deliver
<1>3. /\ \A j \in PabxJobs : lease'[j].token = lease[j].token
                             /\ (j # p.job \/ ~ok => lease'[j] = lease[j])
      /\ lease' \in [PabxJobs -> [state : {"open", "leased", "completed", "failed"},
                                  token : Nat, live : BOOLEAN]]
      /\ ok /\ p.what = "complete" => lease'[p.job].state = "completed"
  <2>1. lease \in [PabxJobs -> [state : {"open", "leased", "completed", "failed"},
                                token : Nat, live : BOOLEAN]]
    BY DEF PabxTypeOK
  <2> QED BY <1>1, <1>2, <2>1, ZenonT(60)
<1>4. confirmed \subseteq confirmed'
  BY <1>2
<1>5. call' \in {"none", "sent", "ok", "thrown"}
  BY <1>2 DEF Answered, PabxTypeOK
<1>6. accepted' \in [PabxJobs -> Nat]
  BY <1>1, <1>2 DEF PabxTypeOK
<1>7. PabxTypeOK'
  <2>1. confirmed' \subseteq Execution
    BY <1>1, <1>2 DEF PabxTypeOK, Execution
  <2> QED BY <1>2, <1>3, <1>5, <1>6, <2>1 DEF PabxTypeOK
<1>8. LaneInv'
  BY <1>2 DEF LaneInv, Idle, Active
<1>9. TokenInv'
  <2>1. \A e \in batched : e.job \in PabxJobs
    BY DEF PabxTypeOK, Execution
  <2>2. running # NoExecution => running.job \in PabxJobs
    BY DEF PabxTypeOK, Execution
  <2>3. \A q \in posts : q.job \in PabxJobs
    BY DEF PabxTypeOK, Post
  <2> QED BY <1>2, <1>3, <2>1, <2>2, <2>3, ZenonT(60) DEF TokenInv
<1>10. ConfirmedInv'
  <2>1. ASSUME pabxPc' = "renew", call' = "ok" PROVE running' \in confirmed'
    <3>1. CASE call = "ok"
      BY <1>2, <1>4, <2>1, <3>1 DEF ConfirmedInv
    <3>2. CASE call # "ok"
      <4>1. /\ call = "sent" /\ p.job = running.job /\ p.by = running.token
            /\ p.what = "progress" /\ ok
        BY <1>2, <2>1, <3>2 DEF Answered
      <4>2. running \in Execution
        BY <1>2, <2>1 DEF LaneInv, Idle, PabxTypeOK
      <4>3. running = [job |-> p.job, token |-> p.by]
        BY <4>1, <4>2 DEF Execution
      <4> QED BY <1>2, <4>1, <4>3
    <3> QED BY <3>1, <3>2
  <2>2. pabxPc' = "renew" => step' = 1 /\ running'.token # 0
    BY <1>2 DEF ConfirmedInv
  <2>3. pabxPc' \in Active => \/ running'.token = 0 /\ ~Mutates(Kind_')
                              \/ running'.token # 0 /\ running' \in confirmed'
    BY <1>2, <1>4 DEF ConfirmedInv, Kind_
  <2>4. pabxPc' = "run" => step' <= Len(Steps[Kind_'])
    BY <1>2 DEF ConfirmedInv, Kind_
  <2> QED BY <2>1, <2>2, <2>3, <2>4 DEF ConfirmedInv
<1>11. ChangedInv'
  BY <1>2 DEF ChangedInv, Kind_
<1>12. AcceptedInv' /\ AcceptedIsLatest'
  <2>1. CASE ok /\ p.what = "complete" /\ p.by # 0
    <3>1. accepted' = [accepted EXCEPT ![p.job] = p.by] /\ p.by = L.token
      BY <1>1, <1>2, <2>1
    <3>2. mutated[p.job] # 0 => mutated[p.job] = L.token
      <4> SUFFICES ASSUME mutated[p.job] # 0 PROVE mutated[p.job] = L.token
        OBVIOUS
      <4>1. Mutates(kindOf[p.job])
        BY <1>1 DEF ChangedInv
      <4>2. p.token <= mutated[p.job] /\ mutated[p.job] <= L.token
            /\ mutated[p.job] \in Nat
        BY <1>1, <2>1, <4>1 DEF ChangedInv, TokenInv, PabxTypeOK
      <4> QED BY <1>1, <3>1, <4>2
    <3>3. AcceptedInv'
      <4>1. \A j \in PabxJobs : accepted'[j] = IF j = p.job THEN p.by ELSE accepted[j]
        BY <3>1 DEF PabxTypeOK
      <4> QED BY <1>1, <1>3, <2>1, <3>1, <4>1 DEF AcceptedInv
    <3>4. AcceptedIsLatest'
      <4>1. \A j \in PabxJobs : accepted'[j] = IF j = p.job THEN p.by ELSE accepted[j]
        BY <3>1 DEF PabxTypeOK
      <4> QED BY <1>2, <3>1, <3>2, <4>1 DEF AcceptedIsLatest
    <3> QED BY <3>3, <3>4
  <2>2. CASE ok /\ ~(p.what = "complete" /\ p.by # 0)
    <3>1. accepted[p.job] = 0
      BY <1>1, <2>2 DEF AcceptedInv
    <3>2. accepted' = accepted
      <4>1. CASE p.what = "complete"
        <5>1. accepted \in [PabxJobs -> Nat] /\ p.job \in PabxJobs
          BY <1>1 DEF PabxTypeOK, Post
        <5>2. p.by = 0 /\ accepted' = [accepted EXCEPT ![p.job] = p.by]
          BY <1>2, <2>2, <4>1
        <5> QED BY <3>1, <5>1, <5>2
      <4>2. CASE p.what # "complete"
        BY <1>2, <4>2
      <4> QED BY <4>1, <4>2
    <3>3. AcceptedInv'
      BY <1>3, <3>2, SMTT(30) DEF AcceptedInv
    <3>4. AcceptedIsLatest'
      BY <1>2, <3>2 DEF AcceptedIsLatest
    <3> QED BY <3>3, <3>4
  <2>3. CASE ~ok
    BY <1>2, <1>3, <2>3 DEF AcceptedInv, AcceptedIsLatest
  <2> QED BY <2>1, <2>2, <2>3
<1>13. MutatesOnceConfirmed'
  BY <1>2, <1>4 DEF MutatesOnceConfirmed
<1> QED BY <1>7, <1>8, <1>9, <1>10, <1>11, <1>12, <1>13

LEMMA LeaseExpiresInv ==
  ASSUME PabxInv, NEW j \in PabxJobs, LeaseExpires(j)
  PROVE  PabxInv'
<1> USE DEF PabxInv
<1>1. lease' = [lease EXCEPT ![j].live = FALSE]
      /\ UNCHANGED <<kindOf, lane_, posts, told, pabxStops>>
  BY DEF LeaseExpires
<1>2. /\ \A i \in PabxJobs : lease'[i].token = lease[i].token /\ lease'[i].state = lease[i].state
      /\ lease' \in [PabxJobs -> [state : {"open", "leased", "completed", "failed"},
                                  token : Nat, live : BOOLEAN]]
  <2>1. lease \in [PabxJobs -> [state : {"open", "leased", "completed", "failed"},
                                token : Nat, live : BOOLEAN]]
    BY DEF PabxTypeOK
  <2> QED BY <1>1, <2>1
<1>3. PabxTypeOK'
  BY <1>1, <1>2 DEF PabxTypeOK, lane_, told
<1>4. LaneInv' /\ ConfirmedInv' /\ ChangedInv'
  BY <1>1 DEF LaneInv, ConfirmedInv, ChangedInv, Idle, Active, Kind_, lane_, told
<1>5. TokenInv'
  <2>1. \A e \in batched : e.job \in PabxJobs
    BY DEF PabxTypeOK, Execution
  <2>2. running # NoExecution => running.job \in PabxJobs
    BY DEF PabxTypeOK, Execution
  <2>3. \A q \in posts : q.job \in PabxJobs
    BY DEF PabxTypeOK, Post
  <2> QED BY <1>1, <1>2, <2>1, <2>2, <2>3 DEF TokenInv, lane_, told
<1>6. AcceptedInv'
  BY <1>1, <1>2 DEF AcceptedInv, told
<1>7. AcceptedIsLatest' /\ MutatesOnceConfirmed'
  BY <1>1 DEF AcceptedIsLatest, MutatesOnceConfirmed, told
<1> QED BY <1>3, <1>4, <1>5, <1>6, <1>7

LEMMA PabxNextInv == PabxInv /\ [PabxNext]_pabxVars => PabxInv'
<1> SUFFICES ASSUME PabxInv, [PabxNext]_pabxVars PROVE PabxInv'
  OBVIOUS
<1>1. CASE UNCHANGED pabxVars
  BY <1>1 DEF pabxVars, lane_, told, PabxInv, PabxTypeOK, LaneInv, TokenInv, ConfirmedInv,
     ChangedInv, AcceptedInv, AcceptedIsLatest, MutatesOnceConfirmed, Idle, Active, Kind_
<1>2. CASE PabxNext
  BY <1>2, LeaseBatchInv, BeginCommandInv, RequestInv, ChainInv, RenewedInv, RunStepInv,
     ReportedInv, DrainedInv, DeliverInv, LeaseExpiresInv DEF PabxNext
<1> QED BY <1>1, <1>2

LEMMA PabxAlways == PabxSpec => []PabxInv
BY PabxInitInv, PabxNextInv, PTL DEF PabxSpec

\* Whatever the leases, renewals and restarts: the completion the API took is that
\* of the last execution that changed the runtime (main.ts failJob and
\* executePabxCommandJobInner send the leaseToken with each report).
THEOREM AcceptedIsLatestHolds == PabxSpec => []AcceptedIsLatest
<1>1. PabxInv => AcceptedIsLatest
  BY DEF PabxInv
<1> QED BY <1>1, PabxAlways, PTL

\* Whatever the leases, renewals and restarts: the runtime is changed only by an
\* execution whose lease was confirmed (main.ts executePabxCommandJob).
THEOREM MutatesOnceConfirmedHolds == PabxSpec => []MutatesOnceConfirmed
<1>1. PabxInv => MutatesOnceConfirmed
  BY DEF PabxInv
<1> QED BY <1>1, PabxAlways, PTL

-----------------------------------------------------------------------------
(* The commands implement JobLife.                                         *)

\* A completion is posted for work that succeeded, without a token only for a diagnostic;
\* a live lease is a lease.
WorkedInv ==
  /\ \A e \in succeeded : e.token <= lease[e.job].token
  /\ pabxPc = "report" /\ reporting = "complete" => running \in succeeded
  /\ \A p \in posts : p.what = "complete" => [job |-> p.job, token |-> p.token] \in succeeded
  /\ \A p \in posts : p.what = "complete" /\ p.token = 0 => ~Mutates(kindOf[p.job])
  /\ \A j \in PabxJobs : lease[j].live => lease[j].state = "leased"

LEMMA WorkedInit == PabxInit => WorkedInv
BY DEF PabxInit, WorkedInv

\* No token goes back.
LEMMA TokensGrow ==
  ASSUME PabxInv, [PabxNext]_pabxVars
  PROVE  \A j \in PabxJobs : lease[j].token \in Nat /\ lease[j].token <= lease'[j].token
<1>1. \A j \in PabxJobs : lease[j].token \in Nat
  BY DEF PabxInv, PabxTypeOK
<1>2. lease \in [PabxJobs -> [state : {"open", "leased", "completed", "failed"},
                              token : Nat, live : BOOLEAN]]
  BY DEF PabxInv, PabxTypeOK
<1>3. CASE LeaseBatch
  BY <1>1, <1>3 DEF LeaseBatch
<1>4. CASE \E p \in posts : Deliver(p)
  BY <1>1, <1>2, <1>4 DEF Deliver
<1>5. CASE \E j \in PabxJobs : LeaseExpires(j)
  BY <1>1, <1>2, <1>5 DEF LeaseExpires
<1>6. CASE UNCHANGED lease
  BY <1>1, <1>6
<1> QED
  BY <1>3, <1>4, <1>5, <1>6
  DEF PabxNext, BeginCommand, Renew, Renewed, Tick, ChainedRenewal, RunStep, ReportCommand,
      Reported, Drained, PabxStop, pabxVars

\* An execution whose last step succeeded reports; a report that failed, or an execution
\* that is over, claims nothing.
LEMMA ReporterKept ==
  ASSUME PabxInv, WorkedInv, [PabxNext]_pabxVars
  PROVE  /\ succeeded \subseteq succeeded'
         /\ pabxPc' = "report" /\ reporting' = "complete" => running' \in succeeded'
         /\ UNCHANGED succeeded \/ succeeded' = succeeded \cup {running}
<1>1. CASE RunStep
  BY <1>1 DEF RunStep
<1>2. CASE ~RunStep
  <2>1. UNCHANGED succeeded
    BY <1>2
    DEF PabxNext, LeaseBatch, BeginCommand, Renew, Renewed, Tick, ChainedRenewal,
        ReportCommand, Reported, Drained, Deliver, LeaseExpires, PabxStop, pabxVars, told
  <2>2. pabxPc' = "report" /\ reporting' = "complete" =>
          pabxPc = "report" /\ reporting = "complete" /\ running' = running
    BY <1>2
    DEF PabxNext, LeaseBatch, BeginCommand, Renew, Renewed, Tick, ChainedRenewal,
        ReportCommand, Reported, Drained, Deliver, LeaseExpires, PabxStop, pabxVars, lane_, Idle
  <2> QED
    BY <2>1, <2>2 DEF WorkedInv
<1> QED
  BY <1>1, <1>2

\* What is posted is what was on its way, or a request of the execution.
LEMMA PostsGrow ==
  ASSUME PabxInv, [PabxNext]_pabxVars
  PROVE  \A p \in posts' \ posts :
           \/ p.what \in {"progress", "fail"}
           \/ p = Request("complete") /\ pabxPc = "report" /\ reporting = "complete"
              /\ UNCHANGED kindOf
<1>1. CASE Renew \/ ReportCommand \/ ChainedRenewal
  BY <1>1
  DEF Renew, ReportCommand, ChainedRenewal, Post_, GiveUp, Request, PabxInv, PabxTypeOK, told
<1>2. CASE posts' \subseteq posts
  BY <1>2
<1> QED
  BY <1>1, <1>2
  DEF PabxNext, LeaseBatch, BeginCommand, Renewed, Tick, RunStep, Reported, Drained, Deliver,
      LeaseExpires, PabxStop, pabxVars

\* Only the delivery of a report ends a lease.
LEMMA LiveKept ==
  ASSUME PabxInv, WorkedInv, [PabxNext]_pabxVars
  PROVE  \A j \in PabxJobs : lease'[j].live => lease'[j].state = "leased"
<1>1. lease \in [PabxJobs -> [state : {"open", "leased", "completed", "failed"},
                              token : Nat, live : BOOLEAN]]
  BY DEF PabxInv, PabxTypeOK
<1>2. CASE LeaseBatch
  BY <1>2 DEF LeaseBatch, WorkedInv
<1>3. ASSUME NEW p \in posts, Deliver(p)
      PROVE  \A j \in PabxJobs : lease'[j].live => lease'[j].state = "leased"
  <2>1. p.job \in PabxJobs
    BY DEF PabxInv, PabxTypeOK, Post
  <2>2. \/ lease' = lease
        \/ \E w \in {"completed", "failed"} :
             lease' = [lease EXCEPT ![p.job].live = FALSE, ![p.job].state = w]
    BY <1>3 DEF Deliver
  <2> QED
    BY <1>1, <2>1, <2>2 DEF WorkedInv
<1>4. ASSUME NEW i \in PabxJobs, LeaseExpires(i)
      PROVE  \A j \in PabxJobs : lease'[j].live => lease'[j].state = "leased"
  BY <1>1, <1>4 DEF LeaseExpires, WorkedInv
<1>5. CASE UNCHANGED lease
  BY <1>5 DEF WorkedInv
<1> QED
  BY <1>2, <1>3, <1>4, <1>5
  DEF PabxNext, BeginCommand, Renew, Renewed, Tick, ChainedRenewal, RunStep, ReportCommand,
      Reported, Drained, PabxStop, pabxVars

LEMMA WorkedNext ==
  ASSUME PabxInv, PabxInv', WorkedInv, [PabxNext]_pabxVars
  PROVE  WorkedInv'
<1>1. UNCHANGED kindOf
  BY DEF PabxNext, LeaseBatch, BeginCommand, Renew, Renewed, Tick, ChainedRenewal, RunStep,
     ReportCommand, Reported, Drained, Deliver, LeaseExpires, PabxStop, pabxVars
<1>2. \A e \in succeeded' : e.token <= lease'[e.job].token
  <2> SUFFICES ASSUME NEW e \in succeeded' PROVE e.token <= lease'[e.job].token
    OBVIOUS
  <2>1. e \in Execution /\ e.job \in PabxJobs /\ e.token \in Nat /\ lease'[e.job].token \in Nat
    BY DEF PabxInv, PabxTypeOK, Execution
  <2>2. lease[e.job].token \in Nat /\ lease[e.job].token <= lease'[e.job].token
    BY <2>1, TokensGrow
  <2>3. e.token <= lease[e.job].token
    <3>1. CASE e \in succeeded
      BY <3>1 DEF WorkedInv
    <3>2. CASE e = running /\ e \notin succeeded
      <4>1. e # NoExecution
        BY <2>1 DEF NoExecution
      <4> QED
        BY <2>1, <2>2, <3>2, <4>1 DEF PabxInv, TokenInv
    <3> QED
      BY <3>1, <3>2, ReporterKept
  <2> QED
    BY <2>1, <2>2, <2>3
<1>3. ASSUME NEW p \in posts', p.what = "complete"
      PROVE  /\ [job |-> p.job, token |-> p.token] \in succeeded'
             /\ p.token = 0 => ~Mutates(kindOf'[p.job])
  <2>1. CASE p \in posts
    BY <1>1, <1>3, <2>1, ReporterKept DEF WorkedInv
  <2>2. CASE p \notin posts
    <3>1. p = Request("complete") /\ pabxPc = "report" /\ reporting = "complete"
      BY <1>3, <2>2, PostsGrow
    <3>2. running \in Execution /\ running \in succeeded
      BY <3>1 DEF PabxInv, PabxTypeOK, LaneInv, Idle, WorkedInv
    <3>3. running = [job |-> running.job, token |-> running.token]
      BY <3>2 DEF Execution
    <3>4. p.job = running.job /\ p.token = running.token
      BY <3>1 DEF Request
    <3>5. running.token = 0 => ~Mutates(kindOf[running.job])
      BY <3>1 DEF PabxInv, ConfirmedInv, Active, Kind_
    <3> QED
      BY <1>1, <3>2, <3>3, <3>4, <3>5, ReporterKept
  <2> QED
    BY <2>1, <2>2
<1> QED
  BY <1>2, <1>3, ReporterKept, LiveKept DEF WorkedInv

\* A step that moves neither a lease nor the succeeded executions is a stutter of JobLife.
LEMMA CommandStutters ==
  ASSUME UNCHANGED <<kindOf, lease, succeeded>>
  PROVE  UNCHANGED CommandLife!lifeVars
BY DEF CommandLife!lifeVars, PabxRecord, PabxClaim

\* The record of one job.
LEMMA RecordIs ==
  ASSUME NEW j \in PabxJobs
  PROVE  /\ PabxRecord[j].lease = lease[j].token
         /\ PabxRecord[j].st = IF lease[j].live THEN "leased"
                               ELSE IF lease[j].state = "completed" THEN "done"
                               ELSE IF lease[j].state = "failed" THEN "failed" ELSE "queued"
         /\ PabxClaim[j] = IF Mutates(kindOf[j]) THEN "last" ELSE "any"
BY DEF PabxRecord, PabxClaim

\* A batch is a grant.
LEMMA CommandGrant ==
  ASSUME LeaseBatch
  PROVE  CommandLife!LifeNext
<1>1. PICK S \in SUBSET {j \in PabxJobs : /\ lease[j].state \in {"open", "leased"}
                                         /\ ~lease[j].live /\ lease[j].token < MaxLeases} :
        lease' = [j \in PabxJobs |->
           IF j \in S THEN [state |-> "leased", live |-> TRUE, token |-> lease[j].token + 1]
           ELSE lease[j]]
  BY DEF LeaseBatch
<1>2. S \in SUBSET {j \in PabxJobs : PabxRecord[j].st = "queued"}
  BY DEF PabxRecord
<1>3. PabxRecord' = [j \in PabxJobs |->
        IF j \in S THEN [st |-> "leased", lease |-> PabxRecord[j].lease + 1]
        ELSE PabxRecord[j]]
  <2>1. ASSUME NEW j \in PabxJobs
        PROVE  PabxRecord'[j] = IF j \in S
                 THEN [st |-> "leased", lease |-> PabxRecord[j].lease + 1] ELSE PabxRecord[j]
    BY <1>1 DEF PabxRecord
  <2> QED
    BY <2>1 DEF PabxRecord
<1>4. UNCHANGED <<kindOf, succeeded>>
  BY DEF LeaseBatch, told
<1>5. CommandLife!Grant
  BY <1>2, <1>3, <1>4 DEF CommandLife!Grant, PabxClaim
<1> QED
  BY <1>5 DEF CommandLife!LifeNext

\* The last step of a command is the success of its execution.
LEMMA CommandWork ==
  ASSUME PabxInv, RunStep, succeeded' = succeeded \cup {running}
  PROVE  CommandLife!LifeNext
<1>1. running \in Execution /\ running.job \in PabxJobs /\ running.token \in Nat
      /\ running # NoExecution
  BY DEF RunStep, PabxInv, PabxTypeOK, LaneInv, Idle, Execution
<1>2. running.token \in 0..lease[running.job].token
  BY <1>1 DEF PabxInv, PabxTypeOK, TokenInv
<1> PICK j \in PabxJobs : j = running.job
  BY <1>1
<1>3. UNCHANGED <<kindOf, lease>>
  BY DEF RunStep
<1>4. running.token \in 0..PabxRecord[j].lease
  BY <1>2, RecordIs
<1>5. {[job |-> e.job, lease |-> e.token] : e \in succeeded'}
        = {[job |-> e.job, lease |-> e.token] : e \in succeeded}
            \cup {[job |-> j, lease |-> running.token]}
  OBVIOUS
<1>6. CommandLife!Work(j)
  <2>1. UNCHANGED <<PabxClaim, PabxRecord, [i \in PabxJobs |-> TRUE]>>
    BY <1>3 DEF PabxRecord, PabxClaim
  <2>2. \E n \in 0..PabxRecord[j].lease :
          {[job |-> e.job, lease |-> e.token] : e \in succeeded'}
            = {[job |-> e.job, lease |-> e.token] : e \in succeeded}
                \cup {[job |-> j, lease |-> n]}
    BY <1>4, <1>5
  <2> QED
    BY <2>1, <2>2 DEF CommandLife!Work
<1> QED
  BY <1>6 DEF CommandLife!LifeNext

\* The API takes the completion of a mutation under the present token only, and any
\* completion of work that succeeded.
LEMMA CommandDeliver ==
  ASSUME PabxInv, WorkedInv, NEW p \in posts, Deliver(p)
  PROVE  CommandLife!LifeNext \/ UNCHANGED CommandLife!lifeVars
<1> DEFINE j == p.job
           ok == lease[j].state = "leased" /\ lease[j].live /\ p.token \in {0, lease[j].token}
<1>1. /\ j \in PabxJobs /\ p.what \in {"progress", "complete", "fail"} /\ p.token \in Nat
      /\ p.token <= lease[j].token /\ lease[j].token \in Nat
  BY DEF PabxInv, PabxTypeOK, Post, TokenInv
<1>2. /\ UNCHANGED <<kindOf, succeeded>>
      /\ lease' = IF ~ok \/ p.what = "progress" THEN lease
                  ELSE [lease EXCEPT ![j].live = FALSE,
                          ![j].state = IF p.what = "complete" THEN "completed" ELSE "failed"]
  BY DEF Deliver
<1>3. CASE ~ok \/ p.what = "progress"
  BY <1>2, <1>3, CommandStutters
<1>4. CASE ok /\ p.what # "progress"
  <2> DEFINE w == IF p.what = "complete" THEN "done" ELSE "failed"
  <2>1. PabxRecord[j].st = "leased" /\ PabxRecord[j].lease = lease[j].token
    BY <1>1, <1>4, RecordIs
  <2>2. PabxRecord' = [PabxRecord EXCEPT ![j] = [st |-> w, lease |-> @.lease]]
    <3>1. lease \in [PabxJobs -> [state : {"open", "leased", "completed", "failed"},
                                  token : Nat, live : BOOLEAN]]
      BY DEF PabxInv, PabxTypeOK
    <3>2. /\ ~lease'[j].live /\ lease'[j].token = lease[j].token
          /\ lease'[j].state = IF p.what = "complete" THEN "completed" ELSE "failed"
          /\ \A i \in PabxJobs \ {j} : lease'[i] = lease[i]
      BY <1>1, <1>2, <1>4, <3>1
    <3>3. ASSUME NEW i \in PabxJobs
          PROVE  PabxRecord'[i] = IF i = j THEN [st |-> w, lease |-> PabxRecord[j].lease]
                                  ELSE PabxRecord[i]
      BY <3>2 DEF PabxRecord
    <3> QED
      BY <1>1, <3>3 DEF PabxRecord
  <2>3. UNCHANGED <<PabxClaim, {[job |-> e.job, lease |-> e.token] : e \in succeeded},
                    [i \in PabxJobs |-> TRUE]>>
    BY <1>2 DEF PabxClaim
  <2>4. CASE p.what = "complete"
    <3>1. [job |-> j, token |-> p.token] \in succeeded
      BY <2>4 DEF WorkedInv
    <3>2. [job |-> j, lease |-> p.token] \in
            {[job |-> e.job, lease |-> e.token] : e \in succeeded}
      BY <3>1
    <3>3. CommandLife!Claimed(j)
      <4>1. CASE Mutates(kindOf[j])
        <5>1. p.token = lease[j].token
          BY <1>4, <2>4, <4>1 DEF WorkedInv
        <5> QED
          BY <1>1, <2>1, <3>2, <4>1, <5>1, RecordIs DEF CommandLife!Claimed
      <4>2. CASE ~Mutates(kindOf[j])
        BY <1>1, <2>1, <3>2, <4>2, RecordIs DEF CommandLife!Claimed
      <4> QED
        BY <4>1, <4>2
    <3>4. CommandLife!Complete(j)
      BY <2>1, <2>2, <2>3, <2>4, <3>3 DEF CommandLife!Complete
    <3> QED
      BY <1>1, <3>4 DEF CommandLife!LifeNext
  <2>5. CASE p.what # "complete"
    <3>1. CommandLife!Release(j)
      BY <2>1, <2>2, <2>3, <2>5 DEF CommandLife!Release
    <3> QED
      BY <1>1, <3>1 DEF CommandLife!LifeNext
  <2> QED
    BY <2>4, <2>5
<1> QED
  BY <1>3, <1>4

\* A lease that runs out is a job offered again.
LEMMA CommandExpires ==
  ASSUME PabxInv, WorkedInv, NEW j \in PabxJobs, LeaseExpires(j)
  PROVE  CommandLife!LifeNext
<1>1. lease[j].live /\ lease[j].state = "leased" /\ UNCHANGED <<kindOf, succeeded>>
      /\ lease' = [lease EXCEPT ![j].live = FALSE]
  BY DEF LeaseExpires, WorkedInv, told
<1>2. PabxRecord[j].st = "leased"
  BY <1>1, RecordIs
<1>3. PabxRecord' = [PabxRecord EXCEPT ![j] = [st |-> "queued", lease |-> @.lease]]
  <2>1. lease \in [PabxJobs -> [state : {"open", "leased", "completed", "failed"},
                                token : Nat, live : BOOLEAN]]
    BY DEF PabxInv, PabxTypeOK
  <2>2. /\ ~lease'[j].live /\ lease'[j].token = lease[j].token /\ lease'[j].state = "leased"
        /\ \A i \in PabxJobs \ {j} : lease'[i] = lease[i]
    BY <1>1, <2>1
  <2>3. ASSUME NEW i \in PabxJobs
        PROVE  PabxRecord'[i] = IF i = j THEN [st |-> "queued", lease |-> PabxRecord[j].lease]
                                ELSE PabxRecord[i]
    BY <2>2 DEF PabxRecord
  <2> QED
    BY <2>3 DEF PabxRecord
<1>4. CommandLife!Release(j)
  BY <1>1, <1>2, <1>3 DEF CommandLife!Release, PabxClaim
<1> QED
  BY <1>4 DEF CommandLife!LifeNext

LEMMA CommandSteps ==
  ASSUME PabxInv, WorkedInv, [PabxNext]_pabxVars
  PROVE  [CommandLife!LifeNext]_CommandLife!lifeVars
<1>1. CASE LeaseBatch
  BY <1>1, CommandGrant
<1>2. CASE RunStep
  <2>1. CASE UNCHANGED succeeded
    BY <1>2, <2>1, CommandStutters DEF RunStep
  <2>2. CASE succeeded' = succeeded \cup {running}
    BY <1>2, <2>2, CommandWork
  <2> QED
    BY <1>2, <2>1, <2>2 DEF RunStep
<1>3. ASSUME NEW p \in posts, Deliver(p)
      PROVE  [CommandLife!LifeNext]_CommandLife!lifeVars
  BY <1>3, CommandDeliver
<1>4. ASSUME NEW j \in PabxJobs, LeaseExpires(j)
      PROVE  [CommandLife!LifeNext]_CommandLife!lifeVars
  BY <1>4, CommandExpires
<1>5. CASE UNCHANGED <<kindOf, lease, succeeded>>
  BY <1>5, CommandStutters
<1> QED
  BY <1>1, <1>2, <1>3, <1>4, <1>5
  DEF PabxNext, BeginCommand, Renew, Renewed, Tick, ChainedRenewal, ReportCommand, Reported,
      Drained, PabxStop, pabxVars, told

\* The fenced commands have the life of JobLife, for all jobs, leases, renewals and
\* restarts: no late request ends a command twice, and the completion of one that changes
\* the runtime is of an execution of the present lease all of whose steps succeeded (main.ts
\* executePabxCommandJob, failJob).
THEOREM CommandsImplementJobLife == PabxSpec => CommandsRefineJobLife
<1>1. PabxInit => CommandLife!LifeInit
  <2> SUFFICES ASSUME PabxInit PROVE CommandLife!LifeInit
    OBVIOUS
  <2>1. PabxRecord \in [PabxJobs -> [st : {"queued", "failed"}, lease : {0}]]
    BY DEF PabxInit, PabxRecord
  <2>2. PabxClaim \in [PabxJobs -> {"last", "any", "none"}]
    BY DEF PabxClaim
  <2>3. {[job |-> e.job, lease |-> e.token] : e \in succeeded} = {}
    BY DEF PabxInit
  <2> QED
    BY <2>1, <2>2, <2>3 DEF CommandLife!LifeInit
<1>2. PabxInv /\ PabxInv' /\ WorkedInv /\ [PabxNext]_pabxVars => WorkedInv'
  BY WorkedNext
<1>3. PabxInv /\ WorkedInv /\ [PabxNext]_pabxVars
        => [CommandLife!LifeNext]_CommandLife!lifeVars
  BY CommandSteps
<1> QED
  BY WorkedInit, PabxAlways, <1>1, <1>2, <1>3, PTL
  DEF PabxSpec, CommandsRefineJobLife, CommandLife!LifeSpec

HIDE PabxAssumption
=============================================================================
