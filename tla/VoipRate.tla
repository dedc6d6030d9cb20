------------------------------- MODULE VoipRate -------------------------------
(***************************************************************************)
(* The peak of channel starts per second that a heartbeat reports of one   *)
(* engine (voip-rate.ts, VoipRateWindow, fed by the event stream of        *)
(* pabx-events.ts): starts are counted in one bucket per second, and a     *)
(* sample is only given of a stream that was up for the whole window and   *)
(* acknowledged a ping of late.                                            *)
(*                                                                         *)
(* A moment is a second and a tick in it, so that the code's division by   *)
(* 1000 is the choice of the first component.                              *)
(***************************************************************************)
EXTENDS Integers, FiniteSets

CONSTANTS
  Window,       \* seconds a sample looks back, 60 in the code
  Patience,     \* seconds an acknowledgement is good for, 15 in the code
  MaxTick,      \* the last tick of a second, 999 in the code
  Ceiling,      \* starts a second may count, 1000000 in the code
  NoTime,       \* a disconnected window
  NoSample,     \* the sample null
  MaxSecond,    \* bound: the last second
  MaxStarts,    \* bound: channel starts
  MaxStepsBack  \* bound: clock steps back

ASSUME RateAssumption ==
  /\ Window \in Nat \ {0} /\ Patience \in Nat /\ MaxTick \in Nat
  /\ Ceiling \in Nat
  /\ MaxSecond \in Nat /\ MaxStarts \in Nat /\ MaxStepsBack \in Nat
  /\ NoTime \notin [s : Nat, t : Nat]
  /\ NoSample \notin Nat

Seconds == 0..MaxSecond
Times == [s : Seconds, t : 0..MaxTick]

VARIABLES
  clock,           \* Date.now()
  stream,          \* external: the logged-in event connection
  connectedAt, acknowledgedAt,
  buckets,         \* the Map from a second to its count
  starts,          \* history: the starts of this connection, second by second
  steady,          \* history: the clock did not step back on this connection
  started, steps   \* bounded counters

window == <<connectedAt, acknowledgedAt, buckets>>
rateVars == <<clock, stream, window, starts, steady, started, steps>>

Before(a, b) == a.s < b.s \/ (a.s = b.s /\ a.t < b.t)
\* At least n seconds lie between a and b.
Apart(n, a, b) == b.s - a.s > n \/ (b.s - a.s = n /\ b.t >= a.t)
\* More than n seconds lie between a and b.
Beyond(n, a, b) == b.s - a.s > n \/ (b.s - a.s = n /\ b.t > a.t)

Count(b, s) == IF s \in DOMAIN b THEN b[s] ELSE 0
Keep(b, S) == [s \in DOMAIN b \cap S |-> b[s]]
Recent(s) == {k \in Seconds : k >= s - Window}

NoBuckets == [s \in {} |-> 0]
Silent == [s \in Seconds |-> 0]

\* The largest of a set of counts, 0 of none.
Peak(C) == CHOOSE c \in C \cup {0} : \A d \in C \cup {0} : d <= c
Complete(s) == {k \in Seconds : k >= s - Window /\ k < s}

\* sample: nothing of a young or silent stream, or of a clock behind the last
\* acknowledgement.
Sample ==
  IF \/ connectedAt = NoTime \/ acknowledgedAt = NoTime
     \/ Before(clock, acknowledgedAt)
     \/ ~Apart(Window + 1, connectedAt, clock)
     \/ Beyond(Patience, acknowledgedAt, clock)
  THEN NoSample
  ELSE Peak({buckets[k] : k \in DOMAIN buckets \cap Complete(clock.s)})
-----------------------------------------------------------------------------
RateInit ==
  /\ clock = [s |-> 0, t |-> 0]
  /\ stream = FALSE
  /\ connectedAt = NoTime /\ acknowledgedAt = NoTime /\ buckets = NoBuckets
  /\ starts = Silent /\ steady = TRUE
  /\ started = 0 /\ steps = 0

\* onStreamState(engine, true): the stream is logged in.
Connect ==
  /\ ~stream /\ stream' = TRUE
  /\ connectedAt' = clock /\ acknowledgedAt' = clock
  /\ buckets' = NoBuckets
  /\ starts' = Silent /\ steady' = TRUE
  /\ UNCHANGED <<clock, started, steps>>

\* onStreamState(engine, false): the connection is closed or lost.
Disconnect ==
  /\ stream /\ stream' = FALSE
  /\ connectedAt' = NoTime /\ acknowledgedAt' = NoTime
  /\ buckets' = NoBuckets
  /\ UNCHANGED <<clock, starts, steady, started, steps>>

\* onKeepalive
Acknowledge ==
  /\ stream
  /\ acknowledgedAt' = IF connectedAt = NoTime THEN acknowledgedAt ELSE clock
  /\ UNCHANGED <<clock, stream, connectedAt, buckets, starts, steady, started, steps>>

\* Mutant of Counted: the oldest second of the window is dropped as well.
CountedShort ==
  LET kept == Keep(buckets, {k \in Seconds : k > clock.s - Window}) IN
  [k \in DOMAIN kept \cup {clock.s} |->
     IF k = clock.s THEN Count(kept, k) + 1 ELSE kept[k]]

\* The buckets after a start: those that left the window are dropped first.
Counted ==
  LET kept == Keep(buckets, Recent(clock.s)) IN
  [k \in DOMAIN kept \cup {clock.s} |->
     IF k = clock.s THEN Count(kept, k) + 1 ELSE kept[k]]

\* record gives the window up until the next connection on a clock before the
\* connection, a second over the ceiling or a bucket too many.
Record ==
  /\ stream /\ started < MaxStarts /\ started' = started + 1
  /\ starts' = [starts EXCEPT ![clock.s] = @ + 1]
  /\ \/ connectedAt = NoTime /\ UNCHANGED window
     \/ /\ connectedAt # NoTime
        /\ IF \/ Before(clock, connectedAt)
              \/ Counted[clock.s] > Ceiling
              \/ Cardinality(DOMAIN Counted) > Window + 1
           THEN /\ connectedAt' = NoTime /\ acknowledgedAt' = NoTime
                /\ buckets' = NoBuckets
           ELSE buckets' = Counted /\ UNCHANGED <<connectedAt, acknowledgedAt>>
  /\ UNCHANGED <<clock, stream, steady, steps>>

\* performHeartbeat takes a sample, which drops the buckets that left the window.
TakeSample ==
  /\ Sample # NoSample
  /\ buckets' = Keep(buckets, Recent(clock.s))
  /\ UNCHANGED <<clock, stream, connectedAt, acknowledgedAt, starts, steady,
                 started, steps>>

TimePasses ==
  /\ \/ clock.t < MaxTick /\ clock' = [clock EXCEPT !.t = @ + 1]
     \/ clock.s < MaxSecond /\ clock' = [s |-> clock.s + 1, t |-> 0]
  /\ UNCHANGED <<stream, window, starts, steady, started, steps>>

\* The host's clock is set back.
ClockStepsBack ==
  /\ steps < MaxStepsBack /\ steps' = steps + 1
  /\ clock' \in {c \in Times : Before(c, clock)}
  /\ steady' = FALSE
  /\ UNCHANGED <<stream, window, starts, started>>

RateNext == \/ Connect \/ Disconnect \/ Acknowledge \/ Record \/ TakeSample
            \/ TimePasses \/ ClockStepsBack

RateSpec == RateInit /\ [][RateNext]_rateVars
-----------------------------------------------------------------------------
(* Properties.                                                             *)

\* Every variable keeps its type, and the window never holds more buckets than a
\* window and its current second (voip-rate.ts).
RateTypeOK ==
  /\ clock \in Times /\ stream \in BOOLEAN
  /\ connectedAt \in Times \cup {NoTime} /\ acknowledgedAt \in Times \cup {NoTime}
  /\ DOMAIN buckets \subseteq Seconds /\ buckets \in [DOMAIN buckets -> Nat]
  /\ Cardinality(DOMAIN buckets) <= Window + 1
  /\ starts \in [Seconds -> Nat] /\ steady \in BOOLEAN
  /\ started \in Nat /\ steps \in Nat

\* Below the ceiling and on a clock that does not step back the window is never
\* given up, and a sample is the peak of all starts of the last Window complete
\* seconds, every one of them later than the connection: dropped buckets, late
\* acknowledgements and reconnections at any tick neither lose a second nor count
\* part of one (VoipRateWindow, "Bounded engine channel-start peak").
SampleIsPeak ==
  stream /\ steady /\ (\A k \in Seconds : starts[k] <= Ceiling) =>
    /\ connectedAt # NoTime
    /\ Sample # NoSample =>
         /\ Sample = Peak({starts[k] : k \in Complete(clock.s)})
         /\ \A k \in Complete(clock.s) : ~Before([s |-> k, t |-> 0], connectedAt)
         /\ clock.s >= Window
=============================================================================
