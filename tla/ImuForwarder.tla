---------------------------- MODULE ImuForwarder ----------------------------
(***************************************************************************)
(* The WIT IMU adapter from the serial line to the datagrams: the device     *)
(* bursts its packets once per cycle, the line loses some, the loop of       *)
(* service.py reads, and ImuForwarder (forwarder.py) groups packets into     *)
(* readings, stamps them and reports its health.                             *)
(*                                                                          *)
(* A packet is a type and the device cycle it belongs to; the device sends   *)
(* neither a number nor a time, so the cycle is for the properties only.     *)
(* PacketStream models how bytes become packets; here a damaged packet       *)
(* costs itself and one checksum failure.                                    *)
(***************************************************************************)
EXTENDS UniformTimebase, FiniteSets

CONSTANTS
  Expected,         \* _expected: the packet types of a reading
  Types,            \* the packet types
  Setups,           \* devices, lines and ports
  HealthInterval,   \* _health_interval_s
  MaxCycle,         \* bound: device cycles
  None

\* What may happen to a burst on the line: packets gone, packets damaged.
Damage == [gone : SUBSET Types, bad : SUBSET Types]

SetupRecords ==
  [burst : Seq(Types),           \* what the device sends in a cycle, in order
   delays : SUBSET Nat,          \* by how much a burst may be late at the port
   damages : SUBSET Damage,
   maxDamaged : Nat,             \* bound: damaged bursts
   readSize : Nat \ {0},         \* read_size, in packets
   readTimeout : Nat \ {0}]      \* timeout of serial.Serial

ASSUME ImuForwarderAssumption ==
  /\ {"acceleration", "gyro"} \subseteq Expected
  /\ Expected \subseteq Types /\ IsFiniteSet(Types)
  /\ Setups \subseteq SetupRecords
  /\ \A s \in Setups : Expected \subseteq ToSet(s.burst) /\ IsInjective(s.burst)
  /\ \A s \in Setups : s.delays # {} /\ IsFiniteSet(s.delays)
  /\ HealthInterval \in Nat \ {0}
  /\ MaxCycle \in Nat
  /\ None \notin Int

VARIABLES
  setup,       \* the device, its line and the port, fixed for the run
  cycle,       \* cycles the device has completed
  damaged,     \* (history) the packets that did not arrive whole
  bursts,      \* how many bursts were damaged
  now,         \* the Pi's clock
  wire,        \* the packets in the port's input queue
  readStart,   \* when the read in progress began
  fwd,         \* the ImuForwarder object
  readings,    \* the readings forwarded so far
  report       \* the newest HealthReport, or "none" yet

vars == <<setup, cycle, damaged, bursts, now, wire, readStart, fwd, readings, report>>

Packets == [type : Types, cycle : Nat, whole : BOOLEAN]

Init ==
  /\ setup \in Setups
  /\ cycle = 0
  /\ damaged = {}
  /\ bursts = 0
  /\ now = 0
  /\ wire = <<>>
  /\ readStart = 0
  /\ fwd = [pending |-> {}, firstArrival |-> None, incomplete |-> 0,
            checksumFailures |-> 0, timebase |-> Fresh,
            lastHealth |-> None, sinceHealth |-> 0]
  /\ readings = <<>>
  /\ report = [status |-> "none", upTo |-> 0, cycle |-> 0]
-----------------------------------------------------------------------------
(* SampleAssembler.feed and _make_reading, on the forwarder f and the readings *)
(* out of this chunk so far.                                                   *)

\* The reading a complete group makes.  Its sequence number is its position.
Reading(group, f, first, arrival) ==
  [cycles  |-> [t \in Expected |-> (CHOOSE p \in group : p.type = t).cycle],
   capture |-> Stamp(f.timebase),
   receive |-> arrival,
   index   |-> Last(f.timebase.samples).index,
   epoch   |-> f.timebase.resyncs,
   first   |-> first]

\* (Variant) does not clear the group it emits.
Complete_KeepsGroup(f, group, first, arrival) ==
  [f EXCEPT !.pending = group, !.timebase = Update(@, arrival),
            !.sinceHealth = @ + 1]

\* The timebase is fed the arrival of the chunk that completed the group.
Complete(f, group, first, arrival) ==
  [f EXCEPT !.pending = {}, !.firstArrival = None,
            !.timebase = Update(@, arrival),
            !.sinceHealth = @ + 1]

FeedPacket(state, p, arrival) ==
  LET f         == state.fwd
      repeated  == \E q \in f.pending : q.type = p.type
      restarted == repeated \/ f.pending = {}
      group     == IF restarted THEN {p} ELSE f.pending \cup {p}
      first     == IF restarted THEN arrival ELSE f.firstArrival
      counted   == [f EXCEPT !.incomplete = IF repeated THEN @ + 1 ELSE @]
      complete  == Complete(counted, group, first, arrival)
  IN IF ~p.whole THEN [state EXCEPT !.fwd.checksumFailures = @ + 1]
     ELSE IF p.type \notin Expected THEN state
     ELSE IF Cardinality(group) < Cardinality(Expected)
          THEN [state EXCEPT !.fwd = [counted EXCEPT !.pending = group,
                                                     !.firstArrival = first]]
          ELSE [fwd |-> complete,
                out |-> Append(state.out, Reading(group, complete, first, arrival))]

\* (Variant) every read starts a group of its own.
FeedChunk_FreshGroup(chunk, arrival) ==
  LET after[n \in 0 .. Len(chunk)] ==
        IF n = 0
        THEN [fwd |-> [fwd EXCEPT !.pending = {}, !.firstArrival = None], out |-> <<>>]
        ELSE FeedPacket(after[n - 1], chunk[n], arrival)
  IN after[Len(chunk)]

\* ImuForwarder.feed on one chunk: what it is after the first n packets.
FeedChunk(chunk, arrival) ==
  LET after[n \in 0 .. Len(chunk)] ==
        IF n = 0 THEN [fwd |-> fwd, out |-> <<>>]
        ELSE FeedPacket(after[n - 1], chunk[n], arrival)
  IN after[Len(chunk)]
-----------------------------------------------------------------------------
(* maybe_build_health_report: the status of f after elapsed ticks.            *)

\* received / elapsed, as a percentage of the nominal rate, is below percent.
RateBelow(percent, received, elapsed) ==
  100 * received * NominalPeriod < percent * elapsed

Status(f, elapsed) ==
  IF RateBelow(50, f.sinceHealth, elapsed) THEN "unavailable"
  ELSE IF RateBelow(99, f.sinceHealth, elapsed) \/ f.checksumFailures > 0 THEN "suspect"
  ELSE IF ~Locked(f.timebase) THEN "recovering"
  ELSE "healthy"

\* (History) the report covers the readings after position from, up to upTo,
\* and the device cycles after since (None in the first), up to cycle.
HealthReport(f, elapsed) ==
  [status   |-> Status(f, elapsed),
   dropped  |-> f.timebase.missing + f.incomplete,
   rejected |-> f.checksumFailures,
   received |-> f.sinceHealth,
   elapsed  |-> elapsed,
   from     |-> report.upTo,
   upTo     |-> Len(readings'),
   since    |-> IF report.status = "none" THEN None ELSE report.cycle,
   cycle    |-> cycle]

\* (Variant) does not start the count of readings afresh after a report.
CheckHealth_KeepsCount(f, t) ==
  IF f.lastHealth # None /\ t - f.lastHealth >= HealthInterval
  THEN /\ report' = HealthReport(f, t - f.lastHealth)
       /\ fwd' = [f EXCEPT !.lastHealth = t]
  ELSE /\ fwd' = [f EXCEPT !.lastHealth = IF @ = None THEN t ELSE @]
       /\ UNCHANGED report

\* The forwarder and the report after the health check at time t.
CheckHealth(f, t) ==
  IF f.lastHealth # None /\ t - f.lastHealth >= HealthInterval
  THEN /\ report' = HealthReport(f, t - f.lastHealth)
       /\ fwd' = [f EXCEPT !.lastHealth = t, !.sinceHealth = 0]
  ELSE /\ fwd' = [f EXCEPT !.lastHealth = IF @ = None THEN t ELSE @]
       /\ UNCHANGED report

\* One round of the loop of service.run: a read returned chunk at time t.
Handle(chunk, t) ==
  LET fed == FeedChunk(chunk, t)
  IN /\ readings' = readings \o fed.out
     /\ CheckHealth(fed.fwd, t)
-----------------------------------------------------------------------------
\* When the read in progress gives up.
Deadline == readStart + setup.readTimeout

\* When the next burst may be at the port.
BurstTimes == {(cycle + 1) * NominalPeriod + d : d \in setup.delays}

\* What the line delivers of a cycle's burst, in the order of the burst.
Arriving(damage) ==
  LET upTo[n \in 0 .. Len(setup.burst)] ==
        IF n = 0 THEN <<>>
        ELSE IF setup.burst[n] \in damage.gone THEN upTo[n - 1]
        ELSE Append(upTo[n - 1], [type |-> setup.burst[n], cycle |-> cycle + 1,
                                  whole |-> setup.burst[n] \notin damage.bad])
  IN upTo[Len(setup.burst)]

\* The device ends a cycle; the line delivers what it does not lose, late by d.
DeviceBurst(t, damage) ==
  /\ cycle < MaxCycle
  /\ Len(wire) < setup.readSize
  /\ now <= t /\ t <= Deadline
  /\ cycle' = cycle + 1
  /\ now' = t
  /\ LET hit == damage.gone \cup damage.bad
     IN /\ bursts' = IF hit = {} THEN bursts ELSE bursts + 1
        /\ bursts' <= setup.maxDamaged
        /\ damaged' = damaged \cup {[type |-> type, cycle |-> cycle + 1] : type \in hit}
  /\ wire' = wire \o Arriving(damage)
  /\ UNCHANGED <<setup, readStart, fwd, readings, report>>

\* The read has all the bytes it asked for.
ReadFull ==
  /\ Len(wire) >= setup.readSize
  /\ Handle(SubSeq(wire, 1, setup.readSize), now)
  /\ wire' = SubSeq(wire, setup.readSize + 1, Len(wire))
  /\ readStart' = now
  /\ UNCHANGED <<setup, cycle, damaged, bursts, now>>

\* (Variant) a read that times out forgets what it has read.
ReadTimesOut_Forgets ==
  /\ Len(wire) < setup.readSize
  /\ cycle < MaxCycle
  /\ \E t \in BurstTimes : Deadline <= t
  /\ Handle(<<>>, Deadline)
  /\ wire' = <<>>
  /\ readStart' = Deadline
  /\ now' = Deadline
  /\ UNCHANGED <<setup, cycle, damaged, bursts>>

\* The read gives up before the next burst and returns what there is.
ReadTimesOut ==
  /\ Len(wire) < setup.readSize
  /\ cycle < MaxCycle
  /\ \E t \in BurstTimes : Deadline <= t
  /\ Handle(wire, Deadline)
  /\ wire' = <<>>
  /\ readStart' = Deadline
  /\ now' = Deadline
  /\ UNCHANGED <<setup, cycle, damaged, bursts>>

\* max_seconds: the loop ends.
Stop ==
  /\ cycle = MaxCycle
  /\ Len(wire) < setup.readSize
  /\ UNCHANGED vars

Next ==
  \/ \E t \in BurstTimes, damage \in setup.damages : DeviceBurst(t, damage)
  \/ ReadFull
  \/ ReadTimesOut
  \/ Stop

Spec == Init /\ [][Next]_vars
-----------------------------------------------------------------------------
Damaged == Cardinality(damaged)

\* The cycle whose packet completed a reading.
LastCycle(r) == Max({r.cycles[t] : t \in Expected})

\* The cycles from the reading before it to the n-th.
Gap(n) == LastCycle(readings[n]) - LastCycle(readings[n - 1])

\* By how much two arrivals may differ from the cycles between them.
Jitter == Max(setup.delays) - Min(setup.delays)

\* Whatever period the fit has come to, and wherever in the jitter a gap of k
\* cycles ends, it is counted as k (one that restarts the fit is not counted).
Tellable(k) ==
  \A elapsed \in k * NominalPeriod - Jitter .. k * NominalPeriod + Jitter :
    elapsed <= ResyncThreshold =>
      /\ 2 * elapsed * LowPeriod[2] < (2 * k + 1) * LowPeriod[1]
      /\ k > 1 => (2 * k - 1) * HighPeriod[1] < 2 * elapsed * HighPeriod[2]

\* Two readings, the first forwarded before the second.
Pairs == {ij \in (DOMAIN readings) \X (DOMAIN readings) : ij[1] < ij[2]}

(* The group under assembly is incomplete, and it has a first arrival exactly  *)
(* when it has a packet (_pending, _first_arrival).                            *)
TypeOK ==
  /\ cycle \in 0 .. MaxCycle
  /\ bursts \in 0 .. setup.maxDamaged
  /\ now \in Nat /\ readStart \in Nat
  /\ wire \in Seq(Packets)
  /\ fwd.pending \subseteq Packets
  /\ Cardinality(fwd.pending) < Cardinality(Expected)
  /\ (fwd.firstArrival = None) <=> (fwd.pending = {})

(* On a line that loses nothing the readings are the device's cycles, in order *)
(* and complete, wherever the reads of the port cut the packets.              *)
OneCycleWhenClean ==
  damaged = {} =>
    \A i \in DOMAIN readings : \A t \in Expected : readings[i].cycles[t] = i

(* Whatever the line loses, no packet reaches two readings and none overtakes  *)
(* another of its type: the samples downstream integrates are distinct.       *)
PacketsUsedOnce ==
  \A ij \in Pairs : \A t \in Expected :
    readings[ij[1]].cycles[t] < readings[ij[2]].cycles[t]

(* A lost packet costs at most one reading: the grouping finds back by itself  *)
(* (the cycle still under assembly is counted apart).                         *)
LossCostsOneReading ==
  wire = <<>> =>
    cycle <= Len(readings) + Damaged + (IF fwd.pending = {} THEN 0 ELSE 1)

\* Each read returns when a cycle is whole, and the line loses whole cycles or
\* nothing: what the time base was built for.
ReadsAreCycles ==
  /\ setup.readSize = Len(setup.burst)
  /\ \A d \in setup.damages : d.bad = {} /\ d.gone \in {{}, ToSet(setup.burst)}

(* The inferred index advances by as many steps as the device did, across lost *)
(* cycles, until a stall restarts it: "a drop shifts nothing downstream"       *)
(* (timebase.py) - as far as a gap can be told at all.                        *)
IndexFollowsDevice ==
  LET told == {n \in 2 .. Len(readings) : Tellable(Gap(n))}
  IN ReadsAreCycles => \A ij \in Pairs :
       LET a == readings[ij[1]]
           b == readings[ij[2]]
       IN a.epoch = b.epoch /\ ij[1] + 1 .. ij[2] \subseteq told =>
            b.index - a.index = LastCycle(b) - LastCycle(a)

(* A stamp is no further from the raw arrival than two arrivals may differ by   *)
(* jitter, whatever gap or resync it came from: the correction removes jitter   *)
(* and adds no offset of its own.  (For the windows of a run: the weights of a  *)
(* regression over hundreds of samples allow up to a third more.)              *)
CaptureWithinJitter ==
  ReadsAreCycles => \A r \in ToSet(readings) :
    r.receive - Jitter <= r.capture /\ r.capture <= r.receive + Jitter

(* From the second report on, healthy means that at most one in a hundred of the *)
(* cycles the device completed since the report before has no reading, give or  *)
(* take the cycle the report cuts and the jitter of its ends: no loss hides in  *)
(* the count of readings or in the clock of the interval.                      *)
HealthyMeansWhole ==
  report.status = "healthy" /\ report.since # None =>
    LET cycles  == report.cycle - report.since
        missing == cycles - (report.upTo - report.from)
    IN 100 * missing * NominalPeriod
         <= cycles * NominalPeriod + 99 * (NominalPeriod + Jitter)

(* The reads of the port cut the cycles anywhere, and neither that nor a loss   *)
(* makes a packet part of two readings.                                       *)
CyclesWhole == OneCycleWhenClean /\ PacketsUsedOnce

(* A loss shows: in the indices of the readings around it, and in the health.   *)
LossesTold == IndexFollowsDevice /\ HealthyMeansWhole

(* What the tests say of a reading, and the code does not keep.                *)

(* An ImuReading is "one complete device cycle".                              *)
ReadingIsOneCycle ==
  \A r \in ToSet(readings) : \A t, u \in Expected : r.cycles[t] = r.cycles[u]
=============================================================================
