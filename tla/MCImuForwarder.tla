--------------------------- MODULE MCImuForwarder ---------------------------
(* Model-checking instance of ImuForwarder.  A period is 20 ticks; a window of *)
(* four readings and a stall of six periods stand for 400 and 100.            *)
EXTENDS ImuForwarder

MCExpected == {"acceleration", "gyro", "magnetic", "quaternion"}
MCTypes    == MCExpected \cup {"euler"}
Four == <<"acceleration", "gyro", "magnetic", "quaternion">>
\* An unconfigured unit also sends Euler angles.
Five == <<"acceleration", "gyro", "euler", "magnetic", "quaternion">>

Clean == {[gone |-> {}, bad |-> {}]}
Cycle(burst) == {[gone |-> ToSet(burst), bad |-> {}]}
OnePacket == {[gone |-> {t}, bad |-> {}] : t \in MCExpected}
               \cup {[gone |-> {}, bad |-> {t}] : t \in MCExpected}

\* Reads of seven packets that cut the cycles of five, and time out.
CutReads ==
  [burst |-> Five, delays |-> {4},
   damages |-> Clean \cup OnePacket \cup Cycle(Five), maxDamaged |-> 3,
   readSize |-> 7, readTimeout |-> 35]

\* Reads of one cycle, a tenth of a period early or late; cycles are lost.
CycleReads ==
  [burst |-> Four, delays |-> {2, 4, 6},
   damages |-> Clean \cup Cycle(Four), maxDamaged |-> 6,
   readSize |-> 4, readTimeout |-> 200]

\* Reads of one cycle, with one packet of one of them lost.
OneLost == [CycleReads EXCEPT !.delays = {4}, !.damages = Clean \cup OnePacket,
                              !.maxDamaged = 1]

MCSetups     == {CutReads, CycleReads}
MixedSetups  == {OneLost}
=============================================================================
