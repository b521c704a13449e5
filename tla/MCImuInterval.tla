---------------------------- MODULE MCImuInterval ----------------------------
(* Model-checking instance of ImuInterval: bags of up to four samples of one  *)
(* or two IMUs around two or three boundaries.                                *)
EXTENDS ImuInterval

Imu0(time) == [time |-> time, sensor |-> "imu0", ok |-> TRUE, gyro |-> 0, accel |-> 9]
Imu1(time) == [Imu0(time) EXCEPT !.sensor = "imu1"]

Rig == [densities |-> TRUE, priors |-> TRUE]
Bag(samples, boundaries) == [samples |-> samples, boundaries |-> boundaries, rig |-> Rig]

\* Streams of one IMU, in and out of order and with times that repeat.
Streams == UNION {[1 .. n -> {Imu0(t) : t \in 0 .. 6}] : n \in 0 .. 4}
OneImu == {Bag(s, <<2, 4, 6>>) : s \in Streams} \cup {Bag(s, <<2, 3>>) : s \in Streams}

\* A second IMU between the samples of the first.
TwoImus ==
  {Bag(<<Imu0(a), Imu1(b), Imu0(c), Imu0(d)>>, <<2, 4>>) : a, b, c, d \in 0 .. 4}

\* An interval that is too long; a malformed reading; a rig without densities
\* or without priors; pre-rolls that turn, that are not level with gravity, or
\* whose readings cancel out.
Moved(s, gyro, accel) == [k \in DOMAIN s |-> [s[k] EXCEPT !.gyro = gyro[k], !.accel = accel[k]]]
Level == <<Imu0(0), Imu0(1), Imu0(2), Imu0(3)>>
Special ==
  {Bag(Level, <<2, 9>>), Bag([Level EXCEPT ![1].ok = FALSE], <<2, 3>>),
   Bag([Level EXCEPT ![4].ok = FALSE], <<2, 3>>),
   [Bag(Level, <<2, 3>>) EXCEPT !.rig.densities = FALSE],
   [Bag(Level, <<2, 3>>) EXCEPT !.rig.priors = FALSE],
   Bag(Moved(Level, <<3, 3, 3, 0>>, <<9, 9, 9, 9>>), <<2, 3>>),
   Bag(Moved(Level, <<0, 0, 0, 0>>, <<5, 9, 9, 9>>), <<2, 3>>),
   Bag(Moved(Level, <<3, -3, 0, 0>>, <<9, 9, 9, 9>>), <<2, 3>>)}

MCInputs == OneImu \cup TwoImus \cup Special
=============================================================================
