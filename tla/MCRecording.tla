---------------------------- MODULE MCRecording ----------------------------
(* Model-checking instance of Recording: three ticks over sensor sets in     *)
(* which the cameras publish together, alone and not at all and the depth     *)
(* reading stands with and without another sensor, with one step of the wall  *)
(* clock; two keyframes behind a pre-roll that ends on an IMU sample; up to   *)
(* three boundaries with every defect their contract names.                   *)
EXTENDS Recording

CONSTANTS t1, t2

MCTickSets ==
  {{}, {"left"}, {"right"}, {"depth"}, {"left", "right", "gt", "depth"},
   {"left", "right", "main"}, {"depth", "imu", "gt"}, {"sonar", "dvl", "depth"}}

MCObsIds == {"kf", "tick", "imu", "boundary"} \X (0 .. 8)
MCKeyframeIds == {<<"kf", 0>>, <<"kf", 1>>}

MCFrameTree ==
  {{"base_link", "camera_left_link"}, {"camera_right_link", "camera_left_link"},
   {"imu_link", "base_link"}, {"sonar_link", "dvl_link"}}
=============================================================================
