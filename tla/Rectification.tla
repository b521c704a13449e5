---------------------------- MODULE Rectification ----------------------------
(***************************************************************************)
(* The OpenCV rectification adapter: from the rig of a stereo pair, once per *)
(* run, the rig its rectified images obey; and StereoGeometry::Resolve, which*)
(* says whether such a rig can be triangulated with.                         *)
(*                                                                           *)
(* A rig is a record: cameras by side (absent if the side is missing), each  *)
(* with its focal length (0: an unusable K), size and distortion; frames by  *)
(* name, each an edge from base_link; offsets by sensor (time_offset_seconds)*)
(* An edge is displaced by x along the left camera's horizontal axis and off *)
(* it by off, and turned by yaw; rigid says that it is a rigid transform.    *)
(***************************************************************************)
EXTENDS Integers

Sides == {"left", "right"}
Link(side) == IF side = "left" THEN "left_link" ELSE "right_link"
RectifiedFrame(side) == IF side = "left" THEN "left_rectified" ELSE "right_rectified"

Size(n) == IF n >= 0 THEN n ELSE -n

BothCameras(rig) == \A s \in Sides : s \in DOMAIN rig.cameras /\ rig.cameras[s].k > 0

SameNonzeroSize(rig) ==
  rig.cameras["left"].size = rig.cameras["right"].size /\ rig.cameras["left"].size > 0

RigidEdge(rig, frame) == frame \in DOMAIN rig.frames /\ rig.frames[frame].rigid

\* What Create asks of the rig before it computes anything.
ValidRig(rig) ==
  /\ BothCameras(rig)
  /\ SameNonzeroSize(rig)
  /\ \A s \in Sides : rig.cameras[s].distortion # "unsupported"
  /\ \A s \in Sides : RigidEdge(rig, Link(s))

Baseline(rig, left, right) ==
  [x |-> rig.frames[right].x - rig.frames[left].x,
   off |-> rig.frames[right].off - rig.frames[left].off]

\* The pair is rectified as it stands: nothing to undo, and the cameras look
\* the same way from places along one row.
IdentityFastPath(rig) ==
  /\ \A s \in Sides : rig.cameras[s].distortion = "none"
  /\ rig.cameras["left"].k = rig.cameras["right"].k
  /\ rig.frames["left_link"].yaw = rig.frames["right_link"].yaw
  /\ LET b == Baseline(rig, "left_link", "right_link") IN b.off = 0 /\ b.x # 0

\* The size of a rectified image: that of a raw one, unless the general path
\* crops it to the region valid in both (roi; 0 if there is none).
OutputSize(rig) ==
  IF IdentityFastPath(rig) \/ ~rig.crop THEN rig.cameras["left"].size ELSE rig.roi

\* The general path keeps a rig whose cameras stand side by side rather than
\* above one another (for those the baseline read off P2 is not the distance)
\* and see something in common.
GeneralPath(rig) ==
  LET b == Baseline(rig, "left_link", "right_link") IN
  Size(b.x) > Size(b.off) /\ OutputSize(rig) > 0

\* Create() returns a context.
Rectifiable(rig) == ValidRig(rig) /\ (IdentityFastPath(rig) \/ GeneralPath(rig))

\* stereoRectify turns both cameras to look at right angles to the line that
\* joins them (to first order) and gives them one focal length.
CommonYaw(rig) ==
  rig.frames["left_link"].yaw
    + (IF IdentityFastPath(rig) THEN 0
       ELSE Baseline(rig, "left_link", "right_link").off
              + rig.frames["right_link"].yaw - rig.frames["left_link"].yaw)

VirtualEdge(rig, side) ==
  [rig.frames[Link(side)] EXCEPT !.yaw = CommonYaw(rig), !.off = rig.frames["left_link"].off]

\* DerivedRig(): the raw rig with the two cameras replaced and two edges added
\* for the rectified frames; the raw links keep theirs.
DerivedRig(rig) ==
  LET virtual == [f \in {RectifiedFrame(s) : s \in Sides} |->
                    IF f = "left_rectified" THEN VirtualEdge(rig, "left")
                    ELSE VirtualEdge(rig, "right")]
  IN [rig EXCEPT
        !.cameras = [s \in Sides |-> [rig.cameras[s] EXCEPT !.k = rig.cameras["left"].k,
                                                            !.size = OutputSize(rig),
                                                            !.distortion = "none"]],
        !.frames = [f \in DOMAIN rig.frames \cup DOMAIN virtual |->
                      IF f \in DOMAIN virtual THEN virtual[f] ELSE rig.frames[f]]]

\* StereoGeometry::Resolve on frames of the two cameras: rows are aligned and
\* the right camera is to the right, so that disparities are positive.
Resolves(rig, left, right) ==
  /\ BothCameras(rig) /\ SameNonzeroSize(rig)
  /\ RigidEdge(rig, left) /\ RigidEdge(rig, right)
  /\ rig.frames[left].yaw = rig.frames[right].yaw
  /\ Baseline(rig, left, right).off = 0 /\ Baseline(rig, left, right).x > 0

\* Process(): a pair of MONO8 images of the calibrated size becomes a pair of
\* images of the rectified frames; any other pair is refused.
Rectify(rig, images) ==
  IF \A s \in Sides : images[s].mono /\ images[s].size = rig.cameras[s].size
  THEN [s \in Sides |-> [frame |-> RectifiedFrame(s), size |-> OutputSize(rig)]]
  ELSE [s \in {} |-> {}]
=============================================================================
