------------------------------- MODULE Submap -------------------------------
(***************************************************************************)
(* SubmapManager: what each keyframe contributes to the map, kept in the    *)
(* keyframe's own frame, and the pose that places it in the world.          *)
(*                                                                          *)
(* Poses lie on a line: a pose is a displacement, and a point is a pair of  *)
(* a place along that line and a direction, which a pose leaves alone.      *)
(***************************************************************************)
EXTENDS Integers, Sequences

Origin == 0

Apply(pose, point) == <<pose + point[1], point[2]>>

\* A keyframe nothing is known of yet.
NewKeyframe == [evidence |-> <<>>, pose |-> Origin, stale |-> FALSE]

Entry(map, id) == IF id \in DOMAIN map THEN map[id] ELSE NewKeyframe

WithEntry(map, id, entry) ==
  [k \in DOMAIN map \cup {id} |-> IF k = id THEN entry ELSE map[k]]

AddMapEvidence(map, evidence) ==
  LET entry == Entry(map, evidence.keyframe) IN
  WithEntry(map, evidence.keyframe,
            [entry EXCEPT !.evidence = Append(@, evidence)])

\* (Variant) takes every change of pose for a reason to build again.
UpdateKeyframePose_AlwaysStale(map, id, pose) ==
  WithEntry(map, id, [Entry(map, id) EXCEPT !.pose = pose, !.stale = TRUE])

\* Evidence that moves with the pose stays good; evidence that has to be built
\* again makes the keyframe stale.
UpdateKeyframePose(map, id, pose) ==
  LET entry == Entry(map, id) IN
  WithEntry(map, id,
    [entry EXCEPT !.pose = pose,
                  !.stale = @ \/ \E i \in DOMAIN entry.evidence :
                                   entry.evidence[i].policy = "full_refuse"])

StaleKeyframes(map) == {id \in DOMAIN map : map[id].stale}

\* The points of a keyframe, where its pose of now puts them.
WorldPointsForKeyframe(map, id) ==
  LET entry == Entry(map, id) IN
  UNION {{Apply(entry.pose, entry.evidence[i].points[p]) : p \in DOMAIN entry.evidence[i].points} :
           i \in DOMAIN entry.evidence}

WorldPoints(map) == UNION {WorldPointsForKeyframe(map, id) : id \in DOMAIN map}

Gap(a, b) == IF a >= b THEN a - b ELSE b - a

Distance(p, q) ==
  LET dx == Gap(p[1], q[1])  dy == Gap(p[2], q[2]) IN IF dx >= dy THEN dx ELSE dy

\* (Variant) leaves out a point that lies on the gate.
QueryNearestPoint_OpenGate(map, query, gate) ==
  {p \in WorldPoints(map) :
     /\ Distance(p, query) < gate
     /\ \A q \in WorldPoints(map) : Distance(p, query) <= Distance(q, query)}

\* What QueryNearestPoint may answer: a nearest point, if one lies within the
\* gate.  Among equally near ones the hash order of the keyframes decides.
QueryNearestPoint(map, query, gate) ==
  {p \in WorldPoints(map) :
     /\ Distance(p, query) <= gate
     /\ \A q \in WorldPoints(map) : Distance(p, query) <= Distance(q, query)}
=============================================================================
