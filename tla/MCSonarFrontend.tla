--------------------------- MODULE MCSonarFrontend ---------------------------
(* Model-checking instance of SonarFrontend: small frames whose beams are     *)
(* silent, loud near, loud far or loud twice, and one frame per special case. *)
EXTENDS SonarFrontend

Config(variant, factor, minSamples) ==
  [variant |-> variant, train |-> 1, guard |-> 0, factor |-> factor, rank |-> 1, floor |-> 2,
   epsSquared |-> 2, minSamples |-> minSamples, hashConsistent |-> TRUE, maxBackground |-> 3,
   maxDensity |-> 50, minValid |-> 1, maxLatency |-> 1]

MCConfigs ==
  {Config("SOCA", 2, 3), Config("GOCA", 2, 3), [Config("CA", 2, 2) EXCEPT !.guard = 1],
   [Config("OS", 2, 4) EXCEPT !.epsSquared = 4, !.hashConsistent = FALSE]}

\* The rows of a beam; the first and the last never have a full window.
Silent == <<1, 1, 1, 1, 1, 1>>
Close == <<1, 9, 1, 1, 1, 1>>
Middle == <<1, 1, 9, 1, 1, 1>>
Distant == <<1, 1, 1, 1, 9, 1>>
Twice == <<1, 1, 9, 1, 9, 1>>
Ramp == <<9, 9, 9, 9, 9, 9>>
Faint == <<0, 0, 2, 0, 0, 0>>
Edges == <<9, 1, 1, 1, 1, 9>>

Frame(beams, azimuth) ==
  [azimuth |-> azimuth, ranges |-> <<0, 1, 2, 3, 4, 5>>,
   intensity |-> [row \in 1 .. 6 |-> [col \in DOMAIN beams |-> beams[col][row]]]]

FourBeams == [1 .. 4 -> {Silent, Close, Distant}]

\* Seven contacts of which the fourth lies beside two clusters.
Shared == <<Close, Close, Middle, Close, Middle, Close, Close>>

MCDurations == {-1, 2}

MCFrames ==
  {Frame(b, <<-1, 0, 1, 2>>) : b \in FourBeams}
    \cup {Frame(b, <<-1, 0, 1, 2>>) : b \in {<<Ramp, Ramp, Silent, Close>>, <<Twice, Twice, Close, Silent>>,
                                              <<Faint, Edges, Faint, Edges>>}}
    \cup {Frame(<<Close, Close>>, az) : az \in {<<1, 1>>, <<0, NaN>>, <<2, 1>>}}
    \cup {Frame(Shared, <<-3, -2, -1, 0, 1, 2, 3>>), Frame(<<>>, <<>>)}
=============================================================================
