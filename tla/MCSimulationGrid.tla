-------------------------- MODULE MCSimulationGrid --------------------------
(***************************************************************************)
(* Instances of SimulationGrid for TLC: the base and the grid of main.go,  *)
(* and small grids that sweep what main.go does not.                       *)
(***************************************************************************)
EXTENDS SimulationGrid

AsWritten == [label \in {"", "run", "baseline", "ring"} |-> IF label = "" THEN "run" ELSE label]

\* Each segment of these grids but the first is of the form "field=value", in one order and
\* without "_" in it, so that the joined label is as good as its segments.
SegmentsTell(segments) == segments

Silent == {"SilentPrevote", "SilentPrecommit"}

MainBase ==
  [Label |-> "baseline", Powers |-> <<3, 2, 2, 1, 1, 1>>, Heights |-> 5, Seed |-> 0,
   DelayMinMs |-> 10, DelayMaxMs |-> 30, GossipJitter |-> 20000000,
   ProposalTimeout |-> 750000000, PrevoteTimeout |-> 650000000, PrecommitTimeout |-> 650000000,
   MaxTimeout |-> 0, Topology |-> "ring", NetworkWorkers |-> 0, LogNetwork |-> FALSE,
   Byzantine |-> [v \in {0} |-> Silent]]

NotPopulated == [f \in DOMAIN MainBase |-> <<>>]

MainGrid ==
  [NotPopulated EXCEPT !["Heights"] = <<5>>,
                       !["GossipJitter"] = <<25000000, 50000000, 75000000>>,
                       !["ProposalTimeout"] = <<400000000, 600000000>>,
                       !["PrevoteTimeout"] = <<400000000, 600000000>>,
                       !["PrecommitTimeout"] = <<400000000, 600000000>>,
                       !["Topology"] = <<"ring">>]

\* As main.go's, with half a millisecond more in one of the timeouts.
HalfMillisecondGrid == [MainGrid EXCEPT !["ProposalTimeout"] = <<400500000, 600000000>>]

\* One silent validator, here or there, and a single height, so that a run is over
\* within the second.
ByzantineGrid ==
  [NotPopulated EXCEPT !["Heights"] = <<1>>,
                       !["Byzantine"] = <<[v \in {4} |-> Silent], [v \in {5} |-> Silent]>>]

\* The least delay is varied, up to more than the largest delay of the base.
DelayGrid == [NotPopulated EXCEPT !["DelayMinMs"] = <<10, 40>>]
=============================================================================
