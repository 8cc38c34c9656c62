--------------------------- MODULE SimulationGrid ---------------------------
(***************************************************************************)
(* RunSimulationGrid: a depth-first walk over the options of the populated *)
(* dimensions, one RunSimulation per combination, and the files each of    *)
(* them leaves in the summary directories.  A configuration is a function  *)
(* from the fields of SimulationConfig; durations are in nanoseconds.      *)
(***************************************************************************)
EXTENDS Integers, FiniteSets, SequencesExt

\* The fields in the order buildGridChoices looks at them.
Fields ==
  <<"Label", "Powers", "Heights", "Seed", "DelayMinMs", "DelayMaxMs", "GossipJitter",
    "ProposalTimeout", "PrevoteTimeout", "PrecommitTimeout", "MaxTimeout", "Topology",
    "NetworkWorkers", "LogNetwork", "Byzantine">>

StageTimeouts == {"ProposalTimeout", "PrevoteTimeout", "PrecommitTimeout"}
Durations == StageTimeouts \cup {"GossipJitter", "MaxTimeout"}

CONSTANTS
  Base,       \* the configuration that the grid varies
  Grid,       \* a sequence of options for each field, empty if not populated
  Sanitized,  \* what sanitizeLabel makes of each label and each topology
  Joined(_),  \* strings.Join of the segments of a label
  MaxSecond   \* bound on the seconds that pass

ASSUME GridAssumption ==
  /\ DOMAIN Base = Range(Fields)
  /\ \A f \in Range(Fields) : Grid[f] \in Seq(Range(Grid[f]))
  /\ {Base["Label"]} \cup Range(Grid["Label"]) \cup Range(Grid["Topology"])
       \subseteq DOMAIN Sanitized
  /\ MaxSecond \in Nat

VARIABLES
  chosen,   \* the option taken at each level of the walk so far, or next to be taken
  results,  \* the RunArtifacts
  files,    \* metadata under each base name, and the run that wrote them last
  used,     \* history: the configuration each result was computed with
  second,   \* the wall clock, as far as base names show it
  ended     \* "" while the walk goes on, then "done" or "error"

vars == <<chosen, results, files, used, second, ended>>

Populated == {f \in Range(Fields) : Grid[f] # <<>>}

\* The dimensions of buildGridChoices: the populated fields, in their order.
Dimensions ==
  LET at == {i \in DOMAIN Fields : Fields[i] \in Populated}
  IN  [l \in 1 .. Cardinality(at) |->
         Fields[CHOOSE i \in at : Cardinality({j \in at : j <= i}) = l]]

Millisecond == 1000000

\* Duration.Milliseconds, which drops what is below a millisecond.
Milliseconds(d) == IF d < 0 THEN -((-d) \div Millisecond) ELSE d \div Millisecond

OptionAt(level, path) == Grid[Dimensions[level]][path[level]]

\* Fault: one of the timeouts does not show in the label.
OptionLabelIncomplete(f, value) ==
  IF f = "PrevoteTimeout" THEN <<f>> ELSE <<f, value>>

\* The label of an option, which names the field: whole milliseconds of a duration, the
\* number of validators that a Byzantine variant configures, names as sanitizeLabel makes
\* them (and a second time in combineLabel, to no effect).
OptionLabel(f, value) ==
  CASE f \in Durations              -> <<f, Milliseconds(value)>>
    [] f = "Byzantine"              -> <<f, Cardinality(DOMAIN value)>>
    [] f \in {"Label", "Topology"}  -> <<f, Sanitized[value]>>
    [] OTHER                        -> <<f, value>>

\* labelParts at the end of a path.
LabelParts(path) ==
  [l \in DOMAIN Dimensions |-> OptionLabel(Dimensions[l], OptionAt(l, path))]

\* The segments of combineLabel.
Segments(base, parts) ==
  LET all == (IF base = "" THEN <<>> ELSE <<<<"Label", Sanitized[base]>>>>) \o parts
  IN  IF all = <<>> THEN <<<<"Label", "run">>>> ELSE all

CombineLabel(base, parts) == Joined(Segments(base, parts))

\* The configuration at the end of a path: option.apply of each level, then the label.
\* (Without dimensions the code takes the base's label, or "run", and sanitizes it for the
\* names of the files only; here it is sanitized at once.)
ConfigAt(path) ==
  [f \in Range(Fields) |->
     IF f = "Label" THEN CombineLabel(Base["Label"], LabelParts(path))
     ELSE IF \E l \in DOMAIN Dimensions : Dimensions[l] = f
     THEN OptionAt(CHOOSE l \in DOMAIN Dimensions : Dimensions[l] = f, path)
     ELSE Base[f]]

\* Defaults for what is not positive.
WithDefaults(cfg) ==
  [cfg EXCEPT !["Heights"] = IF @ <= 0 THEN 1 ELSE @,
              !["NetworkWorkers"] = IF @ <= 0 THEN 8 ELSE @]

\* A seed of zero asks for the time, which is here no finer than `now`.
SeedOf(cfg, now) == IF cfg["Seed"] = 0 THEN now ELSE cfg["Seed"]

Hundredth == 10000

\* The hundredths of a millisecond nearest to a duration, the last digits of "%.2f"; which
\* of two that are as near is a matter of floating point.
Hundredths(d) ==
  LET below == Hundredth * (d \div Hundredth)
  IN  {h \in {below, below + Hundredth} : 2 * (d - h) \in -Hundredth .. Hundredth}

\* Fault: the seed that was drawn is not put into the configuration.
MetadataUnseeded(cfg, now, jitter) ==
  [f \in DOMAIN cfg |->
     CASE f \in Durations \ {"GossipJitter"} -> Millisecond * Milliseconds(cfg[f])
       [] f = "GossipJitter"                 -> jitter
       [] OTHER                              -> WithDefaults(cfg)[f]]

\* What writeMetadataFile writes for the configuration of a run: whole milliseconds of the
\* timeouts, and the jitter rounded to one of its hundredths.
Metadata(cfg, now, jitter) ==
  [f \in DOMAIN cfg |->
     CASE f \in Durations \ {"GossipJitter"} -> Millisecond * Milliseconds(cfg[f])
       [] f = "GossipJitter"                 -> jitter
       [] f = "Seed"                         -> SeedOf(cfg, now)
       [] OTHER                              -> WithDefaults(cfg)[f]]

DefaultTimeout == 200000000

\* What the run is carried out with: also an inverted range of delays is mended, and
\* SetTimeouts leaves timeouts at the default of NewNode.
Effective(cfg, now) ==
  LET full == WithDefaults(cfg)
  IN  [f \in DOMAIN full |->
         CASE f \in StageTimeouts -> IF full[f] <= 0 THEN DefaultTimeout ELSE full[f]
           [] f = "DelayMaxMs"    -> IF full[f] < full["DelayMinMs"]
                                     THEN full["DelayMinMs"] ELSE full[f]
           [] f = "Seed"          -> SeedOf(cfg, now)
           [] OTHER               -> full[f]]

Init ==
  /\ chosen = <<1>>
  /\ results = <<>> /\ files = <<>> /\ used = <<>>
  /\ second \in 1 .. MaxSecond
  /\ ended = ""
-----------------------------------------------------------------------------
AtLeaf == Len(chosen) > Len(Dimensions)

\* Fault: the option above is taken for the last one.
BacktrackedTwice ==
  LET up == Front(chosen)
  IN  IF up = <<>> THEN <<>> ELSE [up EXCEPT ![Len(up)] = @ + 2]

\* Back to the level above, with its next option.
Backtracked ==
  LET up == Front(chosen)
  IN  IF up = <<>> THEN <<>> ELSE [up EXCEPT ![Len(up)] = @ + 1]

Descend ==
  /\ ended = "" /\ ~AtLeaf
  /\ chosen[Len(chosen)] <= Len(Grid[Dimensions[Len(chosen)]])
  /\ chosen' = Append(chosen, 1)
  /\ UNCHANGED <<results, files, used, second, ended>>

\* All options of a level are done; after those of the first the walk is over.
Backtrack ==
  /\ ended = "" /\ ~AtLeaf
  /\ chosen[Len(chosen)] > Len(Grid[Dimensions[Len(chosen)]])
  /\ chosen' = Backtracked
  /\ ended' = IF chosen' = <<>> THEN "done" ELSE ""
  /\ UNCHANGED <<results, files, used, second>>

\* A run takes any time.  Its files are named by the second in which it is over,
\* and replace files of the same name (os.Create).
RunSimulation ==
  LET cfg == ConfigAt(Front(chosen))
  IN  /\ ended = "" /\ AtLeaf /\ cfg["Powers"] # <<>>
      /\ second' \in second .. MaxSecond
      /\ LET name == <<second', cfg["Label"]>>
         IN  /\ \E jitter \in Hundredths(cfg["GossipJitter"]) :
                  files' = [n \in DOMAIN files \cup {name} |->
                              IF n = name
                              THEN [Config |-> Metadata(cfg, second, jitter),
                                    run |-> Len(results) + 1]
                              ELSE files[n]]
             /\ results' = Append(results, [Config |-> cfg, Summary |-> name])
      /\ used' = Append(used, Effective(cfg, second))
      /\ chosen' = Backtracked
      /\ ended' = IF chosen' = <<>> THEN "done" ELSE ""

\* A run without validators, or whose first file cannot be created, ends the walk,
\* and what was found so far is not returned.
Fail ==
  /\ ended = "" /\ AtLeaf
  /\ ended' = "error"
  /\ results' = <<>> /\ used' = <<>>
  /\ UNCHANGED <<chosen, files, second>>

Next == Descend \/ Backtrack \/ RunSimulation \/ Fail

Spec == Init /\ [][Next]_vars
-----------------------------------------------------------------------------
\* The Cartesian product of the populated dimensions, by the indices of options.
Combinations ==
  LET longest == Max({Len(Grid[f]) : f \in Populated} \cup {1})
  IN  {c \in [Populated -> 1 .. longest] : \A f \in Populated : c[f] <= Len(Grid[f])}

\* A configuration has the options of a combination and is the base elsewhere.
Realizes(cfg, c) ==
  \A f \in Range(Fields) \ {"Label"} :
    cfg[f] = IF f \in Populated THEN Grid[f][c[f]] ELSE Base[f]

\* RunSimulationGrid returns one artifact for each combination of the populated
\* dimensions, each once, or, after an error, none at all.
ProductCovered ==
  ended # "" =>
    \/ ended = "error" /\ results = <<>>
    \/ /\ Len(results) = Cardinality(Combinations)
       /\ \A c \in Combinations : \E i \in DOMAIN results : Realizes(results[i].Config, c)

\* The comment of RunArtifact: the paths lead to the reports of the run.  No later
\* run of the grid has replaced the files (base names have a resolution of a second,
\* so it is up to the labels to tell runs apart).
ArtifactsKept ==
  \A i \in DOMAIN results : files[results[i].Summary].run = i

\* The comment of writeMetadataFile: the file says exactly which parameters produced the
\* run.  It does for durations that it can write, whole milliseconds and hundredths of them.
MetadataExact ==
  \A i \in DOMAIN results :
    files[results[i].Summary].run = i => files[results[i].Summary].Config = used[i]

\* The comment of RunArtifact: it records the exact configuration.
ArtifactExact == \A i \in DOMAIN results : results[i].Config = used[i]
=============================================================================
