----------------------------- MODULE OtaProofs ------------------------------
(***************************************************************************)
(* Proofs about Ota, for any set of sound descriptions, any number of      *)
(* releases, power cuts and faults: the device can be started at every     *)
(* moment, what runs does not change under it, seen from outside the       *)
(* updates follow one another (DeviceUpdate), the recovery system is never *)
(* left without a stage to run, and no comparison fails by itself.         *)
(*                                                                         *)
(* The argument: what would be booted, and what runs, belongs to the stage *)
(* that swu_mode names (PlaceInv), and a sound stage does not write there; *)
(* background writers exist only for volumes of that stage (WriterInv);    *)
(* when the variables are set, every volume the stage delivers holds the   *)
(* new release (PlainInv, FifoInv), whatever was cut and run again before. *)
(***************************************************************************)
EXTENDS Ota, TLAPS

Updating == env.mode # ""
Cur      == desc.stages[env.mode]

\* The release that would be booted.
Current == IF Updating /\ Cur.on = "old" THEN release - 1 ELSE release

PlaceInv ==
    /\ Whole(Booted, Current)
    /\ VolumesOf(Booted) \subseteq Volumes
    /\ Updating =>
          /\ Booted \in Cur.in
          /\ Cur.on = "old" => release > 1
          /\ \A v \in Sources(Cur) : vol[v] = release
          /\ pc # "after" => running \in Cur.in \cup {Off}
    /\ ~Updating =>
          /\ pc \in {"idle", "after"}
          /\ pc = "idle" => running \in {Booted, Off}
    /\ pc # "idle" => running # Off
    /\ pc = "after" =>
          /\ running \in stage.in
          /\ stage.mode = env.mode
          /\ ~stage.reboot => Updating /\ stage.in \subseteq Cur.in
    /\ pc \notin {"idle", "after"} => mode = env.mode

WriterInv == \A v \in Volumes :
    /\ writer[v] = "open" <=> node[v] = "fifo"
    /\ writer[v] = "open" => vol[v] = Torn
    /\ writer[v] = "starting" => pc = "pre_test"
    /\ writer[v] # "none" =>
          /\ Updating /\ Cur.fifo /\ v \in Written(Cur)
          /\ pc \notin {"set", "after"}

V(j) == stage.steps[j].vol

\* Step j is behind: what it delivers is there, ...
Done(j) == Delivers(stage.steps[j], stage, Booted) => vol[V(j)] = release

\* ... or the writer has it and needs no more than the zeros, or the second script
\* will find a plain file.
Given(j) == Delivers(stage.steps[j], stage, Booted) =>
    vol[V(j)] = release \/ (writer[V(j)] = "open" /\ got[V(j)] = release) \/ node[V(j)] = "file"

\* A volume whose writer waits for an image.
Waits(j, what) == node[V(j)] = "file" \/ (writer[V(j)] = "open" /\ got[V(j)] = what)

PlainInv ==
    /\ pc \in {"step", "writing"} /\ ~stage.fifo => \A j \in 1 .. i - 1 : Done(j)
    /\ pc = "set" => \A j \in 1 .. Last : Done(j)

FifoInv ==
    /\ pc \in {"pre_look", "pre_pad", "pre_test", "post_look", "post_pad", "post_test"} =>
          stage.fifo
    /\ pc \in {"pre_look", "pre_pad"} => \A j \in 1 .. i - 1 : writer[V(j)] # "open"
    /\ pc = "pre_test" =>
          /\ \A j \in 1 .. Last : writer[V(j)] = "open" => got[V(j)] = Nothing
          /\ \A j \in 1 .. i - 1 : node[V(j)] # "none"
    /\ pc \in {"step", "writing"} /\ stage.fifo =>
          /\ \A j \in 1 .. i - 1 : Given(j)
          /\ \A j \in i .. Last :
                Waits(j, IF pc = "writing" /\ j = i THEN Part ELSE Nothing)
    /\ pc \in {"post_look", "post_pad", "post_test"} => \A j \in 1 .. Last : Given(j)
    /\ pc = "post_test" => \A j \in 1 .. i - 1 : node[V(j)] = "none"

PcInv ==
    /\ pc \in {"pre_pad", "writing", "post_pad"} => i <= Last
    /\ pc = "writing" => Writes(step)

IInv == TypeOK /\ PlaceInv /\ WriterInv /\ PlainInv /\ FifoInv /\ PcInv
-----------------------------------------------------------------------------
(* What a sound description promises of each of its stages. *)
LEMMA StageFacts ==
    ASSUME NEW d, Sound(d), NEW m \in DOMAIN d.stages
    PROVE  /\ m # ""
           /\ Apart(d.stages[m])
           /\ WellFormed(d.stages[m], d.volumes)
           /\ Len(d.stages[m].steps) \in Nat
           /\ DOMAIN d.stages[m].steps = 1 .. Len(d.stages[m].steps)
           /\ \A j \in 1 .. Len(d.stages[m].steps) :
                 d.stages[m].steps[j] \in StepsOn(d.volumes)
           /\ Written(d.stages[m]) \subseteq d.volumes
           /\ Sources(d.stages[m]) \subseteq d.volumes
<1>1. m # "" /\ Apart(d.stages[m]) /\ WellFormed(d.stages[m], d.volumes)
      BY DEF Sound
<1>2. d.stages[m].steps \in Seq(StepsOn(d.volumes))
      BY <1>1 DEF WellFormed
<1>3. /\ Len(d.stages[m].steps) \in Nat
      /\ DOMAIN d.stages[m].steps = 1 .. Len(d.stages[m].steps)
      /\ \A j \in 1 .. Len(d.stages[m].steps) :
            d.stages[m].steps[j] \in StepsOn(d.volumes)
      BY <1>2
<1>4. /\ Written(d.stages[m]) \subseteq d.volumes
      /\ Sources(d.stages[m]) \subseteq d.volumes
      BY <1>3 DEF Written, Sources, StepsOn
<1>. QED BY <1>1, <1>3, <1>4

LEMMA SystemFacts ==
    ASSUME NEW d, Sound(d), NEW m \in DOMAIN d.stages, NEW s \in d.stages[m].in
    PROVE  /\ s \in [boot : STRING, root : STRING]
           /\ VolumesOf(s) \subseteq d.volumes
           /\ VolumesOf(s) \cap Written(d.stages[m]) = {}
           /\ Switches(d.stages[m], s) /\ Rescues(d.stages[m], s)
           /\ IF d.stages[m].mode = "" THEN Concludes(d.stages[m], s)
              ELSE /\ d.stages[m].mode \in DOMAIN d.stages
                   /\ Follows(d.stages[m], d.stages[d.stages[m].mode], s)
<1>1. WellFormed(d.stages[m], d.volumes) /\ Apart(d.stages[m])
      BY DEF Sound
<1>2. s \in [boot : STRING, root : STRING] /\ VolumesOf(s) \subseteq d.volumes
      BY <1>1 DEF WellFormed
<1>3. VolumesOf(s) \cap Written(d.stages[m]) = {}
      BY <1>1 DEF Apart
<1>. QED BY <1>2, <1>3 DEF Sound

\* No two steps write the same volume, and a fifo stage consists of such steps.
LEMMA OneWriter ==
    ASSUME NEW d, Sound(d), NEW m \in DOMAIN d.stages,
           NEW j \in 1 .. Len(d.stages[m].steps), NEW k \in 1 .. Len(d.stages[m].steps)
    PROVE  /\ j < k /\ Writes(d.stages[m].steps[k]) =>
                 d.stages[m].steps[j].vol # d.stages[m].steps[k].vol
           /\ d.stages[m].fifo => Writes(d.stages[m].steps[j])
           /\ d.stages[m].fifo /\ j # k =>
                 d.stages[m].steps[j].vol # d.stages[m].steps[k].vol
           /\ Writes(d.stages[m].steps[j]) =>
                 d.stages[m].steps[j].vol \in Written(d.stages[m])
<1>1. /\ DOMAIN d.stages[m].steps = 1 .. Len(d.stages[m].steps)
      /\ Len(d.stages[m].steps) \in Nat
      /\ Apart(d.stages[m])
      BY StageFacts
<1>2. /\ j < k /\ Writes(d.stages[m].steps[k]) =>
            d.stages[m].steps[j].vol # d.stages[m].steps[k].vol
      /\ k < j /\ Writes(d.stages[m].steps[j]) =>
            d.stages[m].steps[j].vol # d.stages[m].steps[k].vol
      BY <1>1 DEF Apart
<1>3. d.stages[m].fifo =>
            Writes(d.stages[m].steps[j]) /\ Writes(d.stages[m].steps[k])
      BY <1>1 DEF Apart
<1>4. Writes(d.stages[m].steps[j]) => d.stages[m].steps[j].vol \in Written(d.stages[m])
      BY <1>1 DEF Written
<1>5. j < k \/ k < j \/ j = k
      BY <1>1
<1>. QED BY <1>2, <1>3, <1>4, <1>5

\* The stage that runs, and the step it is at.
LEMMA AtStage ==
    ASSUME TypeOK, PlaceInv, pc \notin {"idle", "failed"}
    PROVE  /\ Sound(desc) /\ mode \in DOMAIN desc.stages
           /\ pc # "after" => mode = env.mode /\ Updating /\ stage = Cur
           /\ Last \in Nat /\ i \in 1 .. Last + 1 /\ DOMAIN stage.steps = 1 .. Last
           /\ \A j \in 1 .. Last :
                 /\ stage.steps[j] \in StepsOn(Volumes)
                 /\ V(j) \in Volumes
                 /\ Writes(stage.steps[j]) => V(j) \in Written(stage)
           /\ i <= Last => step \in StepsOn(Volumes) /\ step.vol \in Volumes
<1>1. Sound(desc) /\ mode \in DOMAIN desc.stages /\ i \in 1 .. Last + 1
      BY OtaAssumption DEF TypeOK
<1>2. mode # ""
      BY <1>1, StageFacts
<1>3. pc # "after" => mode = env.mode /\ Updating /\ stage = Cur
      BY <1>2 DEF PlaceInv, Updating, stage, Cur
<1>4. /\ Last \in Nat /\ DOMAIN stage.steps = 1 .. Last
      /\ \A j \in 1 .. Last : stage.steps[j] \in StepsOn(Volumes)
      BY <1>1, StageFacts DEF Last, stage, Volumes
<1>5. \A j \in 1 .. Last : V(j) \in Volumes
      BY <1>4 DEF V, StepsOn
<1>6. \A j \in 1 .. Last : Writes(stage.steps[j]) => V(j) \in Written(stage)
      BY <1>4 DEF V, Written
<1>7. i <= Last => step \in StepsOn(Volumes) /\ step.vol \in Volumes
      BY <1>1, <1>4, <1>5 DEF step, V
<1>. QED BY <1>1, <1>3, <1>4, <1>5, <1>6, <1>7
-----------------------------------------------------------------------------
LEMMA EndsVolume ==
    ASSUME TypeOK, NEW v \in Volumes, Ends(v)
    PROVE  /\ vol' \in [Volumes -> Torn .. MaxRelease]
           /\ \A w \in Volumes : w # v => vol'[w] = vol[w]
           /\ vol'[v] = IF got[v] < 0 THEN Torn ELSE got[v]
<1>1. got[v] \in Part .. MaxRelease
      BY DEF TypeOK
<1>2. (IF got[v] < 0 THEN Torn ELSE got[v]) \in Torn .. MaxRelease
      BY <1>1, OtaAssumption DEF Torn, Part
<1>3. vol \in [Volumes -> Torn .. MaxRelease]
      BY DEF TypeOK
<1>. QED BY <1>2, <1>3 DEF Ends

LEMMA ResultType ==
    ASSUME TypeOK, i <= Last, step \in StepsOn(Volumes)
    PROVE  Result \in Torn .. MaxRelease
<1>0. release \in 1 .. MaxRelease
      BY DEF TypeOK
<1>1. release \in Torn .. MaxRelease /\ Torn \in Torn .. MaxRelease
      BY <1>0, OtaAssumption DEF Torn
<1>2. vol \in [Volumes -> Torn .. MaxRelease]
      BY DEF TypeOK
<1>3. step.from \in Volumes
      BY DEF StepsOn
<1>. QED BY <1>1, <1>2, <1>3 DEF Result

(* Steps write only volumes of the stage that swu_mode names. *)
LEMMA Touched ==
    ASSUME IInv, Next
    PROVE  /\ desc' = desc
           /\ vol' \in [Volumes -> Torn .. MaxRelease]
           /\ \A v \in Volumes : vol'[v] # vol[v] =>
                 Updating /\ pc \notin {"set", "after"} /\ v \in Written(Cur)
<1>. USE DEF IInv
<1>1. vol \in [Volumes -> Torn .. MaxRelease]
      BY DEF TypeOK
<1>2. CASE UNCHANGED <<desc, vol>>
      BY <1>1, <1>2
<1>3. CASE OpenVolume \/ CloseVolume
  <2>1. pc \in {"step", "writing"} /\ desc' = desc
        BY <1>3 DEF OpenVolume, CloseVolume
  <2>2. i <= Last /\ Writes(step)
        BY <1>3 DEF OpenVolume, CloseVolume, PcInv
  <2>3. /\ step.vol \in Volumes /\ step.vol \in Written(Cur) /\ Updating
        /\ step \in StepsOn(Volumes)
        BY <2>1, <2>2, AtStage DEF V, step
  <2>4. Torn \in Torn .. MaxRelease /\ Result \in Torn .. MaxRelease
        BY <2>2, <2>3, ResultType, OtaAssumption DEF Torn
  <2>5. \/ UNCHANGED vol
        \/ vol' = [vol EXCEPT ![step.vol] = Torn]
        \/ vol' = [vol EXCEPT ![step.vol] = Result]
        BY <1>3 DEF OpenVolume, CloseVolume
  <2>. QED BY <1>1, <2>1, <2>3, <2>4, <2>5
<1>4. CASE Pad
  <2>1. pc \in {"pre_pad", "post_pad"} /\ desc' = desc
        BY <1>4 DEF Pad
  <2>2. i <= Last
        BY <2>1 DEF PcInv
  <2>3. step.vol \in Volumes /\ Updating
        BY <2>1, <2>2, AtStage
  <2>4. CASE writer[step.vol] = "open"
        BY <1>4, <2>1, <2>3, <2>4, EndsVolume DEF Pad, WriterInv
  <2>5. CASE writer[step.vol] # "open"
        BY <1>1, <1>4, <2>1, <2>5 DEF Pad
  <2>. QED BY <2>4, <2>5
<1>5. ASSUME NEW v \in Volumes, WriterOpens(v)
      PROVE  /\ desc' = desc
             /\ vol' = [vol EXCEPT ![v] = Torn]
             /\ Updating /\ pc \notin {"set", "after"} /\ v \in Written(Cur)
      BY <1>5 DEF WriterOpens, WriterInv
<1>6. ASSUME NEW v \in Volumes, WriterFull(v)
      PROVE  /\ desc' = desc /\ Ends(v)
             /\ Updating /\ pc \notin {"set", "after"} /\ v \in Written(Cur)
      BY <1>6 DEF WriterFull, WriterInv
<1>7. Torn \in Torn .. MaxRelease
      BY OtaAssumption DEF Torn
<1>8. CASE \E v \in Volumes : WriterOpens(v)
      BY <1>1, <1>5, <1>7, <1>8
<1>9. CASE \E v \in Volumes : WriterFull(v)
      BY <1>6, <1>9, EndsVolume
<1>. QED
  <2>1. CASE Begin \/ StepFault \/ Retry \/ PowerCut \/ Boot
        BY <1>2, <2>1 DEF Begin, StepFault, Retry, PowerCut, Boot, Down
  <2>2. CASE Start \/ Compare \/ StepsDone \/ SetEnv
        BY <1>2, <2>2 DEF Start, Compare, StepsDone, SetEnv
  <2>3. CASE Look \/ StartWriters \/ Test \/ PostPadded
        BY <1>2, <2>3 DEF Look, StartWriters, Test, PostPadded
  <2>4. CASE Handover
        BY <1>2, <2>4 DEF Handover, Down
  <2>5. CASE \E v \in Volumes : WriterDies(v)
        BY <1>2, <2>5 DEF WriterDies
  <2>. QED BY <1>3, <1>4, <1>8, <1>9, <2>1, <2>2, <2>3, <2>4, <2>5
           DEF Next, Swupdate, Writer
-----------------------------------------------------------------------------
(* What would be booted, what runs and what is copied stays as it is. *)
LEMMA Kept ==
    ASSUME IInv, Next
    PROVE  /\ \A v \in VolumesOf(Booted) : vol'[v] = vol[v]
           /\ Updating => \A v \in Sources(Cur) : vol'[v] = vol[v]
           /\ running # Off => \A v \in VolumesOf(running) : vol'[v] = vol[v]
<1>1. ASSUME Updating
      PROVE  /\ Sound(desc) /\ env.mode \in DOMAIN desc.stages
             /\ Booted \in Cur.in /\ Apart(Cur)
             /\ Sources(Cur) \subseteq Volumes
             /\ pc # "after" => running \in Cur.in \cup {Off}
  <2>1. Sound(desc) /\ env.mode \in DOMAIN desc.stages
        BY <1>1, OtaAssumption DEF IInv, TypeOK, Updating
  <2>. QED BY <1>1, <2>1, StageFacts DEF IInv, PlaceInv, Cur, Volumes
<1>2. /\ VolumesOf(Booted) \subseteq Volumes
      /\ running # Off => VolumesOf(running) \subseteq Volumes
      BY DEF IInv, PlaceInv, TypeOK
<1>3. \A v \in VolumesOf(Booted) : vol'[v] = vol[v]
      BY <1>1, <1>2, Touched DEF Apart
<1>4. Updating => \A v \in Sources(Cur) : vol'[v] = vol[v]
      BY <1>1, Touched DEF Apart
<1>5. running # Off => \A v \in VolumesOf(running) : vol'[v] = vol[v]
      BY <1>1, <1>2, Touched DEF Apart
<1>. QED BY <1>3, <1>4, <1>5

(* A step that leaves the variables, and what runs, as they are. *)
LEMMA PlaceStays ==
    ASSUME IInv, Next, UNCHANGED <<env, release, running>>,
           pc # "after", pc' # "after",
           pc' # "idle" => Updating /\ running # Off /\ mode' = env.mode,
           pc' = "idle" => pc = "idle" \/ Updating
    PROVE  PlaceInv'
<1>1. /\ Booted' = Booted /\ Updating' = Updating /\ Cur' = Cur
      /\ Current' = Current /\ Volumes' = Volumes
      BY Touched DEF Booted, Updating, Cur, Current, Volumes
<1>2. Whole(Booted, Current)' 
      BY <1>1, Kept DEF IInv, PlaceInv, Whole
<1>3. Updating => \A v \in Sources(Cur) : vol'[v] = release
      BY Kept DEF IInv, PlaceInv
<1>4. VolumesOf(Booted)' \subseteq Volumes'
      BY <1>1 DEF IInv, PlaceInv
<1>5. (Updating =>
          /\ Booted \in Cur.in
          /\ Cur.on = "old" => release > 1
          /\ \A v \in Sources(Cur) : vol[v] = release
          /\ pc # "after" => running \in Cur.in \cup {Off})'
      BY <1>1, <1>3 DEF IInv, PlaceInv, Off
<1>6. (~Updating =>
          /\ pc \in {"idle", "after"}
          /\ pc = "idle" => running \in {Booted, Off})'
      BY <1>1 DEF IInv, PlaceInv, Off
<1>7. (pc # "idle" => running # Off)' /\ (pc \notin {"idle", "after"} => mode = env.mode)'
      BY DEF Off
<1>. QED BY <1>2, <1>4, <1>5, <1>6, <1>7 DEF PlaceInv

LEMMA BeginPlace ==
    ASSUME IInv, Begin
    PROVE  PlaceInv'
<1>1. PICK b \in desc.begins :
          /\ b[1] = running
          /\ release' = vol[running.boot] + 1
          /\ env' = [env EXCEPT !.mode = b[2]]
      BY DEF Begin
<1>2. /\ ~Updating /\ pc = "idle" /\ pc' = "idle" /\ running = Booted
      /\ UNCHANGED <<desc, vol, running>> /\ running # Off
      BY DEF Begin, Updating, IInv, PlaceInv, swuVars
<1>3. Sound(desc)
      BY OtaAssumption DEF IInv, TypeOK
<1>4. /\ b[2] \in DOMAIN desc.stages /\ b[2] # "" /\ b[1] \in desc.stages[b[2]].in
      /\ desc.stages[b[2]].on = "old" /\ Sources(desc.stages[b[2]]) = {}
      BY <1>3 DEF Sound
<1>5. /\ env'.mode = b[2] /\ env'.boot = env.boot /\ env'.root = env.root
      BY <1>1 DEF IInv, TypeOK
<1>6. Booted' = Booted /\ Updating' /\ Cur' = desc.stages[b[2]] /\ Volumes' = Volumes
      BY <1>2, <1>4, <1>5 DEF Booted, Updating, Cur, Volumes
<1>7. Whole(Booted, release) /\ VolumesOf(Booted) \subseteq Volumes
      BY <1>2 DEF IInv, PlaceInv, Current
<1>8. running.boot \in VolumesOf(running)
      BY DEF VolumesOf
<1>9. release \in Nat /\ release > 0
  <2>1. release \in 1 .. MaxRelease
        BY DEF IInv, TypeOK
  <2>. QED BY <2>1, OtaAssumption
<1>10. vol[running.boot] = release /\ release' = release + 1
      BY <1>1, <1>2, <1>7, <1>8 DEF Whole
<1>11. release' - 1 = release /\ release' > 1
      BY <1>9, <1>10
<1>12. Updating' /\ Cur'.on = "old"
      BY <1>4, <1>6
<1>13. Current' = release
      BY <1>11, <1>12 DEF Current
<1>14. Whole(Booted, Current)'
      BY <1>2, <1>6, <1>7, <1>13 DEF Whole
<1>15. Booted' \in Cur'.in /\ running' \in Cur'.in /\ Sources(Cur') = {}
      BY <1>1, <1>2, <1>4, <1>6
<1>. QED BY <1>2, <1>6, <1>7, <1>11, <1>12, <1>14, <1>15 DEF PlaceInv

(* Everything a finished stage delivers holds the new release. *)
LEMMA DeliveredRelease ==
    ASSUME IInv, pc = "set"
    PROVE  \A v \in Delivered(stage, Booted) : vol[v] = release
<1>1. DOMAIN stage.steps = 1 .. Last
      BY AtStage DEF IInv
<1>2. \A j \in 1 .. Last : Done(j)
      BY DEF IInv, PlainInv
<1>. QED BY <1>1, <1>2 DEF Delivered, Done, V

LEMMA SetEnvPlace ==
    ASSUME IInv, SetEnv
    PROVE  PlaceInv'
<1>1. /\ pc = "set" /\ pc' = "after"
      /\ UNCHANGED <<desc, vol, running, release, mode>>
      /\ env' = [mode |-> stage.mode, boot |-> Left(env.boot, stage.boot),
                 root |-> Left(env.root, stage.root)]
      BY DEF SetEnv
<1>2. /\ Sound(desc) /\ mode \in DOMAIN desc.stages /\ mode = env.mode
      /\ Updating /\ stage = Cur
      BY <1>1, AtStage DEF IInv
<1>3. /\ Booted \in stage.in /\ running \in stage.in /\ running # Off
      /\ Whole(Booted, Current) /\ VolumesOf(Booted) \subseteq Volumes
      /\ \A v \in Sources(stage) : vol[v] = release
      BY <1>1, <1>2 DEF IInv, PlaceInv
<1>4. stage = desc.stages[mode]
      BY DEF stage
<1>5. /\ Switches(stage, Booted)
      /\ IF stage.mode = "" THEN Concludes(stage, Booted)
         ELSE stage.mode \in DOMAIN desc.stages
              /\ Follows(stage, desc.stages[stage.mode], Booted)
  <2>1. Booted \in desc.stages[mode].in
        BY <1>3, <1>4
  <2>2. /\ Switches(desc.stages[mode], Booted)
        /\ IF desc.stages[mode].mode = "" THEN Concludes(desc.stages[mode], Booted)
           ELSE desc.stages[mode].mode \in DOMAIN desc.stages
                /\ Follows(desc.stages[mode], desc.stages[desc.stages[mode].mode], Booted)
        BY <1>2, <2>1, SystemFacts
  <2>. QED BY <2>2 DEF stage
<1>6. Booted' = After(Booted, stage)
      BY <1>1 DEF Booted, After, System
<1>7. \A v \in Delivered(stage, Booted) : vol[v] = release
      BY <1>1, DeliveredRelease
<1>8. Delivered(stage, Booted) \subseteq Volumes
      BY <1>1, AtStage DEF IInv, Delivered, V
<1>9. VolumesOf(Booted') \subseteq Volumes /\ Volumes' = Volumes
      BY <1>1, <1>3, <1>5, <1>6, <1>8 DEF Switches, Volumes
<1>10. stage' = stage /\ release' = release /\ vol' = vol
      BY <1>1 DEF stage
<1>11. (VolumesOf(Booted') # VolumesOf(Booted) => Whole(Booted', release))
      BY <1>5, <1>6, <1>7 DEF Switches, Whole
<1>12. Current = IF stage.on = "old" THEN release - 1 ELSE release
      BY <1>2 DEF Current
<1>13. CASE stage.mode = ""
  <2>1. ~Updating' /\ Current' = release
        BY <1>1, <1>13 DEF Updating, Current
  <2>2. Whole(Booted, Current)'
        BY <1>3, <1>5, <1>6, <1>10, <1>11, <1>12, <1>13, <2>1 DEF Concludes, Whole
  <2>. QED BY <1>1, <1>3, <1>5, <1>9, <1>10, <1>13, <2>1, <2>2 DEF PlaceInv, Off, Concludes
<1>14. CASE stage.mode # ""
  <2>1. Updating' /\ Cur' = desc.stages[stage.mode]
        BY <1>1, <1>14 DEF Updating, Cur
  <2>2. Follows(stage, Cur', Booted)
        BY <1>5, <1>14, <2>1
  <2>3. Current' = IF Cur'.on = "old" THEN release - 1 ELSE release
        BY <1>1, <2>1 DEF Current
  <2>4. Whole(Booted, Current)'
        BY <1>3, <1>6, <1>10, <1>11, <1>12, <2>2, <2>3 DEF Follows, Whole
  <2>5. \A v \in Sources(Cur') : vol[v] = release
        BY <1>3, <1>7, <2>2 DEF Follows
  <2>6. Cur'.on = "old" => release > 1
        BY <1>2, <2>2, <1>1 DEF Follows, IInv, PlaceInv
  <2>7. Booted' \in Cur'.in /\ (~stage.reboot => stage.in \subseteq Cur'.in)
        BY <1>6, <2>2 DEF Follows
  <2>. QED BY <1>1, <1>3, <1>9, <1>10, <2>1, <2>4, <2>5, <2>6, <2>7 DEF PlaceInv, Off
<1>. QED BY <1>13, <1>14

LEMMA DownPlace ==
    ASSUME IInv, Down
    PROVE  PlaceInv'
<1>1. /\ pc' = "idle" /\ running' = Off /\ UNCHANGED <<desc, vol, env, release>>
      BY DEF Down
<1>2. /\ Booted' = Booted /\ Updating' = Updating /\ Cur' = Cur
      /\ Current' = Current /\ Volumes' = Volumes /\ Off' = Off
      BY <1>1 DEF Booted, Updating, Cur, Current, Volumes, Off
<1>. QED BY <1>1, <1>2 DEF IInv, PlaceInv, Whole

LEMMA HandoverPlace ==
    ASSUME IInv, Handover
    PROVE  PlaceInv'
<1>1. CASE stage.reboot
      BY <1>1, DownPlace DEF Handover
<1>2. CASE ~stage.reboot
  <2>1. pc = "after" /\ pc' = "idle" /\ UNCHANGED <<desc, vol, env, running, release>>
        BY <1>2 DEF Handover
  <2>2. /\ Booted' = Booted /\ Updating' = Updating /\ Cur' = Cur
        /\ Current' = Current /\ Volumes' = Volumes /\ Off' = Off
        BY <2>1 DEF Booted, Updating, Cur, Current, Volumes, Off
  <2>3. Updating /\ running \in Cur.in
        BY <1>2, <2>1 DEF IInv, PlaceInv
  <2>. QED BY <2>1, <2>2, <2>3 DEF IInv, PlaceInv, Whole
<1>. QED BY <1>1, <1>2 DEF Handover

LEMMA BootPlace ==
    ASSUME IInv, Boot
    PROVE  PlaceInv'
<1>1. /\ running = Off /\ running' = Booted /\ UNCHANGED <<desc, vol, env, release, pc, mode>>
      BY DEF Boot, swuVars
<1>2. /\ Booted' = Booted /\ Updating' = Updating /\ Cur' = Cur
      /\ Current' = Current /\ Volumes' = Volumes /\ Off' = Off
      BY <1>1 DEF Booted, Updating, Cur, Current, Volumes, Off
<1>3. pc = "idle"
      BY <1>1 DEF IInv, PlaceInv
<1>. QED BY <1>1, <1>2, <1>3 DEF IInv, PlaceInv, Whole

LEMMA PlaceNext ==
    ASSUME IInv, [Next]_vars
    PROVE  PlaceInv'
<1>1. CASE UNCHANGED vars
      BY <1>1 DEF vars, swuVars, IInv, PlaceInv, Whole, Booted, Updating, Cur, Current,
                  Volumes, Off, stage
<1>2. CASE Begin
      BY <1>2, BeginPlace
<1>3. CASE SetEnv
      BY <1>3, SetEnvPlace
<1>4. CASE PowerCut
      BY <1>4, DownPlace DEF PowerCut
<1>5. CASE Handover
      BY <1>5, HandoverPlace
<1>6. CASE Boot
      BY <1>6, BootPlace
<1>7. CASE Start
      BY <1>7, PlaceStays DEF Start, Next, Swupdate, Updating
<1>8. ASSUME pc \notin {"idle", "after"}
      PROVE  Updating /\ running # Off /\ mode = env.mode
      BY <1>8 DEF IInv, PlaceInv
<1>9. CASE StepFault \/ Retry
      BY <1>8, <1>9, PlaceStays DEF StepFault, Fails, Retry, Next
<1>10. CASE OpenVolume \/ CloseVolume \/ Compare \/ StepsDone
      BY <1>8, <1>10, PlaceStays
      DEF OpenVolume, CloseVolume, Compare, StepsDone, NextStep, Fails, Next, Swupdate
<1>11. CASE Look \/ Pad \/ StartWriters \/ Test \/ PostPadded
      BY <1>8, <1>11, PlaceStays
      DEF Look, Pad, StartWriters, Test, PostPadded, Fails, Next, Swupdate
<1>12. ASSUME NEW v \in Volumes, Writer(v)
       PROVE  PlaceInv'
  <2>1. /\ UNCHANGED <<env, running, release, pc, mode>>
        /\ writer[v] # "none"
        BY <1>12 DEF Writer, WriterOpens, WriterDies, WriterFull, swuVars
  <2>2. Updating /\ pc # "after"
        BY <2>1 DEF IInv, WriterInv
  <2>. QED BY <1>8, <1>12, <2>1, <2>2, PlaceStays DEF Next
<1>. QED BY <1>1, <1>2, <1>3, <1>4, <1>5, <1>6, <1>7, <1>9, <1>10, <1>11, <1>12
         DEF Next, Swupdate
-----------------------------------------------------------------------------
(* Types. *)
LEMMA OneMore ==
    ASSUME NEW m \in Nat, NEW n \in 0 .. m, n < m
    PROVE  n + 1 \in 0 .. m
OBVIOUS

LEMMA EnvTypeNext ==
    ASSUME IInv, Next
    PROVE  /\ env' \in [mode : DOMAIN desc.stages \cup {""}, boot : STRING, root : STRING]
           /\ release' \in 1 .. MaxRelease
           /\ running' = Off \/ VolumesOf(running') \subseteq Volumes
           /\ cuts' \in 0 .. MaxCuts /\ faults' \in 0 .. MaxFaults
<1>1. /\ env \in [mode : DOMAIN desc.stages \cup {""}, boot : STRING, root : STRING]
      /\ release \in 1 .. MaxRelease
      /\ running = Off \/ VolumesOf(running) \subseteq Volumes
      /\ cuts \in 0 .. MaxCuts /\ faults \in 0 .. MaxFaults
      /\ Sound(desc) /\ VolumesOf(Booted) \subseteq Volumes
      BY OtaAssumption DEF IInv, TypeOK, PlaceInv
<1>2. cuts < MaxCuts => cuts + 1 \in 0 .. MaxCuts
      BY <1>1, OneMore, OtaAssumption
<1>3. faults < MaxFaults => faults + 1 \in 0 .. MaxFaults
      BY <1>1, OneMore, OtaAssumption
<1>4. CASE Begin
  <2>1. PICK b \in desc.begins :
          /\ b[1] = running /\ vol[running.boot] < MaxRelease
          /\ release' = vol[running.boot] + 1
          /\ env' = [env EXCEPT !.mode = b[2]]
        BY <1>4 DEF Begin
  <2>2. b[2] \in DOMAIN desc.stages
        BY <1>1 DEF Sound
  <2>3. running.boot \in Volumes
        BY <1>1, <1>4 DEF Begin, VolumesOf
  <2>4. vol \in [Volumes -> Torn .. MaxRelease]
        BY DEF IInv, TypeOK
  <2>5. vol[running.boot] \in Torn .. MaxRelease
        BY <2>3, <2>4
  <2>6. release' \in 1 .. MaxRelease
        BY <2>1, <2>5, OtaAssumption DEF Torn
  <2>. QED BY <1>1, <1>4, <2>1, <2>2, <2>6 DEF Begin, Off
<1>5. CASE SetEnv
  <2>1. /\ env' = [mode |-> stage.mode, boot |-> Left(env.boot, stage.boot),
                   root |-> Left(env.root, stage.root)]
        /\ UNCHANGED <<running, release, cuts, faults>> /\ pc = "set"
        BY <1>5 DEF SetEnv
  <2>2. /\ mode \in DOMAIN desc.stages /\ mode = env.mode /\ Updating /\ stage = Cur
        BY <2>1, AtStage DEF IInv
  <2>3. Booted \in desc.stages[mode].in
        BY <2>2 DEF IInv, PlaceInv, stage
  <2>4. desc.stages[mode].mode \in DOMAIN desc.stages \cup {""}
        BY <1>1, <2>2, <2>3, SystemFacts
  <2>5. WellFormed(desc.stages[mode], desc.volumes)
        BY <1>1, <2>2, StageFacts
  <2>6. stage.mode \in DOMAIN desc.stages \cup {""}
        /\ stage.boot \in STRING /\ stage.root \in STRING
        BY <2>4, <2>5 DEF stage, WellFormed
  <2>. QED BY <1>1, <2>1, <2>6 DEF Left, Off
<1>6. CASE Start \/ OpenVolume \/ CloseVolume \/ Compare \/ StepsDone \/ Retry
      BY <1>1, <1>6 DEF Start, OpenVolume, CloseVolume, Compare, StepsDone, Retry, Off
<1>7. CASE Look \/ Pad \/ StartWriters \/ Test \/ PostPadded
      BY <1>1, <1>7 DEF Look, Pad, StartWriters, Test, PostPadded, Off
<1>8. CASE StepFault
      BY <1>1, <1>3, <1>8 DEF StepFault, Fault, Off
<1>9. CASE Handover \/ PowerCut
      BY <1>1, <1>2, <1>9 DEF Handover, PowerCut, Down, Off
<1>10. CASE Boot
      BY <1>1, <1>10 DEF Boot
<1>11. CASE \E v \in Volumes : Writer(v)
      BY <1>1, <1>3, <1>11 DEF Writer, WriterOpens, WriterDies, WriterFull, Fault, Off
<1>. QED BY <1>4, <1>5, <1>6, <1>7, <1>8, <1>9, <1>10, <1>11 DEF Next, Swupdate

LEMMA FifoTypeNext ==
    ASSUME IInv, Next
    PROVE  /\ node' \in [Volumes -> {"none", "fifo", "file"}]
           /\ writer' \in [Volumes -> {"none", "starting", "open"}]
           /\ got' \in [Volumes -> Part .. MaxRelease]
<1>1. /\ node \in [Volumes -> {"none", "fifo", "file"}]
      /\ writer \in [Volumes -> {"none", "starting", "open"}]
      /\ got \in [Volumes -> Part .. MaxRelease]
      BY DEF IInv, TypeOK
<1>2. /\ Nothing \in Part .. MaxRelease /\ Part \in Part .. MaxRelease
      /\ Torn \in Part .. MaxRelease
      BY OtaAssumption DEF Nothing, Part, Torn
<1>3. CASE UNCHANGED fifoVars
      BY <1>1, <1>3 DEF fifoVars
<1>4. CASE OpenVolume
      BY <1>1, <1>2, <1>4 DEF OpenVolume
<1>5. CASE CloseVolume
  <2>1. pc = "writing" /\ i <= Last
        BY <1>5 DEF CloseVolume, IInv, PcInv
  <2>2. Result \in Torn .. MaxRelease
        BY <2>1, AtStage, ResultType DEF IInv
  <2>3. Result \in Part .. MaxRelease
        BY <2>2, OtaAssumption DEF Torn, Part
  <2>. QED BY <1>1, <1>5, <2>3 DEF CloseVolume
<1>6. CASE Pad
      BY <1>1, <1>6 DEF Pad, Ends
<1>7. CASE StartWriters
      BY <1>1, <1>7 DEF StartWriters
<1>8. CASE \E v \in Volumes : Writer(v)
      BY <1>1, <1>2, <1>8 DEF Writer, WriterOpens, WriterDies, WriterFull, Ends
<1>9. CASE PowerCut \/ Handover
      BY <1>1, <1>2, <1>9 DEF PowerCut, Handover, Down, fifoVars
<1>10. CASE Start \/ Compare \/ StepsDone \/ Retry \/ StepFault \/ Begin \/ SetEnv
      BY <1>3, <1>10 DEF Start, Compare, StepsDone, Retry, StepFault, Begin, SetEnv
<1>11. CASE Look \/ Test \/ PostPadded \/ Boot
      BY <1>3, <1>11 DEF Look, Test, PostPadded, Boot
<1>. QED BY <1>4, <1>5, <1>6, <1>7, <1>8, <1>9, <1>10, <1>11 DEF Next, Swupdate

\* Where swupdate is: the part of TypeOK and PcInv about pc, mode and i.
PcOK ==
    /\ pc \in {"idle", "pre_look", "pre_pad", "pre_test", "step", "writing",
               "post_look", "post_pad", "post_test", "set", "after", "failed"}
    /\ pc \notin {"idle", "failed"} => mode \in DOMAIN desc.stages /\ i \in 1 .. Last + 1
    /\ PcInv

LEMMA OneIn ==
    ASSUME NEW n \in Nat
    PROVE  1 \in 1 .. n + 1
OBVIOUS

\* Within a stage.
LEMMA SameStage ==
    ASSUME UNCHANGED <<desc, mode>>
    PROVE  stage' = stage /\ Last' = Last /\ Volumes' = Volumes
BY DEF stage, Last, Volumes

LEMMA PcNext ==
    ASSUME IInv, Next
    PROVE  PcOK'
<1>1. PcOK /\ Sound(desc) /\ env.mode \in DOMAIN desc.stages \cup {""}
      BY OtaAssumption DEF IInv, TypeOK, PcOK
<1>2. desc' = desc
      BY Touched
<1>3. pc \notin {"idle", "failed"} =>
         /\ Last \in Nat /\ i \in Nat /\ 1 <= i /\ i <= Last + 1
         /\ mode \in DOMAIN desc.stages
         /\ 1 \in 1 .. Last + 1
         /\ (i <= Last => i + 1 \in 1 .. Last + 1)
  <2>. SUFFICES ASSUME pc \notin {"idle", "failed"}
                PROVE  /\ Last \in Nat /\ i \in Nat /\ 1 <= i /\ i <= Last + 1
                       /\ mode \in DOMAIN desc.stages
                       /\ 1 \in 1 .. Last + 1
                       /\ (i <= Last => i + 1 \in 1 .. Last + 1)
        OBVIOUS
  <2>1. Last \in Nat /\ i \in 1 .. Last + 1 /\ mode \in DOMAIN desc.stages
        BY AtStage DEF IInv
  <2>. QED BY <2>1
<1>4. CASE UNCHANGED swuVars
      BY <1>1, <1>2, <1>4 DEF PcOK, PcInv, swuVars, Last, stage, step
<1>5. CASE Start
  <2>1. mode' \in DOMAIN desc.stages /\ i' = 1 /\ pc' \in {"pre_look", "step"}
        BY <1>1, <1>5 DEF Start
  <2>2. Last' \in Nat
        BY <1>1, <1>2, <2>1, StageFacts DEF Last, stage
  <2>3. 1 \in 1 .. Last' + 1
        BY <2>2, OneIn
  <2>. QED BY <1>2, <2>1, <2>3 DEF PcOK, PcInv
<1>6. CASE OpenVolume
  <2>1. /\ pc = "step" /\ pc' = "writing" /\ UNCHANGED <<mode, i>>
        /\ i <= Last /\ Writes(step)
        BY <1>6 DEF OpenVolume
  <2>2. Last' = Last /\ step' = step
        BY <1>2, <2>1 DEF Last, stage, step
  <2>. QED BY <1>1, <1>2, <2>1, <2>2 DEF PcOK, PcInv
<1>7. CASE pc' = "idle" /\ UNCHANGED desc
      BY <1>7 DEF PcOK, PcInv
<1>8. CASE Fails
      BY <1>8 DEF Fails, PcOK, PcInv
<1>9. CASE NextStep /\ pc \in {"step", "writing"} /\ i <= Last
  <2>1. pc' = "step" /\ i' = i + 1 /\ mode' = mode /\ Last' = Last
        BY <1>2, <1>9, SameStage DEF NextStep
  <2>. QED BY <1>2, <1>3, <1>9, <2>1 DEF PcOK, PcInv
<1>10. ASSUME pc \notin {"idle", "failed"}, mode' = mode,
              i' \in {1, i} \/ (i <= Last /\ i' = i + 1),
              pc' \in {"pre_look", "pre_test", "step", "post_look", "post_test",
                       "set", "after"}
       PROVE  PcOK'
  <2>1. Last' = Last
        BY <1>2, <1>10, SameStage
  <2>. QED BY <1>2, <1>3, <1>10, <2>1 DEF PcOK, PcInv
<1>11. CASE StepsDone \/ SetEnv \/ StartWriters \/ PostPadded \/ Pad
      <2>1. pc' \in {"pre_look", "pre_test", "step", "post_look", "post_test",
                       "set", "after"}
             /\ mode' = mode /\ pc \notin {"idle", "failed"}
            BY <1>11 DEF StepsDone, SetEnv, StartWriters, PostPadded, Pad
      <2>2. i' \in {1, i} \/ (i <= Last /\ i' = i + 1)
            BY <1>1, <1>11 DEF StepsDone, SetEnv, StartWriters, PostPadded, Pad, PcOK, PcInv
      <2>. QED BY <1>10, <2>1, <2>2
<1>12. CASE Look
  <2>1. pc \in {"pre_look", "post_look"} /\ i <= Last /\ mode' = mode
        /\ Last' = Last
        BY <1>2, <1>12, SameStage DEF Look
  <2>2. \/ pc' = pc /\ i' = i + 1
        \/ pc' \in {"pre_pad", "post_pad"} /\ i' = i
        BY <1>12 DEF Look
  <2>. QED BY <1>2, <1>3, <2>1, <2>2 DEF PcOK, PcInv
<1>13. CASE Test /\ ~Fails
  <2>1. /\ pc \in {"pre_test", "post_test"} /\ mode' = mode
        /\ \/ i' = 1 /\ pc' \in {"step", "set"}
           \/ ~(i > Last) /\ pc' = pc /\ i' = i + 1
        BY <1>13 DEF Test
  <2>2. ~(i > Last) => i <= Last
        BY <1>3, <2>1
  <2>. QED BY <1>10, <2>1, <2>2
<1>14. CASE Begin \/ Boot \/ \E v \in Volumes : Writer(v)
      BY <1>4, <1>14 DEF Begin, Boot, Writer, WriterOpens, WriterDies, WriterFull
<1>15. CASE Retry \/ Handover \/ PowerCut
      BY <1>2, <1>7, <1>15 DEF Retry, Handover, PowerCut, Down
<1>16. CASE StepFault
      BY <1>8, <1>16 DEF StepFault
<1>17. CASE CloseVolume
      BY <1>1, <1>9, <1>17 DEF CloseVolume, PcOK, PcInv
<1>18. CASE Compare
      BY <1>8, <1>9, <1>18 DEF Compare
<1>. QED BY <1>5, <1>6, <1>8, <1>11, <1>12, <1>13, <1>14, <1>15, <1>16, <1>17, <1>18
         DEF Next, Swupdate

LEMMA TypeNext ==
    ASSUME IInv, [Next]_vars
    PROVE  TypeOK' /\ PcInv'
<1>1. CASE UNCHANGED vars
      BY <1>1 DEF vars, swuVars, fifoVars, IInv, TypeOK, PcInv, Volumes, Last, stage,
                  step, Off
<1>2. CASE Next
  <2>1. PcOK' /\ desc' = desc /\ vol' \in [Volumes -> Torn .. MaxRelease]
        BY <1>2, PcNext, Touched
  <2>2. Volumes' = Volumes /\ desc' \in Descriptions
        BY <2>1 DEF Volumes, IInv, TypeOK
  <2>3. /\ env' \in [mode : DOMAIN desc'.stages \cup {""}, boot : STRING, root : STRING]
        /\ release' \in 1 .. MaxRelease
        /\ running' = Off' \/ VolumesOf(running)' \subseteq Volumes'
        /\ cuts' \in 0 .. MaxCuts /\ faults' \in 0 .. MaxFaults
        BY <1>2, <2>1, <2>2, EnvTypeNext DEF Off
  <2>4. /\ node' \in [Volumes' -> {"none", "fifo", "file"}]
        /\ writer' \in [Volumes' -> {"none", "starting", "open"}]
        /\ got' \in [Volumes' -> Part .. MaxRelease]
        BY <1>2, <2>2, FifoTypeNext
  <2>. QED BY <2>1, <2>2, <2>3, <2>4 DEF TypeOK, PcOK
<1>. QED BY <1>1, <1>2
-----------------------------------------------------------------------------
(* The writers in the background. *)
LEMMA WritersStay ==
    ASSUME IInv, UNCHANGED <<desc, node, writer>>,
           \A v \in Volumes : writer[v] = "starting" => pc' = "pre_test",
           \/ \A v \in Volumes : writer[v] = "none"
           \/ UNCHANGED <<env, vol>> /\ pc' \notin {"set", "after"}
    PROVE  WriterInv'
BY DEF IInv, WriterInv, Volumes, Updating, Cur

LEMMA NoWriters ==
    ASSUME IInv, ~Updating \/ ~Cur.fifo \/ pc \in {"set", "after"}
    PROVE  \A v \in Volumes : writer[v] = "none"
BY DEF IInv, TypeOK, WriterInv

LEMMA WriterEnds ==
    ASSUME IInv, NEW v \in Volumes, Ends(v), UNCHANGED <<desc, env>>,
           \/ pc' = pc
           \/ pc \in {"pre_pad", "post_pad"} /\ pc' \notin {"set", "after"}
    PROVE  WriterInv'
<1>1. /\ writer' = [writer EXCEPT ![v] = "none"]
      /\ node' = [node EXCEPT ![v] = "none"]
      /\ \A w \in Volumes : w # v => vol'[w] = vol[w]
      BY EndsVolume DEF Ends, IInv
<1>2. /\ node \in [Volumes -> {"none", "fifo", "file"}]
      /\ writer \in [Volumes -> {"none", "starting", "open"}]
      BY DEF IInv, TypeOK
<1>. QED BY <1>1, <1>2 DEF IInv, WriterInv, Volumes, Updating, Cur

(* When the second script finds no fifo any more, there is no writer. *)
LEMMA WritersGone ==
    ASSUME IInv, pc = "post_test", i > Last
    PROVE  \A v \in Volumes : writer[v] = "none"
<1>1. /\ stage = Cur /\ Last \in Nat /\ i \in 1 .. Last + 1
      /\ DOMAIN stage.steps = 1 .. Last
      BY AtStage DEF IInv
<1>2. \A j \in 1 .. Last : node[V(j)] = "none"
      BY <1>1 DEF IInv, FifoInv
<1>3. ASSUME NEW v \in Volumes, writer[v] # "none"
      PROVE  FALSE
  <2>1. v \in Written(stage) /\ writer[v] # "starting"
        BY <1>1, <1>3 DEF IInv, WriterInv
  <2>2. node[v] = "fifo"
        BY <1>3, <2>1 DEF IInv, WriterInv, TypeOK
  <2>3. PICK j \in 1 .. Last : v = V(j)
        BY <1>1, <2>1 DEF Written, V
  <2>. QED BY <1>2, <2>2, <2>3
<1>. QED BY <1>3

LEMMA WriterNext ==
    ASSUME IInv, [Next]_vars
    PROVE  WriterInv'
<1>0. \A v \in Volumes : writer[v] = "starting" => pc = "pre_test"
      BY DEF IInv, WriterInv
<1>1. CASE UNCHANGED vars
      BY <1>1 DEF vars, swuVars, fifoVars, IInv, WriterInv, Volumes, Updating, Cur
<1>2. CASE Begin
  <2>1. ~Updating /\ pc = "idle" /\ UNCHANGED <<desc, node, writer>>
        BY <1>2 DEF Begin, Updating, fifoVars
  <2>. QED BY <1>0, <2>1, NoWriters, WritersStay
<1>3. CASE SetEnv
  <2>1. pc = "set" /\ UNCHANGED <<desc, node, writer>>
        BY <1>3 DEF SetEnv, fifoVars
  <2>. QED BY <1>0, <2>1, NoWriters, WritersStay
<1>4. CASE StepsDone
  <2>1. /\ pc = "step" /\ UNCHANGED <<desc, node, writer, env, vol>>
        /\ pc' = IF stage.fifo THEN "post_look" ELSE "set"
        BY <1>4 DEF StepsDone, fifoVars
  <2>2. stage = Cur
        BY <2>1, AtStage DEF IInv
  <2>. QED BY <1>0, <2>1, <2>2, NoWriters, WritersStay
<1>5. CASE OpenVolume \/ CloseVolume
  <2>1. /\ pc \in {"step", "writing"} /\ pc' \in {"step", "writing"}
        /\ UNCHANGED <<desc, node, writer, env>>
        /\ stage.fifo => UNCHANGED vol
        BY <1>5 DEF OpenVolume, CloseVolume, NextStep
  <2>2. stage = Cur
        BY <2>1, AtStage DEF IInv
  <2>. QED BY <1>0, <2>1, <2>2, NoWriters, WritersStay
<1>6. CASE Start \/ Compare \/ Retry \/ StepFault \/ Look \/ PostPadded
  <2>1. /\ pc # "pre_test" /\ pc' \notin {"set", "after"}
        /\ UNCHANGED <<desc, node, writer, env, vol>>
        BY <1>6 DEF Start, Compare, Retry, StepFault, Look, PostPadded, NextStep, Fails, fifoVars
  <2>. QED BY <1>0, <2>1, WritersStay
<1>7. CASE Test
  <2>1. /\ \A v \in Volumes : writer[v] # "starting"
        /\ UNCHANGED <<desc, node, writer, env, vol>>
        /\ \/ pc' \notin {"set", "after"}
           \/ pc = "post_test" /\ i > Last
        BY <1>7 DEF Test, Fails, fifoVars
  <2>. QED BY <2>1, WritersGone, WritersStay
<1>8. CASE Boot
  <2>1. pc = "idle" /\ pc' = "idle" /\ UNCHANGED <<desc, node, writer, env, vol>>
        BY <1>8 DEF Boot, swuVars, fifoVars, IInv, PlaceInv
  <2>. QED BY <1>0, <2>1, WritersStay
<1>9. CASE Pad
  <2>1. /\ pc \in {"pre_pad", "post_pad"} /\ pc' \in {"pre_look", "post_look"}
        /\ UNCHANGED <<desc, env>>
        /\ IF writer[step.vol] = "open" THEN Ends(step.vol)
           ELSE node' = [node EXCEPT ![step.vol] = "file"] /\ UNCHANGED <<vol, writer, got>>
        BY <1>9 DEF Pad
  <2>2. /\ node \in [Volumes -> {"none", "fifo", "file"}]
        /\ writer \in [Volumes -> {"none", "starting", "open"}]
        /\ vol \in [Volumes -> Torn .. MaxRelease]
        BY DEF IInv, TypeOK
  <2>3. step.vol \in Volumes
        BY <2>1, AtStage DEF IInv, PcInv
  <2>4. CASE writer[step.vol] = "open"
        BY <2>1, <2>3, <2>4, WriterEnds
  <2>5. CASE writer[step.vol] # "open"
    <3>1. \A v \in Volumes : node'[v] = "fifo" <=> node[v] = "fifo"
          BY <2>1, <2>2, <2>3, <2>5 DEF IInv, WriterInv
    <3>2. UNCHANGED <<desc, env, vol, writer>>
          BY <2>1, <2>5
    <3>. QED BY <1>0, <2>1, <3>1, <3>2 DEF IInv, WriterInv, Volumes, Updating, Cur
  <2>. QED BY <2>4, <2>5
<1>10. CASE StartWriters
  <2>1. /\ pc = "pre_look" /\ pc' = "pre_test" /\ UNCHANGED <<desc, env, node, vol>>
        /\ writer' = [v \in Volumes |->
                        IF v \in Written(stage) /\ writer[v] = "none" THEN "starting"
                        ELSE writer[v]]
        BY <1>10 DEF StartWriters
  <2>2. stage = Cur /\ stage.fifo /\ Updating
        BY <2>1, AtStage DEF IInv, FifoInv
  <2>. QED BY <2>1, <2>2 DEF IInv, WriterInv, Volumes, Updating, Cur
<1>11. ASSUME NEW v \in Volumes, Writer(v)
       PROVE  WriterInv'
  <2>1. /\ node \in [Volumes -> {"none", "fifo", "file"}]
        /\ writer \in [Volumes -> {"none", "starting", "open"}]
        /\ vol \in [Volumes -> Torn .. MaxRelease]
        BY DEF IInv, TypeOK
  <2>2. UNCHANGED <<desc, env, pc>>
        BY <1>11 DEF Writer, WriterOpens, WriterDies, WriterFull, swuVars
  <2>3. CASE WriterOpens(v)
        BY <2>1, <2>2, <2>3 DEF WriterOpens, IInv, WriterInv, Volumes, Updating, Cur
  <2>4. CASE WriterDies(v)
        BY <2>1, <2>2, <2>4 DEF WriterDies, IInv, WriterInv, Volumes, Updating, Cur
  <2>5. CASE WriterFull(v)
        BY <2>2, <2>5, WriterEnds DEF WriterFull, swuVars
  <2>. QED BY <1>11, <2>3, <2>4, <2>5 DEF Writer
<1>12. CASE Down
  <2>1. Volumes' = Volumes
        BY <1>12 DEF Down, Volumes
  <2>. QED BY <1>12, <2>1 DEF Down, WriterInv
<1>13. CASE Handover /\ ~stage.reboot
  <2>1. pc = "after" /\ UNCHANGED <<desc, node, writer>>
        BY <1>13 DEF Handover, fifoVars
  <2>. QED BY <1>0, <2>1, NoWriters, WritersStay
<1>. QED BY <1>1, <1>2, <1>3, <1>4, <1>5, <1>6, <1>7, <1>8, <1>9, <1>10, <1>11, <1>12, <1>13
         DEF Next, Swupdate, PowerCut, Handover
-----------------------------------------------------------------------------
(* The steps. *)
RunInv == PlainInv /\ FifoInv

\* What the steps of a stage are compared with stays as it is.
LEMMA SameRun ==
    ASSUME UNCHANGED <<desc, mode, env>>
    PROVE  /\ stage' = stage /\ Last' = Last /\ Booted' = Booted
           /\ \A j : stage'.steps[j] = stage.steps[j] /\ V(j)' = V(j)
BY DEF stage, Last, Booted, V

LEMMA NotRunning ==
    ASSUME pc' \in {"idle", "failed", "after"}
    PROVE  RunInv'
BY DEF RunInv, PlainInv, FifoInv

LEMMA StartRun ==
    ASSUME IInv, Start
    PROVE  RunInv'
<1>1. /\ mode' = env.mode /\ i' = 1 /\ UNCHANGED desc
      /\ pc' = IF desc.stages[env.mode].fifo THEN "pre_look" ELSE "step"
      BY DEF Start
<1>2. stage' = desc.stages[env.mode]
      BY <1>1 DEF stage
<1>3. 1 .. i' - 1 = {}
      BY <1>1
<1>. QED BY <1>1, <1>2, <1>3 DEF RunInv, PlainInv, FifoInv

\* The new release, when the step delivers.
LEMMA ResultDelivers ==
    ASSUME IInv, pc = "writing", Delivers(step, stage, Booted)
    PROVE  Result = release
<1>1. /\ stage = Cur /\ Updating /\ step \in StepsOn(Volumes)
      /\ i \in DOMAIN stage.steps /\ Writes(step)
      BY AtStage DEF IInv, PcInv
<1>2. Whole(Booted, Current) /\ \A v \in Sources(stage) : vol[v] = release
      BY <1>1 DEF IInv, PlaceInv
<1>3. CASE step.op = "write"
      BY <1>3 DEF Result
<1>4. CASE step.op = "patch"
  <2>1. stage.on = "old" /\ step.from \in VolumesOf(Booted)
        BY <1>4 DEF Delivers
  <2>2. vol[step.from] = release - 1
        BY <1>1, <1>2, <2>1 DEF Current, Whole
  <2>. QED BY <1>4, <2>2 DEF Result
<1>5. CASE step.op = "copy"
  <2>1. step.from \in Sources(stage)
        BY <1>1, <1>5 DEF Sources, step
  <2>. QED BY <1>2, <1>5, <2>1 DEF Result
<1>. QED BY <1>1, <1>3, <1>4, <1>5 DEF Writes

\* Another step's volume.
LEMMA OtherVolume ==
    ASSUME IInv, pc \notin {"idle", "failed", "after"}, i <= Last, NEW j \in 1 .. Last,
           j # i, (j < i /\ Writes(step)) \/ stage.fifo
    PROVE  V(j) # step.vol
<1>1. /\ Sound(desc) /\ mode \in DOMAIN desc.stages
      /\ Last \in Nat /\ i \in 1 .. Last
      BY AtStage DEF IInv
<1>2. Last = Len(desc.stages[mode].steps) /\ stage = desc.stages[mode]
      /\ step = desc.stages[mode].steps[i] /\ V(j) = desc.stages[mode].steps[j].vol
      BY DEF Last, stage, step, V
<1>. QED BY <1>1, <1>2, OneWriter

LEMMA OpenRun ==
    ASSUME IInv, OpenVolume
    PROVE  RunInv'
<1>1. /\ pc = "step" /\ pc' = "writing" /\ i <= Last /\ Writes(step) /\ i' = i
      /\ UNCHANGED <<desc, mode, env, node, writer, release>>
      BY DEF OpenVolume
<1>2. /\ Last \in Nat /\ i \in 1 .. Last /\ step.vol \in Volumes
      /\ \A j \in 1 .. Last : V(j) \in Volumes
      BY <1>1, AtStage DEF IInv
<1>3. /\ stage' = stage /\ Last' = Last /\ Booted' = Booted
      /\ \A j : stage'.steps[j] = stage.steps[j] /\ V(j)' = V(j)
      BY <1>1, SameRun
<1>4. V(i) = step.vol
      BY DEF V, step
<1>5. CASE ~stage.fifo
  <2>1. vol' = [vol EXCEPT ![step.vol] = Torn]
        BY <1>5 DEF OpenVolume
  <2>2. ASSUME NEW j \in 1 .. i - 1
        PROVE  Done(j)'
    <3>1. j \in 1 .. Last /\ j < i /\ j # i
          BY <1>2
    <3>2. V(j) # step.vol
          BY <1>1, <3>1, OtherVolume
    <3>3. Done(j)
          BY <1>1, <1>5 DEF IInv, PlainInv
    <3>. QED BY <1>1, <1>2, <1>3, <2>1, <3>1, <3>2, <3>3 DEF Done, IInv, TypeOK
  <2>. QED BY <1>1, <1>3, <1>5, <2>2 DEF RunInv, PlainInv, FifoInv
<1>6. CASE stage.fifo
  <2>1. /\ UNCHANGED vol
        /\ got' = [got EXCEPT ![step.vol] =
                      IF writer[step.vol] # "open" THEN @
                      ELSE IF @ = Nothing THEN Part ELSE Torn]
        BY <1>6 DEF OpenVolume
  <2>2. got \in [Volumes -> Part .. MaxRelease]
        BY DEF IInv, TypeOK
  <2>3. \A j \in 1 .. Last : j # i => got'[V(j)] = got[V(j)]
        BY <1>1, <1>2, <1>6, <2>1, <2>2, OtherVolume
  <2>4. \A j \in 1 .. i - 1 : Given(j)'
    <3>1. \A j \in 1 .. i - 1 : Given(j) /\ j \in 1 .. Last /\ j # i
          BY <1>1, <1>2, <1>6 DEF IInv, FifoInv
    <3>. QED BY <1>1, <1>3, <2>1, <2>3, <3>1 DEF Given
  <2>5. \A j \in i .. Last : Waits(j, Nothing) /\ j \in 1 .. Last
        BY <1>1, <1>2, <1>6 DEF IInv, FifoInv
  <2>6. Waits(i, Part)'
    <3>1. node[V(i)] = "file" \/ (writer[V(i)] = "open" /\ got[V(i)] = Nothing)
          BY <1>2, <2>5 DEF Waits
    <3>. QED BY <1>1, <1>2, <1>3, <1>4, <2>1, <2>2, <3>1 DEF Waits
  <2>7. \A j \in i .. Last : j # i => Waits(j, Nothing)'
        BY <1>1, <1>3, <2>3, <2>5 DEF Waits, Nothing
  <2>8. (\A j \in i .. Last :
            Waits(j, IF pc = "writing" /\ j = i THEN Part ELSE Nothing))'
        BY <1>1, <1>3, <2>6, <2>7 DEF Waits, Part, Nothing
  <2>. QED BY <1>1, <1>3, <1>6, <2>4, <2>8 DEF RunInv, PlainInv, FifoInv
<1>. QED BY <1>5, <1>6

LEMMA CloseRun ==
    ASSUME IInv, CloseVolume
    PROVE  RunInv'
<1>1. /\ pc = "writing" /\ pc' = "step" /\ i <= Last /\ Writes(step) /\ i' = i + 1
      /\ UNCHANGED <<desc, mode, env, node, writer, release>>
      BY DEF CloseVolume, NextStep, IInv, PcInv
<1>2. /\ Last \in Nat /\ i \in 1 .. Last /\ step.vol \in Volumes
      /\ \A j \in 1 .. Last : V(j) \in Volumes
      BY <1>1, AtStage DEF IInv
<1>0. PICK k \in 1 .. Last : k = i
      BY <1>2
<1>3. /\ stage' = stage /\ Last' = Last /\ Booted' = Booted
      /\ \A j : stage'.steps[j] = stage.steps[j] /\ V(j)' = V(j)
      BY <1>0, <1>1, SameRun
<1>4. V(k) = step.vol /\ step = stage.steps[k]
      BY <1>0 DEF V, step
<1>5. Delivers(stage.steps[k], stage, Booted) => Result = release
      BY <1>0, <1>1, <1>4, ResultDelivers
<1>6. \A j \in 1 .. i' - 1 : j = k \/ j \in 1 .. i - 1
      BY <1>0, <1>1, <1>2
<1>7. CASE ~stage.fifo
  <2>1. vol' = [vol EXCEPT ![step.vol] = Result] /\ vol \in [Volumes -> Torn .. MaxRelease]
        BY <1>0, <1>7 DEF CloseVolume, IInv, TypeOK
  <2>2. Done(k)'
        BY <1>0, <1>1, <1>2, <1>3, <1>4, <1>5, <2>1 DEF Done
  <2>3. ASSUME NEW j \in 1 .. i - 1
        PROVE  Done(j)'
    <3>1. j \in 1 .. Last /\ j < i /\ j # i
          BY <1>0, <1>2
    <3>2. V(j) # step.vol
          BY <1>0, <1>1, <3>1, OtherVolume
    <3>3. Done(j)
          BY <1>0, <1>1, <1>7 DEF IInv, PlainInv
    <3>. QED BY <1>0, <1>1, <1>2, <1>3, <2>1, <3>1, <3>2, <3>3 DEF Done
  <2>. QED BY <1>0, <1>1, <1>3, <1>6, <1>7, <2>2, <2>3 DEF RunInv, PlainInv, FifoInv
<1>8. CASE stage.fifo
  <2>1. /\ UNCHANGED vol
        /\ got' = [got EXCEPT ![step.vol] = IF @ = Part THEN Result ELSE @]
        BY <1>0, <1>8 DEF CloseVolume
  <2>2. got \in [Volumes -> Part .. MaxRelease]
        BY DEF IInv, TypeOK
  <2>3. \A j \in 1 .. Last : j # i => got'[V(j)] = got[V(j)]
        BY <1>0, <1>1, <1>2, <1>8, <2>1, <2>2, OtherVolume
  <2>4. \A j \in 1 .. i - 1 : Given(j)'
    <3>1. \A j \in 1 .. i - 1 : Given(j) /\ j \in 1 .. Last /\ j # i
          BY <1>0, <1>1, <1>2, <1>8 DEF IInv, FifoInv
    <3>. QED BY <1>0, <1>1, <1>3, <2>1, <2>3, <3>1 DEF Given
  <2>5. \A j \in i .. Last :
            Waits(j, IF pc = "writing" /\ j = i THEN Part ELSE Nothing)
        BY <1>0, <1>1, <1>8 DEF IInv, FifoInv
  <2>6. Given(k)'
    <3>1. node[V(k)] = "file" \/ (writer[V(k)] = "open" /\ got[V(k)] = Part)
          BY <1>0, <1>1, <1>2, <2>5 DEF Waits
    <3>. QED BY <1>0, <1>1, <1>2, <1>3, <1>4, <1>5, <2>1, <2>2, <3>1 DEF Given
  <2>7. \A j \in i + 1 .. Last : j \in i .. Last /\ j \in 1 .. Last /\ j # i
        BY <1>0, <1>2
  <2>8. (\A j \in i .. Last :
            Waits(j, IF pc = "writing" /\ j = i THEN Part ELSE Nothing))'
        BY <1>0, <1>1, <1>3, <2>3, <2>5, <2>7 DEF Waits, Nothing
  <2>9. \A j \in 1 .. i' - 1 : Given(j)'
        BY <1>0, <1>6, <2>4, <2>6
  <2>. QED BY <1>0, <1>1, <1>3, <1>8, <2>8, <2>9 DEF RunInv, PlainInv, FifoInv
<1>. QED BY <1>0, <1>7, <1>8

LEMMA CompareRun ==
    ASSUME IInv, Compare
    PROVE  RunInv'
<1>1. /\ pc = "step" /\ i <= Last /\ ~Writes(step)
      /\ UNCHANGED <<desc, vol, env, release>>
      /\ IF vol[step.vol] = (IF step.op = "base" THEN release - 1 ELSE release)
         THEN NextStep ELSE Fails
      BY DEF Compare
<1>2. CASE Fails
      BY <1>2, NotRunning DEF Fails
<1>3. CASE NextStep /\ vol[step.vol] = (IF step.op = "base" THEN release - 1 ELSE release)
  <2>1. /\ Last \in Nat /\ i \in 1 .. Last
        /\ Sound(desc) /\ mode \in DOMAIN desc.stages
        BY <1>1, AtStage DEF IInv
  <2>2. ~stage.fifo
        BY <1>1, <2>1, OneWriter DEF stage, step, Last
  <2>3. /\ stage' = stage /\ Last' = Last /\ Booted' = Booted
        /\ \A j : stage'.steps[j] = stage.steps[j] /\ V(j)' = V(j)
        BY <1>1, <1>3, SameRun DEF NextStep
  <2>4. pc' = "step" /\ i' = i + 1
        BY <1>3 DEF NextStep
  <2>5. V(i) = step.vol /\ step = stage.steps[i]
        BY DEF V, step
  <2>6. Delivers(step, stage, Booted) => vol[step.vol] = release
        BY <1>1, <1>3 DEF Delivers, Writes
  <2>7. \A j \in 1 .. i - 1 : Done(j)
        BY <1>1, <2>2 DEF IInv, PlainInv
  <2>8. \A j \in 1 .. i' - 1 : j = i \/ j \in 1 .. i - 1
        BY <2>1, <2>4
  <2>9. \A j \in 1 .. i' - 1 : Done(j)'
        BY <1>1, <2>3, <2>5, <2>6, <2>7, <2>8 DEF Done
  <2>. QED BY <2>2, <2>3, <2>4, <2>9 DEF RunInv, PlainInv, FifoInv
<1>. QED BY <1>1, <1>2, <1>3

LEMMA StepsDoneRun ==
    ASSUME IInv, StepsDone
    PROVE  RunInv'
<1>1. /\ pc = "step" /\ i > Last /\ pc' = IF stage.fifo THEN "post_look" ELSE "set"
      /\ UNCHANGED <<desc, vol, env, release, mode, node, writer, got>>
      BY DEF StepsDone, fifoVars
<1>2. Last \in Nat /\ i \in 1 .. Last + 1
      BY <1>1, AtStage DEF IInv
<1>3. /\ stage' = stage /\ Last' = Last /\ Booted' = Booted
      /\ \A j : stage'.steps[j] = stage.steps[j] /\ V(j)' = V(j)
      BY <1>1, SameRun
<1>4. \A j \in 1 .. Last : j \in 1 .. i - 1
      BY <1>1, <1>2
<1>5. CASE stage.fifo
  <2>1. \A j \in 1 .. Last : Given(j)
        BY <1>1, <1>4, <1>5 DEF IInv, FifoInv
  <2>2. \A j \in 1 .. Last : Given(j)'
        BY <1>1, <1>3, <2>1 DEF Given
  <2>. QED BY <1>1, <1>3, <1>5, <2>2 DEF RunInv, PlainInv, FifoInv
<1>6. CASE ~stage.fifo
  <2>1. \A j \in 1 .. Last : Done(j)
        BY <1>1, <1>4, <1>6 DEF IInv, PlainInv
  <2>2. \A j \in 1 .. Last : Done(j)'
        BY <1>1, <1>3, <2>1 DEF Done
  <2>. QED BY <1>1, <1>3, <1>6, <2>2 DEF RunInv, PlainInv, FifoInv
<1>. QED BY <1>5, <1>6

LEMMA LookRun ==
    ASSUME IInv, Look
    PROVE  RunInv'
<1>1. /\ pc \in {"pre_look", "post_look"} /\ i <= Last
      /\ UNCHANGED <<desc, vol, env, release, mode, node, writer, got>>
      BY DEF Look, fifoVars
<1>2. Last \in Nat /\ i \in 1 .. Last /\ step.vol \in Volumes
      BY <1>1, AtStage DEF IInv
<1>3. /\ stage' = stage /\ Last' = Last /\ Booted' = Booted
      /\ \A j : stage'.steps[j] = stage.steps[j] /\ V(j)' = V(j)
      BY <1>1, SameRun
<1>4. V(i) = step.vol /\ stage.fifo
      BY <1>1 DEF V, step, IInv, FifoInv
<1>5. CASE pc = "pre_look"
  <2>1. \A j \in 1 .. i - 1 : writer[V(j)] # "open"
        BY <1>5 DEF IInv, FifoInv
  <2>2. \/ pc' = "pre_look" /\ i' = i + 1 /\ node[V(i)] = "none"
        \/ pc' = "pre_pad" /\ i' = i
        BY <1>4, <1>5 DEF Look
  <2>3. node[V(i)] = "none" => writer[V(i)] # "open"
        BY <1>2, <1>4 DEF IInv, WriterInv
  <2>4. \A j \in 1 .. i' - 1 : writer[V(j)] # "open"
        BY <1>2, <2>1, <2>2, <2>3
  <2>5. \A j \in 1 .. i' - 1 : writer'[V(j)'] # "open"
        BY <1>1, <1>3, <2>4
  <2>. QED BY <1>3, <1>4, <2>2, <2>5 DEF RunInv, PlainInv, FifoInv
<1>6. CASE pc = "post_look"
  <2>1. \A j \in 1 .. Last : Given(j)
        BY <1>6 DEF IInv, FifoInv
  <2>2. \A j \in 1 .. Last : Given(j)'
        BY <1>1, <1>3, <2>1 DEF Given
  <2>3. pc' \in {"post_look", "post_pad"}
        BY <1>6 DEF Look
  <2>. QED BY <1>3, <1>4, <2>2, <2>3 DEF RunInv, PlainInv, FifoInv
<1>. QED BY <1>1, <1>5, <1>6

\* A writer that ends has written the new release, if its step delivered.
LEMMA GivenEnds ==
    ASSUME IInv, NEW v \in Volumes, Ends(v), writer[v] = "open",
           UNCHANGED <<desc, mode, env, release>>,
           NEW j \in 1 .. Last, V(j) \in Volumes, Given(j)
    PROVE  Given(j)'
<1>1. /\ stage' = stage /\ Last' = Last /\ Booted' = Booted
      /\ stage'.steps[j] = stage.steps[j] /\ V(j)' = V(j)
      BY SameRun
<1>2. /\ \A w \in Volumes : w # v => vol'[w] = vol[w]
      /\ vol'[v] = IF got[v] < 0 THEN Torn ELSE got[v]
      BY EndsVolume DEF IInv
<1>3. /\ node \in [Volumes -> {"none", "fifo", "file"}]
      /\ writer \in [Volumes -> {"none", "starting", "open"}]
      /\ writer' = [writer EXCEPT ![v] = "none"]
      /\ node' = [node EXCEPT ![v] = "none"]
      /\ got' = got
      BY DEF IInv, TypeOK, Ends
<1>4. release > 0 /\ release \in Nat
  <2>1. release \in 1 .. MaxRelease
        BY DEF IInv, TypeOK
  <2>. QED BY <2>1, OtaAssumption
<1>5. CASE V(j) = v
  <2>1. vol[v] # release /\ node[v] # "file"
        BY <1>4 DEF IInv, WriterInv, Torn
  <2>2. Delivers(stage.steps[j], stage, Booted) => got[v] = release
        BY <1>5, <2>1 DEF Given
  <2>3. got[v] = release => vol'[v] = release
        BY <1>2, <1>4
  <2>. QED BY <1>1, <1>5, <2>2, <2>3 DEF Given
<1>6. CASE V(j) # v
      BY <1>1, <1>2, <1>3, <1>6 DEF Given
<1>. QED BY <1>5, <1>6

LEMMA PadRun ==
    ASSUME IInv, Pad
    PROVE  RunInv'
<1>1. /\ pc \in {"pre_pad", "post_pad"} /\ i' = i + 1
      /\ pc' = (IF pc = "pre_pad" THEN "pre_look" ELSE "post_look")
      /\ UNCHANGED <<desc, mode, env, release>>
      BY DEF Pad
<1>2. /\ i <= Last /\ Last \in Nat /\ i \in 1 .. Last /\ step.vol \in Volumes
      /\ \A j \in 1 .. Last : V(j) \in Volumes
      BY <1>1, AtStage DEF IInv, PcInv
<1>3. /\ stage' = stage /\ Last' = Last /\ Booted' = Booted
      /\ \A j : stage'.steps[j] = stage.steps[j] /\ V(j)' = V(j)
      BY <1>1, SameRun
<1>4. V(i) = step.vol /\ stage.fifo
      BY <1>1 DEF V, step, IInv, FifoInv
<1>5. /\ node \in [Volumes -> {"none", "fifo", "file"}]
      /\ writer \in [Volumes -> {"none", "starting", "open"}]
      BY DEF IInv, TypeOK
<1>6. \/ writer[step.vol] = "open" /\ Ends(step.vol)
      \/ /\ writer[step.vol] # "open"
         /\ node' = [node EXCEPT ![step.vol] = "file"] /\ UNCHANGED <<vol, writer, got>>
      BY DEF Pad
<1>7. CASE pc = "pre_pad"
  <2>1. writer'[step.vol] # "open"
        /\ \A w \in Volumes : w # step.vol => writer'[w] = writer[w]
        BY <1>2, <1>5, <1>6 DEF Ends
  <2>2. \A j \in 1 .. i - 1 : writer[V(j)] # "open" /\ j \in 1 .. Last
        BY <1>2, <1>7 DEF IInv, FifoInv
  <2>3. \A j \in 1 .. i' - 1 : j = i \/ j \in 1 .. i - 1
        BY <1>1, <1>2
  <2>4. \A j \in 1 .. i' - 1 : writer'[V(j)] # "open"
        BY <1>2, <1>4, <2>1, <2>2, <2>3
  <2>5. \A j \in 1 .. i' - 1 : writer'[V(j)'] # "open"
        BY <1>3, <2>4
  <2>. QED BY <1>1, <1>3, <1>4, <1>7, <2>5 DEF RunInv, PlainInv, FifoInv
<1>8. CASE pc = "post_pad"
  <2>1. \A j \in 1 .. Last : Given(j)
        BY <1>8 DEF IInv, FifoInv
  <2>4. \A j \in 1 .. Last : Given(j)'
    <3>1. CASE writer[step.vol] = "open" /\ Ends(step.vol)
          BY <1>1, <1>2, <2>1, <3>1, GivenEnds
    <3>2. CASE node' = [node EXCEPT ![step.vol] = "file"] /\ UNCHANGED <<vol, writer, got>>
          BY <1>1, <1>2, <1>3, <1>5, <2>1, <3>2 DEF Given
    <3>. QED BY <1>6, <3>1, <3>2
  <2>. QED BY <1>1, <1>3, <1>4, <1>8, <2>4 DEF RunInv, PlainInv, FifoInv
<1>. QED BY <1>1, <1>7, <1>8

LEMMA StartWritersRun ==
    ASSUME IInv, StartWriters
    PROVE  RunInv'
<1>1. /\ pc = "pre_look" /\ i > Last /\ pc' = "pre_test" /\ i' = 1
      /\ UNCHANGED <<desc, mode, env, release, node, got>>
      /\ writer' = [v \in Volumes |->
                      IF v \in Written(stage) /\ writer[v] = "none" THEN "starting"
                      ELSE writer[v]]
      BY DEF StartWriters
<1>2. /\ Last \in Nat /\ i \in 1 .. Last + 1
      /\ \A j \in 1 .. Last : V(j) \in Volumes
      BY <1>1, AtStage DEF IInv
<1>3. /\ stage' = stage /\ Last' = Last
      /\ \A j : V(j)' = V(j)
      BY <1>1, SameRun
<1>4. stage.fifo /\ \A j \in 1 .. Last : writer[V(j)] # "open"
      BY <1>1, <1>2 DEF IInv, FifoInv
<1>5. \A j \in 1 .. Last : writer'[V(j)] # "open"
      BY <1>1, <1>2, <1>4
<1>6. 1 .. i' - 1 = {}
      BY <1>1
<1>. QED BY <1>1, <1>3, <1>4, <1>5, <1>6 DEF RunInv, PlainInv, FifoInv

LEMMA PostPaddedRun ==
    ASSUME IInv, PostPadded
    PROVE  RunInv'
<1>1. /\ pc = "post_look" /\ pc' = "post_test" /\ i' = 1
      /\ UNCHANGED <<desc, vol, env, release, mode, node, writer, got>>
      BY DEF PostPadded, fifoVars
<1>2. /\ stage' = stage /\ Last' = Last /\ Booted' = Booted
      /\ \A j : stage'.steps[j] = stage.steps[j] /\ V(j)' = V(j)
      BY <1>1, SameRun
<1>3. stage.fifo /\ \A j \in 1 .. Last : Given(j)
      BY <1>1 DEF IInv, FifoInv
<1>4. \A j \in 1 .. Last : Given(j)'
      BY <1>1, <1>2, <1>3 DEF Given
<1>5. 1 .. i' - 1 = {}
      BY <1>1
<1>. QED BY <1>1, <1>2, <1>3, <1>4, <1>5 DEF RunInv, PlainInv, FifoInv

LEMMA TestRun ==
    ASSUME IInv, Test
    PROVE  RunInv'
<1>1. /\ pc \in {"pre_test", "post_test"}
      /\ UNCHANGED <<desc, vol, env, release, node, writer, got>>
      BY DEF Test, fifoVars
<1>2. CASE Fails
      BY <1>2, NotRunning DEF Fails
<1>3. CASE ~Fails
  <2>1. mode' = mode
        BY <1>3 DEF Test
  <2>2. /\ Last \in Nat /\ i \in 1 .. Last + 1 /\ stage = Cur
        /\ \A j \in 1 .. Last : V(j) \in Volumes
        BY <1>1, AtStage DEF IInv
  <2>3. /\ stage' = stage /\ Last' = Last /\ Booted' = Booted
        /\ \A j : stage'.steps[j] = stage.steps[j] /\ V(j)' = V(j)
        BY <1>1, <2>1, SameRun
  <2>4. stage.fifo
        BY <1>1 DEF IInv, FifoInv
  <2>5. i <= Last => V(i) = step.vol
        BY DEF V, step
  <2>6. \/ i > Last /\ i' = 1 /\ pc' = IF pc = "pre_test" THEN "step" ELSE "set"
        \/ /\ i <= Last /\ i' = i + 1 /\ pc' = pc
           /\ node[step.vol] = "none" <=> pc = "post_test"
        BY <1>1, <1>3, <2>2 DEF Test
  <2>7. /\ node \in [Volumes -> {"none", "fifo", "file"}]
        /\ writer \in [Volumes -> {"none", "starting", "open"}]
        BY DEF IInv, TypeOK
  <2>8. CASE pc = "pre_test"
    <3>1. /\ \A j \in 1 .. Last : writer[V(j)] = "open" => got[V(j)] = Nothing
          /\ \A j \in 1 .. i - 1 : node[V(j)] # "none"
          BY <2>8 DEF IInv, FifoInv
    <3>2. CASE i > Last
      <4>1. \A j \in 1 .. Last : j \in 1 .. i - 1
            BY <2>2, <3>2
      <4>2. \A j \in 1 .. Last : node[V(j)] = "file" \/ node[V(j)] = "fifo"
            BY <2>2, <2>7, <3>1, <4>1
      <4>3. \A j \in 1 .. Last : Waits(j, Nothing)
            BY <2>2, <3>1, <4>2 DEF Waits, IInv, WriterInv
      <4>4. \A j \in 1 .. Last : Waits(j, Nothing)'
            BY <1>1, <2>3, <4>3 DEF Waits, Nothing
      <4>5. pc' = "step" /\ i' = 1 /\ 1 .. i' - 1 = {}
            BY <2>2, <2>6, <2>8, <3>2
      <4>6. (\A j \in i .. Last :
                Waits(j, IF pc = "writing" /\ j = i THEN Part ELSE Nothing))'
            BY <2>3, <4>4, <4>5 DEF Waits, Nothing
      <4>. QED BY <2>3, <2>4, <4>5, <4>6 DEF RunInv, PlainInv, FifoInv
    <3>3. CASE ~(i > Last)
      <4>1. i' = i + 1 /\ pc' = "pre_test" /\ node[V(i)] # "none"
            BY <2>5, <2>6, <2>8, <3>3
      <4>2. \A j \in 1 .. i' - 1 : j = i \/ j \in 1 .. i - 1
            BY <2>2, <4>1
      <4>3. \A j \in 1 .. i' - 1 : node'[V(j)'] # "none"
            BY <1>1, <2>3, <3>1, <4>1, <4>2
      <4>4. \A j \in 1 .. Last' : writer'[V(j)'] = "open" => got'[V(j)'] = Nothing
            BY <1>1, <2>3, <3>1
      <4>. QED BY <2>3, <2>4, <4>1, <4>3, <4>4 DEF RunInv, PlainInv, FifoInv, Nothing
    <3>. QED BY <3>2, <3>3
  <2>9. CASE pc = "post_test"
    <3>1. /\ \A j \in 1 .. Last : Given(j)
          /\ \A j \in 1 .. i - 1 : node[V(j)] = "none"
          BY <2>9 DEF IInv, FifoInv
    <3>2. CASE i > Last
      <4>1. \A v \in Volumes : writer[v] = "none"
            BY <2>9, <3>2, WritersGone
      <4>2. \A j \in 1 .. Last : node[V(j)] = "none"
            BY <2>2, <3>1, <3>2
      <4>3. \A j \in 1 .. Last : Done(j)
            BY <2>2, <3>1, <4>1, <4>2 DEF Given, Done
      <4>4. \A j \in 1 .. Last : Done(j)'
            BY <1>1, <2>3, <4>3 DEF Done
      <4>5. pc' = "set"
            BY <2>2, <2>6, <2>9, <3>2
      <4>. QED BY <2>3, <4>4, <4>5 DEF RunInv, PlainInv, FifoInv
    <3>3. CASE ~(i > Last)
      <4>1. i' = i + 1 /\ pc' = "post_test" /\ node[V(i)] = "none"
            BY <2>2, <2>5, <2>6, <2>9, <3>3
      <4>2. \A j \in 1 .. i' - 1 : j = i \/ j \in 1 .. i - 1
            BY <2>2, <4>1
      <4>3. \A j \in 1 .. i' - 1 : node'[V(j)'] = "none"
            BY <1>1, <2>3, <3>1, <4>1, <4>2
      <4>4. \A j \in 1 .. Last : Given(j)'
            BY <1>1, <2>3, <3>1 DEF Given
      <4>. QED BY <2>3, <2>4, <4>1, <4>3, <4>4 DEF RunInv, PlainInv, FifoInv
    <3>. QED BY <3>2, <3>3
  <2>. QED BY <1>1, <2>8, <2>9
<1>. QED BY <1>2, <1>3

LEMMA WriterRun ==
    ASSUME IInv, NEW v \in Volumes, Writer(v)
    PROVE  RunInv'
<1>1. UNCHANGED <<desc, mode, env, release, pc, i>>
      BY DEF Writer, WriterOpens, WriterDies, WriterFull, swuVars
<1>2. CASE pc \in {"idle", "failed", "after"}
      BY <1>1, <1>2, NotRunning
<1>3. CASE pc \notin {"idle", "failed", "after"}
  <2>1. /\ Last \in Nat /\ i \in 1 .. Last + 1 /\ stage = Cur /\ Updating
        /\ DOMAIN stage.steps = 1 .. Last
        /\ \A j \in 1 .. Last : V(j) \in Volumes
        BY <1>3, AtStage DEF IInv
  <2>2. /\ stage' = stage /\ Last' = Last /\ Booted' = Booted
        /\ \A j : stage'.steps[j] = stage.steps[j] /\ V(j)' = V(j)
        BY <1>1, SameRun
  <2>3. writer[v] # "none"
        BY DEF Writer, WriterOpens, WriterDies, WriterFull
  <2>4. /\ stage.fifo /\ v \in Written(stage) /\ pc # "set"
        /\ writer[v] = "open" <=> node[v] = "fifo"
        /\ writer[v] = "starting" => pc = "pre_test"
        BY <2>1, <2>3 DEF IInv, WriterInv
  <2>5. /\ node \in [Volumes -> {"none", "fifo", "file"}]
        /\ writer \in [Volumes -> {"none", "starting", "open"}]
        /\ got \in [Volumes -> Part .. MaxRelease]
        BY DEF IInv, TypeOK
  <2>6. PICK k \in 1 .. Last : v = V(k)
        BY <2>1, <2>4 DEF Written, V
  <2>7. CASE WriterOpens(v) \/ WriterDies(v)
    <3>1. writer[v] = "starting" /\ pc = "pre_test"
          BY <2>4, <2>7 DEF WriterOpens, WriterDies
    <3>2. /\ \A j \in 1 .. Last : writer[V(j)] = "open" => got[V(j)] = Nothing
          /\ \A j \in 1 .. i - 1 : node[V(j)] # "none" /\ j \in 1 .. Last
          BY <2>1, <3>1 DEF IInv, FifoInv
    <3>3. \A j \in 1 .. Last : writer'[V(j)] = "open" => got'[V(j)] = Nothing
          BY <2>1, <2>5, <2>7, <3>2 DEF WriterOpens, WriterDies
    <3>4. \A j \in 1 .. i - 1 : node'[V(j)] # "none"
          BY <2>1, <2>5, <2>7, <3>2 DEF WriterOpens, WriterDies
    <3>5. /\ \A j \in 1 .. Last' : writer'[V(j)'] = "open" => got'[V(j)'] = Nothing
          /\ \A j \in 1 .. i' - 1 : node'[V(j)'] # "none"
          BY <1>1, <2>2, <3>3, <3>4
    <3>. QED BY <1>1, <2>2, <2>4, <3>1, <3>5 DEF RunInv, PlainInv, FifoInv, Nothing
  <2>8. CASE WriterFull(v)
    <3>1. writer[v] = "open" /\ got[v] >= Torn /\ Ends(v)
          BY <2>8 DEF WriterFull
    <3>2. node[v] = "fifo" /\ got[v] # Nothing /\ got[v] # Part
          BY <2>4, <2>5, <3>1 DEF Torn, Nothing, Part
    <3>3. /\ writer' = [writer EXCEPT ![v] = "none"]
          /\ node' = [node EXCEPT ![v] = "none"] /\ got' = got
          BY <3>1 DEF Ends
    <3>4. CASE pc \in {"pre_look", "pre_pad"}
      <4>1. \A j \in 1 .. i - 1 : writer[V(j)] # "open" /\ V(j) \in Volumes
            BY <2>1, <3>4 DEF IInv, FifoInv
      <4>2. \A j \in 1 .. i - 1 : writer'[V(j)'] # "open"
            BY <2>2, <2>5, <3>3, <4>1
      <4>. QED BY <1>1, <2>2, <2>4, <3>4, <4>2 DEF RunInv, PlainInv, FifoInv
    <3>5. CASE pc = "pre_test"
          BY <2>6, <3>1, <3>2, <3>5 DEF IInv, FifoInv
    <3>6. CASE pc \in {"step", "writing"}
      <4>1. /\ \A j \in 1 .. i - 1 : Given(j)
            /\ \A j \in i .. Last :
                  Waits(j, IF pc = "writing" /\ j = i THEN Part ELSE Nothing)
            BY <2>4, <3>6 DEF IInv, FifoInv
      <4>2. \A j \in 1 .. i - 1 : j \in 1 .. Last
            BY <2>1
      <4>3. \A j \in 1 .. i - 1 : Given(j)'
            BY <1>1, <2>1, <3>1, <4>1, <4>2, GivenEnds
      <4>4. \A j \in i .. Last : V(j) # v /\ V(j) \in Volumes
            BY <2>1, <3>2, <4>1 DEF Waits
      <4>5. (\A j \in i .. Last :
                Waits(j, IF pc = "writing" /\ j = i THEN Part ELSE Nothing))'
            BY <1>1, <2>2, <2>5, <3>3, <4>1, <4>4 DEF Waits, Part, Nothing
      <4>. QED BY <1>1, <2>2, <2>4, <3>6, <4>3, <4>5 DEF RunInv, PlainInv, FifoInv
    <3>7. CASE pc \in {"post_look", "post_pad", "post_test"}
      <4>1. \A j \in 1 .. Last : Given(j)
            BY <3>7 DEF IInv, FifoInv
      <4>2. \A j \in 1 .. Last : Given(j)'
            BY <1>1, <2>1, <3>1, <4>1, GivenEnds
      <4>3. ASSUME pc = "post_test"
            PROVE  \A j \in 1 .. i - 1 : node'[V(j)'] = "none"
        <5>1. \A j \in 1 .. i - 1 : node[V(j)] = "none" /\ V(j) \in Volumes
              BY <2>1, <4>3 DEF IInv, FifoInv
        <5>. QED BY <2>2, <2>5, <3>3, <5>1
      <4>. QED BY <1>1, <2>2, <2>4, <3>7, <4>2, <4>3 DEF RunInv, PlainInv, FifoInv
    <3>. QED BY <1>3, <2>4, <3>4, <3>5, <3>6, <3>7 DEF IInv, TypeOK
  <2>. QED BY <2>7, <2>8 DEF Writer
<1>. QED BY <1>2, <1>3

LEMMA RunNext ==
    ASSUME IInv, [Next]_vars
    PROVE  RunInv'
<1>1. CASE UNCHANGED vars
      BY <1>1 DEF vars, swuVars, fifoVars, IInv, RunInv, PlainInv, FifoInv, Done, Given,
                  Waits, V, stage, Last, Booted
<1>2. CASE Begin \/ Boot
  <2>1. pc' = "idle"
        BY <1>2 DEF Begin, Boot, swuVars, IInv, PlaceInv
  <2>. QED BY <2>1, NotRunning
<1>3. CASE StepFault \/ Retry \/ SetEnv \/ PowerCut \/ Handover
      BY <1>3, NotRunning DEF StepFault, Fails, Retry, SetEnv, PowerCut, Handover, Down
<1>. QED BY <1>1, <1>2, <1>3, StartRun, OpenRun, CloseRun, CompareRun, StepsDoneRun, SMTT(60),
            LookRun, PadRun, StartWritersRun, TestRun, PostPaddedRun, WriterRun
         DEF Next, Swupdate
-----------------------------------------------------------------------------
LEMMA InitInv == Init => IInv
<1>. SUFFICES ASSUME Init PROVE IInv
     OBVIOUS
<1>1. desc \in Descriptions /\ Sound(desc)
      BY OtaAssumption DEF Init
<1>2. PICK b \in desc.begins :
          /\ running = b[1]
          /\ env = [mode |-> "", boot |-> b[1].boot, root |-> b[1].root]
          /\ vol \in {c \in [desc.volumes -> {Torn, 1}] : \A v \in VolumesOf(b[1]) : c[v] = 1}
      BY DEF Init
<1>3. b[2] \in DOMAIN desc.stages /\ b[1] \in desc.stages[b[2]].in
      BY <1>1 DEF Sound
<1>4. b[1] \in [boot : STRING, root : STRING] /\ VolumesOf(b[1]) \subseteq Volumes
      BY <1>1, <1>3, SystemFacts DEF Volumes
<1>5. Booted = b[1] /\ ~Updating /\ release = 1 /\ Current = 1 /\ running = Booted
      BY <1>2, <1>4 DEF Booted, System, Updating, Current, Init
<1>6. /\ 0 \in 0 .. MaxCuts /\ 0 \in 0 .. MaxFaults /\ 1 \in 1 .. MaxRelease
      /\ {Torn, 1} \subseteq Torn .. MaxRelease /\ Nothing \in Part .. MaxRelease
      BY OtaAssumption DEF Torn, Nothing, Part
<1>7. vol \in [Volumes -> Torn .. MaxRelease] /\ \A v \in VolumesOf(b[1]) : vol[v] = 1
      BY <1>2, <1>6 DEF Volumes
<1>8. TypeOK
      BY <1>1, <1>2, <1>4, <1>6, <1>7 DEF TypeOK, Init
<1>9. PlaceInv
      BY <1>4, <1>5, <1>7 DEF PlaceInv, Whole, Init
<1>10. WriterInv
      BY DEF WriterInv, Init
<1>11. PlainInv /\ FifoInv /\ PcInv
      BY DEF PlainInv, FifoInv, PcInv, Init
<1>. QED BY <1>8, <1>9, <1>10, <1>11 DEF IInv

LEMMA NextInv == IInv /\ [Next]_vars => IInv'
BY TypeNext, PlaceNext, WriterNext, RunNext DEF IInv, RunInv

LEMMA Invariance == Spec => []IInv
BY InitInv, NextInv, PTL DEF Spec

(* The state of a device is of the types the scripts and the boot loader expect. *)
THEOREM TypeCorrect == Spec => []TypeOK
<1>1. IInv => TypeOK
      BY DEF IInv
<1>. QED BY <1>1, Invariance, PTL

LEMMA CurrentType ==
    ASSUME IInv
    PROVE  Current \in 1 .. MaxRelease
<1>1. release \in 1 .. MaxRelease
      BY DEF IInv, TypeOK
<1>2. Updating /\ Cur.on = "old" => release > 1
      BY DEF IInv, PlaceInv
<1>. QED BY <1>1, <1>2, OtaAssumption DEF Current

(* Whenever power fails the boot loader is told to start a system that is whole *)
(* and of one release.                                                          *)
THEOREM AlwaysBootable == Spec => []Bootable
<1>1. IInv => Bootable
      BY CurrentType DEF IInv, PlaceInv, Bootable
<1>. QED BY <1>1, Invariance, PTL

(* No volume changes under the system that runs from it. *)
THEOREM RunsUndisturbed == Spec => RunningIntact
<1>1. IInv /\ [Next]_vars =>
          [running # Off /\ running' = running =>
              \A v \in VolumesOf(running) : vol'[v] = vol[v]]_vars
      BY Kept
<1>. QED BY <1>1, Invariance, PTL DEF Spec, RunningIntact
-----------------------------------------------------------------------------
(* The device seen from outside. *)
LEMMA OneRelease ==
    ASSUME NEW s, NEW r, NEW q, Whole(s, r), Whole(s, q)
    PROVE  r = q
BY DEF Whole, VolumesOf

Seen == [kind |-> IF env.boot = "recovery" THEN "rescue" ELSE "system",
         release |-> Current]

SeenRight == boots = Seen

LEMMA BootsIs == IInv => SeenRight
<1>. SUFFICES ASSUME IInv PROVE SeenRight
     OBVIOUS
<1>1. Whole(Booted, Current) /\ Current \in 1 .. MaxRelease
      BY CurrentType DEF IInv, PlaceInv
<1>2. \A r \in 1 .. MaxRelease : Whole(Booted, r) => r = Current
      BY <1>1, OneRelease
<1>3. (CHOOSE r \in 1 .. MaxRelease : Whole(Booted, r)) = Current
      BY <1>1, <1>2
<1>. QED BY <1>1, <1>3 DEF boots, Seen, SeenRight

LEMMA BootsIsNext == IInv' => SeenRight'
BY BootsIs, PTL

LEMMA BootsStays ==
    ASSUME IInv, IInv', Next, VolumesOf(Booted') = VolumesOf(Booted),
           env'.boot = "recovery" <=> env.boot = "recovery"
    PROVE  boots' = boots
<1>1. PICK v : v \in VolumesOf(Booted)
      BY DEF VolumesOf
<1>2. vol'[v] = vol[v] /\ vol[v] = Current
      BY <1>1, Kept DEF IInv, PlaceInv, Whole
<1>3. vol'[v] = Current'
      BY <1>1 DEF IInv, PlaceInv, Whole
<1>4. Current' = Current
      BY <1>2, <1>3
<1>5. Seen' = Seen
      BY <1>4 DEF Seen
<1>. QED BY <1>5, BootsIs, BootsIsNext DEF SeenRight

LEMMA SetEnvStep ==
    ASSUME IInv, IInv', SetEnv
    PROVE  Device!Next \/ boots' = boots
<1>1. /\ pc = "set" /\ UNCHANGED <<desc, vol, release>>
      /\ env' = [mode |-> stage.mode, boot |-> Left(env.boot, stage.boot),
                 root |-> Left(env.root, stage.root)]
      BY DEF SetEnv
<1>2. /\ Sound(desc) /\ mode \in DOMAIN desc.stages /\ Updating /\ stage = Cur
      /\ stage = desc.stages[mode]
      BY <1>1, AtStage DEF IInv, stage
<1>3. Booted \in desc.stages[mode].in
      BY <1>2 DEF IInv, PlaceInv
<1>4. Switches(desc.stages[mode], Booted) /\ Rescues(desc.stages[mode], Booted)
      BY <1>2, <1>3, SystemFacts
<1>5. Booted' = After(Booted, stage) /\ Booted.boot = env.boot /\ Booted'.boot = env'.boot
      BY <1>1 DEF Booted, After, System
<1>6. CASE VolumesOf(Booted') = VolumesOf(Booted)
  <2>1. env'.boot = "recovery" <=> env.boot = "recovery"
        BY <1>5, <1>6 DEF VolumesOf
  <2>. QED BY <1>6, <2>1, BootsStays DEF Next, Swupdate
<1>7. CASE VolumesOf(Booted') # VolumesOf(Booted)
  <2>1. VolumesOf(Booted') \subseteq Delivered(stage, Booted)
        BY <1>2, <1>4, <1>5, <1>7 DEF Switches
  <2>2. Current' = release
    <3>1. PICK v : v \in VolumesOf(Booted')
          BY DEF VolumesOf
    <3>2. vol[v] = release /\ vol' = vol
          BY <1>1, <2>1, <3>1, DeliveredRelease
    <3>3. vol'[v] = Current'
          BY <3>1 DEF IInv, PlaceInv, Whole
    <3>. QED BY <3>2, <3>3
  <2>3. boots = [kind |-> IF env.boot = "recovery" THEN "rescue" ELSE "system",
                 release |-> Current]
        BY BootsIs DEF Seen, SeenRight
  <2>4. boots' = [kind |-> IF env'.boot = "recovery" THEN "rescue" ELSE "system",
                  release |-> release]
        BY <2>2, BootsIsNext DEF Seen, SeenRight
  <2>5. CASE stage.on = "old"
    <3>1. Current = release - 1 /\ release \in Nat
      <4>1. release \in 1 .. MaxRelease
            BY DEF IInv, TypeOK
      <4>. QED BY <1>2, <2>5, <4>1, OtaAssumption DEF Current
    <3>2. env.boot # "recovery"
          BY <1>2, <1>4, <1>5, <2>5 DEF Rescues
    <3>3. boots = [kind |-> "system", release |-> Current] /\ Current + 1 = release
          BY <2>3, <3>1, <3>2
    <3>. QED BY <2>4, <3>3 DEF Device!Next, Device!Advance, Device!System, Device!Rescue
  <2>6. CASE stage.on # "old"
    <3>1. Current = release
          BY <1>2, <2>6 DEF Current
    <3>2. env'.boot = "recovery" => env.boot = "recovery"
          BY <1>2, <1>4, <1>5, <2>6 DEF Rescues
    <3>3. ~(env'.boot = "recovery" /\ env.boot = "recovery")
          BY <1>5, <1>7 DEF VolumesOf
    <3>4. boots' = [kind |-> "system", release |-> release]
          BY <2>4, <3>2, <3>3
    <3>. QED BY <2>3, <3>1, <3>4 DEF Device!Next, Device!Complete, Device!System, Device!Rescue
  <2>. QED BY <2>5, <2>6
<1>. QED BY <1>6, <1>7

(* Seen from outside a device goes from one whole release to the next, directly *)
(* or by way of a whole recovery system that completes the update.              *)
THEOREM UpdatesFollow == Spec => Implements
<1>1. Init => Device!Init
  <2>. SUFFICES ASSUME Init PROVE Device!Init
       OBVIOUS
  <2>1. IInv
        BY InitInv
  <2>2. PICK b \in desc.begins :
          env = [mode |-> "", boot |-> b[1].boot, root |-> b[1].root]
        BY DEF Init
  <2>3. /\ Sound(desc) /\ b[2] \in DOMAIN desc.stages
        /\ b[1] \in desc.stages[b[2]].in /\ desc.stages[b[2]].on = "old"
        BY <2>1, OtaAssumption DEF IInv, TypeOK, Sound
  <2>4. env.boot # "recovery"
        BY <2>2, <2>3, SystemFacts DEF Rescues
  <2>5. Current = 1
        BY <2>2 DEF Init, Current, Updating
  <2>. QED BY <2>1, <2>4, <2>5, BootsIs DEF Seen, SeenRight, Device!Init, Device!System
<1>2. IInv /\ IInv' /\ [Next]_vars => [Device!Next]_boots
  <2>. SUFFICES ASSUME IInv, IInv', [Next]_vars PROVE Device!Next \/ boots' = boots
       OBVIOUS
  <2>1. CASE UNCHANGED vars
        BY <2>1 DEF vars, boots, Whole, Booted
  <2>2. CASE SetEnv
        BY <2>2, SetEnvStep
  <2>3. ASSUME Next, env'.boot = env.boot, env'.root = env.root
        PROVE  boots' = boots
    <3>1. Booted' = Booted
          BY <2>3 DEF Booted
    <3>. QED BY <2>3, <3>1, BootsStays
  <2>4. CASE Begin
    <3>1. env'.boot = env.boot /\ env'.root = env.root
          BY <2>4 DEF Begin, IInv, TypeOK
    <3>. QED BY <2>3, <2>4, <3>1 DEF Next
  <2>5. CASE Start \/ OpenVolume \/ CloseVolume \/ Compare \/ StepsDone \/ Retry \/ StepFault
        BY <2>3, <2>5 DEF Start, OpenVolume, CloseVolume, Compare, StepsDone, Retry,
                          StepFault, Next, Swupdate
  <2>6. CASE Look \/ Pad \/ StartWriters \/ Test \/ PostPadded
        BY <2>3, <2>6 DEF Look, Pad, StartWriters, Test, PostPadded, Next, Swupdate
  <2>7. CASE PowerCut \/ Handover \/ Boot
        BY <2>3, <2>7 DEF PowerCut, Handover, Down, Boot, Next, Swupdate
  <2>8. ASSUME NEW v \in Volumes, Writer(v)
        PROVE  boots' = boots
        BY <2>3, <2>8 DEF Writer, WriterOpens, WriterDies, WriterFull, Next
  <2>. QED BY <2>1, <2>2, <2>4, <2>5, <2>6, <2>7, <2>8 DEF Next, Swupdate
<1>. QED BY <1>1, <1>2, Invariance, PTL DEF Spec, Implements, Device!Spec
-----------------------------------------------------------------------------
(* In the recovery system the update can go on. *)
RescueInv == env.boot = "recovery" => Updating /\ (Cur.mode = "" => Leaves(Cur))

\* The variables change when an update begins and when a stage ends, and only then.
LEMMA EnvSteps ==
    ASSUME IInv, [Next]_vars
    PROVE  Begin \/ SetEnv \/ UNCHANGED <<desc, env, release>>
<1>1. CASE UNCHANGED vars
      BY <1>1 DEF vars
<1>2. CASE Start \/ OpenVolume \/ CloseVolume \/ Compare \/ StepsDone \/ Retry \/ StepFault
      BY <1>2 DEF Start, OpenVolume, CloseVolume, Compare, StepsDone, Retry, StepFault
<1>3. CASE Look \/ Pad \/ StartWriters \/ Test \/ PostPadded
      BY <1>3 DEF Look, Pad, StartWriters, Test, PostPadded
<1>4. CASE PowerCut \/ Handover \/ Boot
      BY <1>4 DEF PowerCut, Handover, Down, Boot
<1>5. ASSUME NEW v \in Volumes, Writer(v)
      PROVE  UNCHANGED <<desc, env, release>>
      BY <1>5 DEF Writer, WriterOpens, WriterDies, WriterFull
<1>. QED BY <1>1, <1>2, <1>3, <1>4, <1>5 DEF Next, Swupdate

\* What Begin and SetEnv do to the variables.
LEMMA BeginFacts ==
    ASSUME IInv, Begin
    PROVE  \E b \in desc.begins :
              /\ b[1] = Booted /\ b[1].boot # "recovery"
              /\ b[2] \in DOMAIN desc.stages
              /\ ~Updating /\ pc = "idle" /\ Whole(Booted, release)
              /\ release \in Nat /\ release > 0 /\ release' = release + 1
              /\ UNCHANGED <<desc, vol, pc>>
              /\ env' = [env EXCEPT !.mode = b[2]]
              /\ Updating' /\ Cur' = desc.stages[b[2]] /\ env'.mode = b[2]
              /\ env'.boot = env.boot
<1>1. PICK b \in desc.begins :
          /\ b[1] = running
          /\ release' = vol[running.boot] + 1
          /\ env' = [env EXCEPT !.mode = b[2]]
      BY DEF Begin
<1>2. /\ ~Updating /\ pc = "idle" /\ running = Booted /\ UNCHANGED <<desc, vol, pc>>
      BY DEF Begin, Updating, IInv, PlaceInv, swuVars
<1>3. Sound(desc)
      BY OtaAssumption DEF IInv, TypeOK
<1>4. /\ b[2] \in DOMAIN desc.stages /\ b[2] # "" /\ b[1] \in desc.stages[b[2]].in
      /\ desc.stages[b[2]].on = "old"
      BY <1>3 DEF Sound
<1>5. b[1].boot # "recovery"
      BY <1>3, <1>4, SystemFacts DEF Rescues
<1>6. env'.mode = b[2] /\ env'.boot = env.boot
      BY <1>1 DEF IInv, TypeOK
<1>7. Updating' /\ Cur' = desc.stages[b[2]]
      BY <1>2, <1>4, <1>6 DEF Updating, Cur
<1>8. Whole(Booted, release)
      BY <1>2 DEF IInv, PlaceInv, Current
<1>9. running.boot \in VolumesOf(running)
      BY DEF VolumesOf
<1>10. release' = release + 1
      BY <1>1, <1>2, <1>8, <1>9 DEF Whole
<1>11. release \in Nat /\ release > 0
  <2>1. release \in 1 .. MaxRelease
        BY DEF IInv, TypeOK
  <2>. QED BY <2>1, OtaAssumption
<1>. QED BY <1>1, <1>2, <1>4, <1>5, <1>6, <1>7, <1>8, <1>10, <1>11

LEMMA SetEnvFacts ==
    ASSUME IInv, SetEnv
    PROVE  /\ Sound(desc) /\ mode \in DOMAIN desc.stages /\ stage = desc.stages[mode]
           /\ mode = env.mode /\ Updating /\ stage = Cur /\ Booted \in stage.in
           /\ pc = "set" /\ pc' = "after" /\ UNCHANGED <<desc, vol, release, mode>>
           /\ env' = [mode |-> stage.mode, boot |-> Left(env.boot, stage.boot),
                      root |-> Left(env.root, stage.root)]
           /\ stage.mode = "" \/ stage.mode \in DOMAIN desc.stages
           /\ Updating' <=> stage.mode # ""
           /\ Cur' = desc.stages[stage.mode]
<1>1. /\ pc = "set" /\ pc' = "after" /\ UNCHANGED <<desc, vol, release, mode>>
      /\ env' = [mode |-> stage.mode, boot |-> Left(env.boot, stage.boot),
                 root |-> Left(env.root, stage.root)]
      BY DEF SetEnv
<1>2. /\ Sound(desc) /\ mode \in DOMAIN desc.stages /\ mode = env.mode
      /\ Updating /\ stage = Cur
      BY <1>1, AtStage DEF IInv
<1>3. Booted \in stage.in
      BY <1>2 DEF IInv, PlaceInv
<1>4. stage = desc.stages[mode]
      BY DEF stage
<1>5. stage.mode = "" \/ stage.mode \in DOMAIN desc.stages
      BY <1>2, <1>3, <1>4, SystemFacts
<1>6. (Updating' <=> stage.mode # "") /\ Cur' = desc.stages[stage.mode]
      BY <1>1 DEF Updating, Cur
<1>. QED BY <1>1, <1>2, <1>3, <1>4, <1>5, <1>6

LEMMA RescueNext ==
    ASSUME IInv, RescueInv, [Next]_vars
    PROVE  RescueInv'
<1>1. CASE UNCHANGED <<desc, env, release>>
      BY <1>1 DEF RescueInv, Updating, Cur
<1>2. CASE Begin
  <2>1. env'.boot = env.boot /\ Booted.boot = env.boot
        BY <1>2, BeginFacts DEF Booted, System
  <2>. QED BY <1>2, <2>1, BeginFacts DEF RescueInv
<1>3. CASE SetEnv
  <2>. SUFFICES ASSUME env'.boot = "recovery"
                PROVE  Updating' /\ (Cur'.mode = "" => Leaves(Cur'))
       BY DEF RescueInv
  <2>1. /\ Sound(desc) /\ mode \in DOMAIN desc.stages /\ stage = desc.stages[mode]
        /\ stage = Cur /\ (Updating' <=> stage.mode # "") /\ Cur' = desc.stages[stage.mode]
        /\ stage.mode = "" \/ stage.mode \in DOMAIN desc.stages
        BY <1>3, SetEnvFacts
  <2>2. env'.boot = Left(env.boot, stage.boot) /\ ~Leaves(stage)
    <3>1. env' = [mode |-> stage.mode, boot |-> Left(env.boot, stage.boot),
                  root |-> Left(env.root, stage.root)]
          BY <1>3 DEF SetEnv
    <3>2. env'.boot = Left(env.boot, stage.boot)
          BY <3>1
    <3>. QED BY <3>2 DEF Left, Leaves
  <2>3. Returns(desc)
        BY <2>1 DEF Sound
  <2>4. stage.mode # ""
    <3>1. ASSUME stage.mode = "" PROVE FALSE
      <4>1. stage.boot = ""
            BY <2>1, <2>2, <2>3, <3>1 DEF Returns
      <4>2. env.boot = "recovery"
            BY <2>2, <4>1 DEF Left
      <4>. QED BY <2>1, <2>2, <3>1, <4>2 DEF RescueInv
    <3>. QED BY <3>1
  <2>5. Cur'.mode = "" => Leaves(Cur')
        BY <2>1, <2>2, <2>3, <2>4 DEF Returns
  <2>. QED BY <2>1, <2>4, <2>5
<1>. QED BY <1>1, <1>2, <1>3, EnvSteps

(* In the recovery system there is always a stage to go on with. *)
THEOREM NeverStranded == Spec => []NotStranded
<1>1. Init => RescueInv
  <2>. SUFFICES ASSUME Init PROVE env.boot # "recovery"
       BY DEF RescueInv
  <2>1. desc \in Descriptions /\ Sound(desc)
        BY OtaAssumption DEF Init
  <2>2. PICK b \in desc.begins :
            env = [mode |-> "", boot |-> b[1].boot, root |-> b[1].root]
        BY DEF Init
  <2>3. /\ b[2] \in DOMAIN desc.stages /\ b[1] \in desc.stages[b[2]].in
        /\ desc.stages[b[2]].on = "old"
        BY <2>1 DEF Sound
  <2>. QED BY <2>1, <2>2, <2>3, SystemFacts DEF Rescues
<1>2. IInv /\ RescueInv /\ [Next]_vars => RescueInv'
      BY RescueNext
<1>3. RescueInv => NotStranded
      BY DEF RescueInv, NotStranded, Updating
<1>. QED BY <1>1, <1>2, <1>3, Invariance, PTL DEF Spec
-----------------------------------------------------------------------------
(* No attempt at a stage fails by itself. *)
Known == env.mode = FirstCheck => release > 2

\* Step j is behind: it found, or made, what it should.
Met(j) ==
    /\ stage.steps[j].op = "base" => vol[V(j)] = release - 1
    /\ Writes(stage.steps[j]) /\ ~stage.fifo /\ Known => vol[V(j)] = release

\* What the stage needs of the old release is there; what the first comparison of
\* the next update needs is of this release when the update is done.
NeedInv ==
    /\ Updating /\ Known => \A v \in Needs(Cur) : vol[v] = release - 1
    /\ ~Updating /\ release > 1 => \A v \in FirstNeeds(desc) : vol[v] = release

MetInv ==
    /\ pc \in {"step", "writing"} => \A j \in 1 .. i - 1 : Met(j)
    /\ pc = "set" => \A v \in Compared(stage) : vol[v] = release - 1

CertainInv == NeedInv /\ MetInv /\ Blameless

LEMMA CertainStage ==
    ASSUME NEW d, Sound(d), NEW m \in DOMAIN d.stages
    PROVE  /\ Repeatable(d.stages[m])
           /\ m = FirstCheck => d.stages[m].on = "old"
           /\ d.stages[m].mode # FirstCheck
           /\ \A s \in d.stages[m].in :
                 IF d.stages[m].mode = "" THEN FirstNeeds(d) \subseteq NewAfter(d.stages[m], s)
                 ELSE Needs(d.stages[d.stages[m].mode]) \subseteq OldAfter(d.stages[m], s)
           /\ Needs(d.stages[m]) \subseteq d.volumes
<1>1. Certain(d)
      BY DEF Sound
<1>2. /\ DOMAIN d.stages[m].steps = 1 .. Len(d.stages[m].steps)
      /\ \A j \in 1 .. Len(d.stages[m].steps) : d.stages[m].steps[j] \in StepsOn(d.volumes)
      BY StageFacts
<1>3. Needs(d.stages[m]) \subseteq d.volumes
      BY <1>2 DEF Needs, Compared, StepsOn
<1>. QED BY <1>1, <1>3 DEF Certain

LEMMA FirstNeedsThere ==
    ASSUME NEW d, Sound(d)
    PROVE  FirstNeeds(d) \subseteq d.volumes
BY CertainStage DEF FirstNeeds

\* The variables stay, so what is needed does: no step writes it.
LEMMA NeedStays ==
    ASSUME IInv, NeedInv, Next, UNCHANGED <<desc, env, release>>
    PROVE  NeedInv'
<1>1. /\ Updating' = Updating /\ Cur' = Cur /\ Known' = Known
      /\ FirstNeeds(desc)' = FirstNeeds(desc)
      BY DEF Updating, Cur, Known
<1>2. Sound(desc)
      BY OtaAssumption DEF IInv, TypeOK
<1>3. ASSUME Updating, Known, NEW v \in Needs(Cur)
      PROVE  vol'[v] = release - 1
  <2>1. env.mode \in DOMAIN desc.stages
        BY <1>3 DEF IInv, TypeOK, Updating
  <2>2. v \in Volumes /\ v \notin Written(Cur)
        BY <1>2, <1>3, <2>1, CertainStage DEF Repeatable, Cur, Volumes
  <2>3. vol'[v] = vol[v]
        BY <2>2, Touched
  <2>. QED BY <1>3, <2>3 DEF NeedInv
<1>4. ASSUME ~Updating, release > 1, NEW v \in FirstNeeds(desc)
      PROVE  vol'[v] = release
  <2>1. vol'[v] = vol[v]
        BY <1>2, <1>4, FirstNeedsThere, Touched DEF Volumes
  <2>. QED BY <1>4, <2>1 DEF NeedInv
<1>. QED BY <1>1, <1>3, <1>4 DEF NeedInv

LEMMA BeginNeeds ==
    ASSUME IInv, NeedInv, Begin
    PROVE  NeedInv'
<1>1. PICK b \in desc.begins :
          /\ b[1] = Booted /\ b[2] \in DOMAIN desc.stages
          /\ ~Updating /\ Whole(Booted, release)
          /\ release \in Nat /\ release > 0 /\ release' = release + 1
          /\ UNCHANGED <<desc, vol>>
          /\ Updating' /\ Cur' = desc.stages[b[2]] /\ env'.mode = b[2]
      BY BeginFacts
<1>2. Sound(desc)
      BY OtaAssumption DEF IInv, TypeOK
<1>3. release' - 1 = release /\ (release' > 2 => release > 1)
      BY <1>1
<1>4. CASE b[2] = FirstCheck
  <2>1. Needs(Cur') = FirstNeeds(desc)
        BY <1>1, <1>4 DEF FirstNeeds
  <2>2. Known' => \A v \in Needs(Cur') : vol'[v] = release
        BY <1>1, <1>3, <1>4, <2>1 DEF Known, NeedInv
  <2>. QED BY <1>1, <1>3, <2>2 DEF NeedInv
<1>5. CASE b[2] # FirstCheck
  <2>1. Needs(Cur') \subseteq VolumesOf(Booted)
        BY <1>1, <1>2, <1>5 DEF Sound, Certain
  <2>2. \A v \in Needs(Cur') : vol'[v] = release
        BY <1>1, <2>1 DEF Whole
  <2>. QED BY <1>1, <1>3, <2>2 DEF NeedInv
<1>. QED BY <1>4, <1>5

LEMMA SetEnvNeeds ==
    ASSUME IInv, NeedInv, MetInv, SetEnv
    PROVE  NeedInv'
<1>1. /\ Sound(desc) /\ mode \in DOMAIN desc.stages /\ stage = desc.stages[mode]
      /\ Updating /\ stage = Cur /\ Booted \in stage.in
      /\ pc = "set" /\ UNCHANGED <<desc, vol, release>>
      /\ Updating' <=> stage.mode # ""
      /\ Cur' = desc.stages[stage.mode]
      BY SetEnvFacts
<1>2. /\ stage.mode # FirstCheck
      /\ IF stage.mode = "" THEN FirstNeeds(desc) \subseteq NewAfter(stage, Booted)
         ELSE Needs(desc.stages[stage.mode]) \subseteq OldAfter(stage, Booted)
      BY <1>1, CertainStage
<1>3. \A v \in VolumesOf(Booted) :
          vol[v] = IF stage.on = "old" THEN release - 1 ELSE release
      BY <1>1 DEF IInv, PlaceInv, Whole, Current
<1>4. CASE stage.mode = ""
  <2>1. ~Updating' /\ FirstNeeds(desc)' = FirstNeeds(desc)
        BY <1>1, <1>4
  <2>2. \A v \in Delivered(stage, Booted) : vol[v] = release
        BY <1>1, DeliveredRelease
  <2>3. \A v \in NewAfter(stage, Booted) : vol[v] = release
        BY <1>3, <2>2 DEF NewAfter
  <2>. QED BY <1>1, <1>2, <1>4, <2>1, <2>3 DEF NeedInv
<1>5. CASE stage.mode # ""
  <2>1. \A v \in Compared(stage) : vol[v] = release - 1
        BY <1>1 DEF MetInv
  <2>2. \A v \in OldAfter(stage, Booted) : vol[v] = release - 1
        BY <1>3, <2>1 DEF OldAfter
  <2>3. \A v \in Needs(Cur') : vol'[v] = release' - 1
        BY <1>1, <1>2, <1>5, <2>2
  <2>. QED BY <1>1, <1>5, <2>3 DEF NeedInv
<1>. QED BY <1>4, <1>5

LEMMA NeedNext ==
    ASSUME IInv, NeedInv, MetInv, [Next]_vars
    PROVE  NeedInv'
<1>1. CASE UNCHANGED vars
      BY <1>1 DEF vars, NeedInv, Updating, Cur, Known
<1>. QED BY <1>1, EnvSteps, NeedStays, BeginNeeds, SetEnvNeeds

\* A fifo stage compares nothing.
LEMMA NoCompare ==
    ASSUME IInv, pc \notin {"idle", "failed", "after"}, stage.fifo
    PROVE  \A j \in 1 .. Last : Writes(stage.steps[j]) /\ stage.steps[j].op # "base"
<1>1. Sound(desc) /\ mode \in DOMAIN desc.stages
      BY AtStage DEF IInv
<1>2. stage = desc.stages[mode] /\ Last = Len(desc.stages[mode].steps)
      BY DEF stage, Last
<1>3. \A j \in 1 .. Last : Writes(stage.steps[j])
      BY <1>1, <1>2, OneWriter
<1>. QED BY <1>3 DEF Writes

\* What is behind stays: the step that runs writes another volume.
LEMMA MetStays ==
    ASSUME IInv, OpenVolume \/ CloseVolume \/ (Compare /\ NextStep)
              \/ (pc \in {"step", "writing"} /\ \E v \in Volumes : Writer(v)),
           NEW j \in 1 .. i - 1, Met(j)
    PROVE  Met(j)'
<1>1. /\ pc \in {"step", "writing"} /\ UNCHANGED <<desc, env, release, mode>>
      BY DEF OpenVolume, CloseVolume, Compare, NextStep, Writer, WriterOpens, WriterDies,
             WriterFull, swuVars
<1>2. /\ Last \in Nat /\ i \in 1 .. Last + 1 /\ stage = Cur
      /\ \A k \in 1 .. Last : V(k) \in Volumes
      BY <1>1, AtStage DEF IInv
<1>3. j \in 1 .. Last /\ j < i /\ j # i
      BY <1>2
<1>4. /\ stage' = stage /\ stage'.steps[j] = stage.steps[j] /\ V(j)' = V(j)
      /\ Known' = Known
      BY <1>1, SameRun DEF Known
<1>5. CASE stage.fifo
      BY <1>1, <1>3, <1>4, <1>5, NoCompare DEF Met
<1>6. CASE ~stage.fifo
  <2>1. ASSUME OpenVolume \/ CloseVolume
        PROVE  vol'[V(j)] = vol[V(j)]
    <3>1. i <= Last /\ Writes(step)
          BY <2>1 DEF OpenVolume, CloseVolume, IInv, PcInv
    <3>2. V(j) # step.vol
          BY <1>1, <1>3, <3>1, OtherVolume
    <3>3. vol' = [vol EXCEPT ![step.vol] = Torn] \/ vol' = [vol EXCEPT ![step.vol] = Result]
          BY <1>6, <2>1 DEF OpenVolume, CloseVolume
    <3>4. vol \in [Volumes -> Torn .. MaxRelease]
          BY DEF IInv, TypeOK
    <3>. QED BY <1>2, <1>3, <3>2, <3>3, <3>4
  <2>2. ASSUME Compare
        PROVE  vol'[V(j)] = vol[V(j)]
        BY <2>2 DEF Compare
  <2>3. ASSUME NEW v \in Volumes, Writer(v)
        PROVE  FALSE
    <3>1. writer[v] # "none"
          BY <2>3 DEF Writer, WriterOpens, WriterDies, WriterFull
    <3>. QED BY <1>2, <1>6, <3>1 DEF IInv, WriterInv
  <2>4. vol'[V(j)] = vol[V(j)]
        BY <2>1, <2>2, <2>3
  <2>. QED BY <1>1, <1>4, <2>4 DEF Met
<1>. QED BY <1>5, <1>6

\* A step that writes makes the new release of it.
LEMMA CloseMet ==
    ASSUME IInv, NeedInv, MetInv, CloseVolume
    PROVE  \A j \in 1 .. i' - 1 : Met(j)'
<1>1. /\ pc = "writing" /\ i <= Last /\ Writes(step) /\ i' = i + 1
      /\ UNCHANGED <<desc, env, release, mode>>
      BY DEF CloseVolume, NextStep, IInv, PcInv
<1>2. /\ Last \in Nat /\ i \in 1 .. Last /\ step.vol \in Volumes
      /\ stage = Cur /\ Updating /\ DOMAIN stage.steps = 1 .. Last
      BY <1>1, AtStage DEF IInv
<1>3. PICK k \in 1 .. Last : k = i
      BY <1>2
<1>4. V(k) = step.vol /\ step = stage.steps[k]
      BY <1>3 DEF V, step
<1>5. /\ stage' = stage /\ stage'.steps[k] = stage.steps[k] /\ V(k)' = V(k)
      /\ Known' = Known
      BY <1>1, SameRun DEF Known
<1>6. ASSUME Known
      PROVE  Result = release
  <2>1. CASE step.op = "write"
        BY <2>1 DEF Result
  <2>2. CASE step.op = "patch"
    <3>1. step.from \in Needs(stage)
          BY <1>2, <1>3, <1>4, <2>2 DEF Needs
    <3>2. vol[step.from] = release - 1
          BY <1>2, <1>6, <3>1 DEF NeedInv
    <3>. QED BY <2>2, <3>2 DEF Result
  <2>3. CASE step.op = "copy"
    <3>1. step.from \in Sources(stage)
          BY <1>2, <1>3, <1>4, <2>3 DEF Sources
    <3>. QED BY <1>2, <2>3, <3>1 DEF Result, IInv, PlaceInv
  <2>. QED BY <1>1, <2>1, <2>2, <2>3 DEF Writes
<1>7. Met(k)'
  <2>1. stage.steps[k].op # "base"
        BY <1>1, <1>4 DEF Writes
  <2>2. ASSUME ~stage.fifo, Known PROVE vol'[V(k)] = release
    <3>1. vol' = [vol EXCEPT ![step.vol] = Result] /\ vol \in [Volumes -> Torn .. MaxRelease]
          BY <2>2 DEF CloseVolume, IInv, TypeOK
    <3>. QED BY <1>2, <1>4, <1>6, <2>2, <3>1
  <2>. QED BY <1>1, <1>5, <2>1, <2>2 DEF Met
<1>8. \A j \in 1 .. i - 1 : Met(j)'
      BY <1>1, MetStays DEF MetInv
<1>9. \A j \in 1 .. i' - 1 : j = k \/ j \in 1 .. i - 1
      BY <1>1, <1>2, <1>3
<1>. QED BY <1>7, <1>8, <1>9

LEMMA CompareMet ==
    ASSUME IInv, MetInv, Compare, NextStep
    PROVE  \A j \in 1 .. i' - 1 : Met(j)'
<1>1. /\ pc = "step" /\ i <= Last /\ ~Writes(step) /\ i' = i + 1
      /\ UNCHANGED <<desc, vol, env, release, mode>>
      /\ Fails \/ vol[step.vol] = (IF step.op = "base" THEN release - 1 ELSE release)
      BY DEF Compare, NextStep
<1>2. ~Fails
      BY DEF Fails, NextStep
<1>3. Last \in Nat /\ i \in 1 .. Last
      BY <1>1, AtStage DEF IInv
<1>4. PICK k \in 1 .. Last : k = i
      BY <1>3
<1>5. V(k) = step.vol /\ step = stage.steps[k]
      BY <1>4 DEF V, step
<1>6. /\ stage' = stage /\ stage'.steps[k] = stage.steps[k] /\ V(k)' = V(k)
      BY <1>1, SameRun
<1>7. Met(k)'
      BY <1>1, <1>2, <1>5, <1>6 DEF Met
<1>8. \A j \in 1 .. i - 1 : Met(j)'
      BY <1>1, MetStays DEF MetInv
<1>9. \A j \in 1 .. i' - 1 : j = k \/ j \in 1 .. i - 1
      BY <1>1, <1>3, <1>4
<1>. QED BY <1>7, <1>8, <1>9

LEMMA MetNext ==
    ASSUME IInv, NeedInv, MetInv, [Next]_vars
    PROVE  MetInv'
<1>1. CASE UNCHANGED vars
      BY <1>1 DEF vars, swuVars, MetInv, Met, Known, V, stage
<1>2. ASSUME pc' \notin {"step", "writing", "set"} PROVE MetInv'
      BY <1>2 DEF MetInv
<1>3. CASE Begin \/ Boot
  <2>1. pc' = "idle"
        BY <1>3 DEF Begin, Boot, swuVars, IInv, PlaceInv
  <2>. QED BY <1>2, <2>1
<1>4. CASE StepFault \/ Retry \/ SetEnv \/ PowerCut \/ Handover
      BY <1>2, <1>4 DEF StepFault, Fails, Retry, SetEnv, PowerCut, Handover, Down
<1>5. CASE Look \/ Pad \/ StartWriters \/ PostPadded
      BY <1>2, <1>5 DEF Look, Pad, StartWriters, PostPadded
<1>6. CASE Start
  <2>1. i' = 1 /\ pc' # "set"
        BY <1>6 DEF Start
  <2>2. 1 .. i' - 1 = {}
        BY <2>1
  <2>. QED BY <2>1, <2>2 DEF MetInv
<1>7. CASE OpenVolume
  <2>1. pc' = "writing" /\ pc = "step" /\ i' = i
        BY <1>7 DEF OpenVolume
  <2>2. \A j \in 1 .. i' - 1 : Met(j)'
        BY <1>7, <2>1, MetStays DEF MetInv
  <2>. QED BY <2>1, <2>2 DEF MetInv
<1>8. CASE CloseVolume
  <2>1. pc' = "step"
        BY <1>8 DEF CloseVolume, NextStep
  <2>. QED BY <1>8, <2>1, CloseMet DEF MetInv
<1>9. CASE Compare
  <2>1. CASE Fails
        BY <1>2, <2>1 DEF Fails
  <2>2. CASE NextStep
    <3>1. pc' = "step"
          BY <2>2 DEF NextStep
    <3>. QED BY <1>9, <2>2, <3>1, CompareMet DEF MetInv
  <2>. QED BY <1>9, <2>1, <2>2 DEF Compare
<1>10. CASE StepsDone
  <2>1. /\ pc = "step" /\ i > Last /\ pc' = IF stage.fifo THEN "post_look" ELSE "set"
        /\ UNCHANGED <<desc, vol, release, mode>>
        BY <1>10 DEF StepsDone
  <2>2. Last \in Nat /\ i \in 1 .. Last + 1 /\ DOMAIN stage.steps = 1 .. Last
        BY <2>1, AtStage DEF IInv
  <2>3. \A j \in 1 .. Last : Met(j)
        BY <2>1, <2>2 DEF MetInv
  <2>4. \A v \in Compared(stage) : vol[v] = release - 1
        BY <2>2, <2>3 DEF Compared, Met, V
  <2>5. stage' = stage
        BY <2>1 DEF stage
  <2>. QED BY <2>1, <2>4, <2>5 DEF MetInv
<1>11. CASE Test
  <2>1. CASE pc' # "set"
        BY <1>2, <1>11, <2>1 DEF Test, Fails, MetInv
  <2>2. CASE pc' = "set"
    <3>1. pc = "post_test" /\ stage' = stage
          BY <1>11, <2>2 DEF Test, Fails, stage
    <3>2. stage.fifo
          BY <3>1 DEF IInv, FifoInv
    <3>3. DOMAIN stage.steps = 1 .. Last
          BY <3>1, AtStage DEF IInv
    <3>4. Compared(stage) = {}
          BY <3>1, <3>2, <3>3, NoCompare DEF Compared
    <3>. QED BY <2>2, <3>1, <3>4 DEF MetInv
  <2>. QED BY <2>1, <2>2
<1>12. ASSUME NEW v \in Volumes, Writer(v)
       PROVE  MetInv'
  <2>1. UNCHANGED <<pc, mode, i, desc>> /\ writer[v] # "none"
        BY <1>12 DEF Writer, WriterOpens, WriterDies, WriterFull, swuVars
  <2>2. pc # "set"
        BY <2>1 DEF IInv, WriterInv
  <2>3. ASSUME pc \in {"step", "writing"} PROVE \A j \in 1 .. i' - 1 : Met(j)'
        BY <1>12, <2>1, <2>3, MetStays DEF MetInv
  <2>. QED BY <2>1, <2>2, <2>3 DEF MetInv
<1>. QED BY <1>1, <1>3, <1>4, <1>5, <1>6, <1>7, <1>8, <1>9, <1>10, <1>11, <1>12
         DEF Next, Swupdate

\* A comparison finds what it expects.
LEMMA CompareSucceeds ==
    ASSUME IInv, NeedInv, MetInv, Compare
    PROVE  \/ mode = FirstCheck /\ release = 2
           \/ vol[step.vol] = (IF step.op = "base" THEN release - 1 ELSE release)
<1>1. pc = "step" /\ i <= Last /\ ~Writes(step)
      BY DEF Compare
<1>2. /\ Sound(desc) /\ mode \in DOMAIN desc.stages /\ stage = desc.stages[mode]
      /\ Last \in Nat /\ i \in 1 .. Last /\ DOMAIN stage.steps = 1 .. Last
      /\ stage = Cur /\ Updating /\ mode = env.mode /\ step \in StepsOn(Volumes)
      BY <1>1, AtStage DEF IInv, stage
<1>3. PICK k \in 1 .. Last : k = i
      BY <1>2
<1>4. step = stage.steps[k] /\ Repeatable(stage)
      BY <1>2, <1>3, CertainStage DEF step
<1>5. release \in Nat /\ (mode = FirstCheck => release > 1)
  <2>1. release \in 1 .. MaxRelease
        BY DEF IInv, TypeOK
  <2>2. mode = FirstCheck => stage.on = "old"
        BY <1>2, CertainStage
  <2>. QED BY <1>2, <2>1, <2>2, OtaAssumption DEF IInv, PlaceInv
<1>6. CASE ~Known
      BY <1>2, <1>5, <1>6 DEF Known
<1>7. CASE Known
  <2>1. CASE step.op = "base"
    <3>1. step.vol \in Needs(stage)
          BY <1>2, <1>3, <1>4, <2>1 DEF Needs, Compared
    <3>. QED BY <1>2, <1>7, <2>1, <3>1 DEF NeedInv
  <2>2. CASE step.op # "base"
    <3>1. step.op = "new"
          BY <1>1, <1>2, <2>2 DEF Writes, StepsOn
    <3>2. PICK m \in 1 .. k - 1 : Writes(stage.steps[m]) /\ stage.steps[m].vol = step.vol
          BY <1>2, <1>3, <1>4, <3>1 DEF Repeatable
    <3>3. ~stage.fifo
          BY <1>1, <1>3, <1>4, NoCompare
    <3>4. Met(m)
          BY <1>1, <1>3 DEF MetInv
    <3>5. vol[step.vol] = release
          BY <1>7, <3>2, <3>3, <3>4 DEF Met, V
    <3>. QED BY <2>2, <3>5
  <2>. QED BY <2>1, <2>2
<1>. QED BY <1>6, <1>7

LEMMA BlameNext ==
    ASSUME IInv, NeedInv, MetInv, Blameless, [Next]_vars
    PROVE  Blameless'
<1>1. CASE UNCHANGED vars
      BY <1>1 DEF vars, swuVars, Blameless, stage
<1>2. ASSUME pc' # "failed" PROVE Blameless'
      BY <1>2 DEF Blameless
<1>3. ASSUME Fault PROVE Blameless'
  <2>1. faults \in 0 .. MaxFaults /\ faults' = faults + 1
        BY <1>3 DEF Fault, IInv, TypeOK
  <2>2. faults' # 0
        BY <2>1, OtaAssumption
  <2>. QED BY <2>2 DEF Blameless
<1>4. CASE Begin \/ Boot
  <2>1. pc' = "idle"
        BY <1>4 DEF Begin, Boot, swuVars, IInv, PlaceInv
  <2>. QED BY <1>2, <2>1
<1>5. CASE Start \/ OpenVolume \/ CloseVolume \/ StepsDone \/ Retry \/ SetEnv
      BY <1>2, <1>5 DEF Start, OpenVolume, CloseVolume, NextStep, StepsDone, Retry, SetEnv
<1>6. CASE Look \/ Pad \/ StartWriters \/ PostPadded \/ PowerCut \/ Handover
      BY <1>2, <1>6 DEF Look, Pad, StartWriters, PostPadded, PowerCut, Handover, Down
<1>7. CASE StepFault
      BY <1>3, <1>7 DEF StepFault
<1>8. CASE Compare
  <2>1. CASE NextStep
        BY <1>2, <2>1 DEF NextStep
  <2>2. CASE ~NextStep
    <3>1. mode = FirstCheck /\ release = 2
          BY <1>8, <2>2, CompareSucceeds DEF Compare
    <3>2. Fails /\ UNCHANGED release
          BY <1>8, <2>2 DEF Compare
    <3>. QED BY <3>1, <3>2 DEF Fails, Blameless
  <2>. QED BY <2>1, <2>2
<1>9. CASE Test
  <2>1. pc \in {"pre_test", "post_test"} /\ UNCHANGED <<desc, mode>>
        BY <1>9 DEF Test, Fails
  <2>2. stage.fifo /\ stage' = stage
        BY <2>1 DEF IInv, FifoInv, stage
  <2>. QED BY <2>2 DEF Blameless
<1>10. ASSUME NEW v \in Volumes, Writer(v)
       PROVE  Blameless'
  <2>1. UNCHANGED <<pc, mode, desc, release>> /\ (Fault \/ UNCHANGED faults)
        BY <1>10 DEF Writer, WriterOpens, WriterDies, WriterFull, swuVars
  <2>2. stage' = stage
        BY <2>1 DEF stage
  <2>. QED BY <1>3, <2>1, <2>2 DEF Blameless
<1>. QED BY <1>1, <1>4, <1>5, <1>6, <1>7, <1>8, <1>9, <1>10 DEF Next, Swupdate

(* Without faults no update fails by itself, whatever was interrupted before: only  *)
(* the first comparison may, with the recovery image the device came with, and the  *)
(* install scripts, which can meet a file in place of a fifo.                       *)
THEOREM EveryAttemptSucceeds == Spec => []Blameless
<1>1. Init => CertainInv
  <2>. SUFFICES ASSUME Init PROVE CertainInv
       OBVIOUS
  <2>1. PICK b \in desc.begins :
            env = [mode |-> "", boot |-> b[1].boot, root |-> b[1].root]
        BY DEF Init
  <2>2. ~Updating /\ release = 1 /\ pc = "idle"
        BY <2>1 DEF Init, Updating
  <2>. QED BY <2>2 DEF CertainInv, NeedInv, MetInv, Blameless
<1>2. IInv /\ CertainInv /\ [Next]_vars => CertainInv'
      BY NeedNext, MetNext, BlameNext DEF CertainInv
<1>3. CertainInv => Blameless
      BY DEF CertainInv
<1>. QED BY <1>1, <1>2, <1>3, Invariance, PTL DEF Spec
=============================================================================
