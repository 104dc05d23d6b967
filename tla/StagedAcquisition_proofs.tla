---------------------- MODULE StagedAcquisition_proofs ----------------------
(***************************************************************************)
(* Theorems about the acquisition of fixtures, for any number of scenarios *)
(* and hotels, any budget and any sequence of plans, resumptions,          *)
(* recoveries and kills: files that belong together stay together, what    *)
(* depends on another result waits for it, and no observation is lost.     *)
(*                                                                         *)
(* Why pairs stay together although each is written in two or three        *)
(* effects, any of which may be the last: a run that goes on writes only   *)
(* the target at the head of its queue, it began that one when neither     *)
(* file was there (PhaseInv), and no later run begins with a target of     *)
(* which either is.                                                        *)
(***************************************************************************)
EXTENDS StagedAcquisition, SequenceTheorems, FiniteSetTheorems, TLAPS

(***************************************************************************)
(* Part 1.  The invariant.                                                 *)
(***************************************************************************)
Entering == {"plan", "hotels", "recovery"}
Phases == {"idle", "polling", "answered", "written", "described"}

TypeInv ==
  /\ fixture \in [Targets -> Int]
  /\ sidecar \in [Targets -> [id : Int, anchor : Int]]
  /\ elevated \in BOOLEAN
  /\ run \in Entering \cup {"none"}
  /\ queue \in Seq(Targets)
  /\ phase \in Phases
  /\ current \in Int

\* An activity of the provider has a number of its own, and a target.
Owns(id, t) == \E b \in billed : b.id = id /\ b.target = t

BilledInv ==
  /\ IsFiniteSet(billed)
  /\ \A b \in billed : b.id \in 1 .. Cardinality(billed) /\ b.target \in Targets
  /\ \A b, e \in billed : b.id = e.id => b = e
  /\ IsFiniteSet(ledgerFile)
  /\ \A line \in ledgerFile : Owns(line.id, line.target)

\* What the files say of each other.
FilesInv ==
  /\ \A t \in Targets : sidecar[t].id > Missing =>
       fixture[t] = sidecar[t].id /\ Owns(fixture[t], t)
  /\ \A t \in Targets :
       \/ sidecar[t].anchor = Missing
       \/ t.kind = "env" /\ sidecar[t].anchor = fixture[Tcm(t.nr)] /\ fixture[Tcm(t.nr)] > Missing
  /\ reading # <<>> =>
       /\ reading[1] \in Targets
       /\ reading[2] = sidecar[reading[1]].id /\ reading[2] > Missing

InQueue(t) == \E k \in DOMAIN queue : queue[k] = t

\* A plan has its heatmaps first, and the ones it has no longer are on disk.
QueueInv ==
  /\ run = "none" <=> queue = <<>>
  /\ \A j, k \in DOMAIN queue : queue[j] = queue[k] => j = k
  /\ run = "plan" => \A j, k \in DOMAIN queue :
       j < k /\ queue[k].kind = "tcm" => queue[j].kind = "tcm"
  /\ run = "plan" => \A i \in 1 .. Scenarios : InQueue(Tcm(i)) \/ WholePair(Tcm(i))
  /\ run = "hotels" => \A k \in DOMAIN queue : queue[k].kind = "hotel"
  /\ run = "recovery" => queue = <<Env(1)>> /\ WholePair(Tcm(1))

\* How far the target at the head of the queue has come; nothing else is touched.
PhaseInv ==
  /\ run = "none" => phase = "idle"
  /\ run = "recovery" => phase \in {"answered", "described"}
  /\ run # "none" /\ phase # "idle" => current > Missing
  /\ phase \in {"polling", "answered"} => Absent(Target)
  /\ phase \in {"written", "described"} => fixture[Target] = current
  /\ phase = "written" => sidecar[Target] = NoRecord
  /\ phase = "described" => Target.kind # "tcm" /\ sidecar[Target].id \in {Missing, current}
  /\ phase # "idle" /\ (run # "recovery" \/ phase = "described") => Owns(current, Target)
  /\ \A t \in Targets : sidecar[t].id = Missing => sidecar[t] = NoRecord

\* An environment was paid for after its heatmap.
WaitInv ==
  \A b \in billed : b.target.kind = "env" => elevated /\ WholePair(Tcm(b.target.nr))

\* The places of the queue whose target nothing is known of, from place n on.
Open(n) == {k \in DOMAIN queue : k >= n /\ Absent(queue[k])}

\* The calls a run has yet to make are there for it: it asked for enough.
CallsInv ==
  run \in {"plan", "hotels"} =>
    /\ phase = "idle" => CallsLeft >= Cardinality(Open(1))
    /\ phase = "polling" => CallsLeft >= Cardinality(Open(2)) + 1
    /\ phase \in {"answered", "written", "described"} => CallsLeft >= Cardinality(Open(2))

AcquisitionInv ==
  TypeInv /\ BilledInv /\ FilesInv /\ QueueInv /\ PhaseInv /\ WaitInv /\ CallsInv

-----------------------------------------------------------------------------
(***************************************************************************)
(* Part 2.  The plan.                                                      *)
(***************************************************************************)

\* A target is a heatmap, an environment or a hotel heatmap of the plan.
TargetSet == {Tcm(i) : i \in 1 .. Scenarios} \cup {Env(i) : i \in 1 .. Scenarios}
                                             \cup {Hotel(i) : i \in 1 .. Hotels}

\* issue23_activities() lists every target once, heatmaps first.
LEMMA PlanFacts ==
  ASSUME PlanAssumption
  PROVE  /\ Len(Activities) = 2 * Scenarios + Hotels
         /\ DOMAIN Activities = 1 .. 2 * Scenarios + Hotels
         /\ \A k \in 1 .. 2 * Scenarios + Hotels :
              Activities[k] = IF k <= Scenarios THEN Tcm(k)
                              ELSE IF k <= 2 * Scenarios THEN Env(k - Scenarios)
                              ELSE Hotel(k - 2 * Scenarios)
         /\ Activities \in Seq(Targets)
         /\ Targets = TargetSet
         /\ IsFiniteSet(Targets)
<1> DEFINE T == [i \in 1 .. Scenarios |-> Tcm(i)]
           E == [i \in 1 .. Scenarios |-> Env(i)]
           H == [i \in 1 .. Hotels |-> Hotel(i)]
           n == 2 * Scenarios + Hotels
<1>0. Scenarios \in Nat \ {0} /\ Hotels \in Nat /\ n \in Nat
  BY DEF PlanAssumption
<1>1. /\ T \in Seq(TargetSet) /\ Len(T) = Scenarios
      /\ E \in Seq(TargetSet) /\ Len(E) = Scenarios
      /\ H \in Seq(TargetSet) /\ Len(H) = Hotels
  <2>1. T \in Seq(TargetSet) /\ Len(T) = Scenarios
    BY <1>0 DEF TargetSet
  <2>2. E \in Seq(TargetSet) /\ Len(E) = Scenarios
    BY <1>0 DEF TargetSet
  <2>3. H \in Seq(TargetSet) /\ Len(H) = Hotels
    BY <1>0 DEF TargetSet
  <2> QED BY <2>1, <2>2, <2>3
<1>2. \A k \in 1 .. Scenarios : T[k] = Tcm(k) /\ E[k] = Env(k)
  OBVIOUS
<1>3. \A k \in 1 .. Hotels : H[k] = Hotel(k)
  OBVIOUS
<1>4. Activities = (T \o E) \o H
  BY DEF Activities
<1> HIDE DEF T, E, H
<1>5. /\ T \o E \in Seq(TargetSet) /\ Len(T \o E) = 2 * Scenarios
      /\ \A k \in 1 .. 2 * Scenarios :
           (T \o E)[k] = IF k <= Scenarios THEN T[k] ELSE E[k - Scenarios]
  <2>1. /\ T \o E \in Seq(TargetSet) /\ Len(T \o E) = Len(T) + Len(E)
        /\ \A k \in 1 .. Len(T) + Len(E) :
             (T \o E)[k] = IF k <= Len(T) THEN T[k] ELSE E[k - Len(T)]
    BY <1>1, ConcatProperties
  <2>2. Len(T) + Len(E) = 2 * Scenarios
    BY <1>0, <1>1
  <2> QED BY <1>1, <2>1, <2>2
<1>6. /\ Activities \in Seq(TargetSet) /\ Len(Activities) = n
      /\ \A k \in 1 .. n :
           Activities[k] = IF k <= 2 * Scenarios THEN (T \o E)[k] ELSE H[k - 2 * Scenarios]
  <2> DEFINE TE == T \o E
  <2>1. TE \in Seq(TargetSet) /\ Len(TE) = 2 * Scenarios
    BY <1>5
  <2> HIDE DEF TE
  <2>2. /\ TE \o H \in Seq(TargetSet) /\ Len(TE \o H) = Len(TE) + Len(H)
        /\ \A k \in 1 .. Len(TE) + Len(H) :
             (TE \o H)[k] = IF k <= Len(TE) THEN TE[k] ELSE H[k - Len(TE)]
    BY <1>1, <2>1, ConcatProperties
  <2>3. Len(TE) + Len(H) = n
    BY <1>0, <1>1, <2>1
  <2> QED BY <1>1, <1>4, <2>1, <2>2, <2>3 DEF TE
<1>7. DOMAIN Activities = 1 .. n
  BY <1>6
<1>8. \A k \in 1 .. n : Activities[k] = IF k <= Scenarios THEN Tcm(k)
                                        ELSE IF k <= 2 * Scenarios THEN Env(k - Scenarios)
                                        ELSE Hotel(k - 2 * Scenarios)
  <2> SUFFICES ASSUME NEW k \in 1 .. n
               PROVE  Activities[k] = IF k <= Scenarios THEN Tcm(k)
                                      ELSE IF k <= 2 * Scenarios THEN Env(k - Scenarios)
                                      ELSE Hotel(k - 2 * Scenarios)
    OBVIOUS
  <2>1. CASE k <= Scenarios
    <3>1. Activities[k] = (T \o E)[k] /\ (T \o E)[k] = T[k]
      BY <1>0, <1>5, <1>6, <2>1
    <3> QED BY <1>0, <1>2, <2>1, <3>1
  <2>2. CASE k > Scenarios /\ k <= 2 * Scenarios
    <3>1. Activities[k] = (T \o E)[k] /\ (T \o E)[k] = E[k - Scenarios]
      BY <1>0, <1>5, <1>6, <2>2
    <3> QED BY <1>0, <1>2, <2>2, <3>1
  <2>3. CASE k > 2 * Scenarios
    <3>1. Activities[k] = H[k - 2 * Scenarios]
      BY <1>0, <1>6, <2>3
    <3> QED BY <1>0, <1>3, <2>3, <3>1
  <2> QED BY <1>0, <2>1, <2>2, <2>3
<1>9. Targets = TargetSet
  <2>1. \A k \in 1 .. n : Activities[k] \in TargetSet
    BY <1>6
  <2>2. \A i \in 1 .. Scenarios : Tcm(i) = Activities[i] /\ i \in 1 .. n
    BY <1>0, <1>8
  <2>3. \A i \in 1 .. Scenarios : Env(i) = Activities[i + Scenarios] /\ i + Scenarios \in 1 .. n
    BY <1>0, <1>8
  <2>4. \A i \in 1 .. Hotels :
          Hotel(i) = Activities[i + 2 * Scenarios] /\ i + 2 * Scenarios \in 1 .. n
    BY <1>0, <1>8
  <2> QED BY <1>7, <2>1, <2>2, <2>3, <2>4 DEF Targets, TargetSet
<1>10. IsFiniteSet(Targets)
  <2>1. Activities \in Surjection(1 .. n, Targets)
    BY <1>6, <1>7 DEF Surjection, Targets
  <2> QED BY <1>0, <2>1, FS_Interval, FS_Surjection
<1> QED BY <1>6, <1>7, <1>8, <1>9, <1>10

\* What a target is made of.
LEMMA FieldFacts ==
  /\ \A i : Tcm(i).kind = "tcm" /\ Tcm(i).nr = i
  /\ \A i : Env(i).kind = "env" /\ Env(i).nr = i
  /\ \A i : Hotel(i).kind = "hotel" /\ Hotel(i).nr = i
BY DEF Tcm, Env, Hotel

-----------------------------------------------------------------------------
(***************************************************************************)
(* Part 3.  The queue, and what a step can do to the files.                *)
(***************************************************************************)

\* The queue of a run is its current target and the rest.
LEMMA HeadFacts ==
  ASSUME TypeInv, queue # <<>>
  PROVE  /\ DOMAIN queue = 1 .. Len(queue) /\ Len(queue) \in Nat \ {0} /\ 1 \in DOMAIN queue
         /\ Target = queue[1] /\ Target \in Targets
         /\ Tail(queue) \in Seq(Targets) /\ Len(Tail(queue)) = Len(queue) - 1
         /\ DOMAIN Tail(queue) = 1 .. Len(queue) - 1
         /\ \A k \in 1 .. Len(queue) - 1 : Tail(queue)[k] = queue[k + 1]
         /\ Tail(queue) = <<>> <=> Len(queue) = 1
<1>1. queue \in Seq(Targets)
  BY DEF TypeInv
<1>2. /\ DOMAIN queue = 1 .. Len(queue) /\ Len(queue) \in Nat \ {0}
      /\ Target = queue[1]
  BY <1>1, EmptySeq, LenProperties DEF Target
<1>3. /\ Head(queue) \in Targets
      /\ Tail(queue) \in Seq(Targets) /\ Len(Tail(queue)) = Len(queue) - 1
      /\ \A k \in 1 .. Len(Tail(queue)) : Tail(queue)[k] = queue[k + 1]
  BY <1>1, HeadTailProperties
<1>4. DOMAIN Tail(queue) = 1 .. Len(queue) - 1
  BY <1>3, LenProperties
<1>5. Tail(queue) = <<>> <=> Len(queue) = 1
  <2> DEFINE rest == Tail(queue)
  <2>1. rest \in Seq(Targets) /\ Len(rest) = Len(queue) - 1
    BY <1>3
  <2> HIDE DEF rest
  <2>2. rest = <<>> <=> Len(rest) = 0
    BY <2>1, EmptySeq
  <2>3. rest = <<>> <=> Len(queue) = 1
    BY <1>2, <2>1, <2>2
  <2> QED BY <2>3 DEF rest
<1> QED BY <1>2, <1>3, <1>4, <1>5 DEF Target

\* Past the start of a target there is one.
LEMMA BusyFacts ==
  ASSUME TypeInv, QueueInv, PhaseInv, phase # "idle"
  PROVE  run # "none" /\ queue # <<>> /\ Target \in Targets /\ current > Missing
BY HeadFacts DEF QueueInv, PhaseInv

\* A file of a complete pair is not written again, and no file disappears.
LEMMA FilesGrow ==
  ASSUME TypeInv, QueueInv, PhaseInv, [Next]_acquisitionVars
  PROVE  /\ \A t \in Targets : fixture[t] > Missing => fixture'[t] = fixture[t]
         /\ \A t \in Targets : sidecar[t].id > Missing => sidecar'[t].id = sidecar[t].id
         /\ \A t \in Targets : Absent(t)' => Absent(t)
         /\ billed \subseteq billed'
<1> USE DEF files, process, Missing, Torn
<1>1. CASE UNCHANGED files /\ billed \subseteq billed'
  BY <1>1 DEF Absent
<1>2. CASE WriteFixture
  <2>1. Target \in Targets /\ Absent(Target) /\ current > Missing
    BY <1>2, BusyFacts DEF WriteFixture, PhaseInv
  <2> QED BY <1>2, <2>1 DEF WriteFixture, Absent, TypeInv
<1>3. CASE WriteSidecar
  <2>1. Target \in Targets /\ sidecar[Target] = NoRecord /\ current > Missing
    BY <1>3, BusyFacts DEF WriteSidecar, PhaseInv
  <2> QED BY <1>3, <2>1 DEF WriteSidecar, Absent, TypeInv, NoRecord
<1>4. CASE Describe
  <2>1. Target \in Targets /\ sidecar[Target].id \in {Missing, current} /\ current > Missing
    BY <1>4, BusyFacts DEF Describe, PhaseInv
  <2> QED BY <1>4, <2>1 DEF Describe, Absent, TypeInv
<1>5. CASE StopWriting
  <2>1. phase \in {"answered", "written"} /\ Target \in Targets /\ billed' = billed
    BY <1>5, BusyFacts DEF StopWriting
  <2>2. CASE phase = "answered" /\ fixture' = [fixture EXCEPT ![Target] = Torn]
             /\ sidecar' = sidecar
    <3>1. Absent(Target)
      BY <2>2 DEF PhaseInv
    <3> QED BY <2>1, <2>2, <3>1 DEF Absent, TypeInv
  <2>3. CASE phase = "written" /\ sidecar' = [sidecar EXCEPT ![Target].id = Torn]
             /\ fixture' = fixture
    <3>1. sidecar[Target] = NoRecord
      BY <2>3 DEF PhaseInv
    <3> QED BY <2>1, <2>3, <3>1 DEF Absent, TypeInv, NoRecord
  <2> QED BY <1>5, <2>2, <2>3 DEF StopWriting
<1>6. \/ UNCHANGED files /\ billed \subseteq billed'
      \/ WriteFixture \/ WriteSidecar \/ Describe \/ StopWriting
  BY DEF Next, acquisitionVars, BeginPlan, BeginHotels, Begin, BeginRecovery, ReplayPrerequisite,
         Submit, PollCompletes, PollFails, Stop, ReadSidecar, ReadFixture
<1> QED BY <1>1, <1>2, <1>3, <1>4, <1>5, <1>6

\* So a complete pair stays complete.
LEMMA WholeKept ==
  ASSUME PlanAssumption, TypeInv, QueueInv, PhaseInv, [Next]_acquisitionVars,
         NEW t \in Targets, WholePair(t)
  PROVE  WholePair(t)'
BY FilesGrow DEF WholePair

\* The names of what is on disk.
LEMMA ScenarioTargets ==
  ASSUME PlanAssumption, NEW t \in Targets
  PROVE  /\ t.kind \in {"tcm", "env", "hotel"}
         /\ t.kind = "tcm" => t = Tcm(t.nr) /\ t.nr \in 1 .. Scenarios
         /\ t.kind = "env" => /\ t = Env(t.nr) /\ t.nr \in 1 .. Scenarios
                              /\ Tcm(t.nr) \in Targets
BY PlanFacts, FieldFacts DEF TargetSet

\* With its first target done a run has the others to do.
LEMMA QueueDone ==
  ASSUME PlanAssumption, TypeInv, QueueInv, run # "none", TargetDone,
         \A t \in Targets : WholePair(t) => WholePair(t)',
         \A t \in Targets : t = Target /\ run = "plan" /\ t.kind = "tcm" => WholePair(t)'
  PROVE  QueueInv' /\ queue' \in Seq(Targets) /\ run' \in {run, "none"}
<1>1. queue # <<>>
  BY DEF QueueInv
<1>2. queue' = Tail(queue) /\ run' = IF Len(queue) = 1 THEN "none" ELSE run
  BY DEF TargetDone
<1>3. /\ DOMAIN queue = 1 .. Len(queue) /\ Len(queue) \in Nat \ {0}
      /\ DOMAIN queue' = 1 .. Len(queue) - 1
      /\ \A k \in 1 .. Len(queue) - 1 : queue'[k] = queue[k + 1] /\ k + 1 \in DOMAIN queue
      /\ queue' = <<>> <=> Len(queue) = 1
      /\ queue' \in Seq(Targets) /\ Target = queue[1]
  BY <1>1, <1>2, HeadFacts
<1>4. run' = "none" <=> queue' = <<>>
  BY <1>2, <1>3
<1>5. \A j, k \in DOMAIN queue' : queue'[j] = queue'[k] => j = k
  BY <1>3 DEF QueueInv
<1>6. run' = "plan" => \A j, k \in DOMAIN queue' :
        j < k /\ queue'[k].kind = "tcm" => queue'[j].kind = "tcm"
  BY <1>2, <1>3 DEF QueueInv
<1>7. ASSUME run' = "plan", NEW i \in 1 .. Scenarios
      PROVE  InQueue(Tcm(i))' \/ WholePair(Tcm(i))'
  <2>1. Tcm(i) \in Targets /\ run = "plan"
    BY <1>2, <1>7, PlanFacts DEF TargetSet
  <2>2. CASE WholePair(Tcm(i))
    BY <2>1, <2>2
  <2>3. CASE \E k \in DOMAIN queue : queue[k] = Tcm(i)
    <3>1. PICK k \in 1 .. Len(queue) : queue[k] = Tcm(i)
      BY <1>3, <2>3
    <3>2. CASE k = 1
      <4>1. Tcm(i) = Target /\ Tcm(i).kind = "tcm"
        BY <1>3, <3>1, <3>2, FieldFacts
      <4> QED BY <2>1, <4>1
    <3>3. CASE k > 1
      <4>1. k - 1 \in DOMAIN queue' /\ queue'[k - 1] = queue[k]
        BY <1>3, <3>1, <3>3
      <4> QED BY <3>1, <4>1 DEF InQueue
    <3> QED BY <3>1, <3>2, <3>3
  <2> QED BY <2>1, <2>2, <2>3 DEF QueueInv, InQueue
<1>8. run' = "hotels" => \A k \in DOMAIN queue' : queue'[k].kind = "hotel"
  BY <1>2, <1>3 DEF QueueInv
<1>9. run' # "recovery"
  <2>1. run = "recovery" => Len(queue) = 1
    BY DEF QueueInv
  <2> QED BY <1>2, <2>1
<1> QED BY <1>2, <1>3, <1>4, <1>5, <1>6, <1>7, <1>8, <1>9 DEF QueueInv

\* A run at an environment has its heatmap already, and so has one at any later target.
LEMMA HeatmapsFirst ==
  ASSUME PlanAssumption, TypeInv, QueueInv, queue # <<>>, Target.kind = "env"
  PROVE  Tcm(Target.nr) \in Targets /\ WholePair(Tcm(Target.nr))
<1>1. Target \in Targets /\ Target = queue[1] /\ DOMAIN queue = 1 .. Len(queue)
      /\ Len(queue) \in Nat \ {0}
  BY HeadFacts
<1>2. Target = Env(Target.nr) /\ Target.nr \in 1 .. Scenarios /\ Tcm(Target.nr) \in Targets
  BY <1>1, ScenarioTargets
<1>3. run \in {"plan", "recovery"}
  <2>1. run \in {"plan", "hotels", "recovery", "none"}
    BY DEF TypeInv, Entering
  <2>2. run # "none"
    BY DEF QueueInv
  <2>3. run # "hotels"
    <3> SUFFICES ASSUME run = "hotels" PROVE FALSE
      OBVIOUS
    <3>1. queue[1].kind = "hotel"
      BY <1>1 DEF QueueInv
    <3> QED BY <1>1, <3>1
  <2> QED BY <2>1, <2>2, <2>3
<1>4. CASE run = "plan"
  <2> SUFFICES ASSUME InQueue(Tcm(Target.nr)) PROVE FALSE
    BY <1>2, <1>4 DEF QueueInv
  <2>1. PICK k \in 1 .. Len(queue) : queue[k] = Tcm(Target.nr)
    BY <1>1 DEF InQueue
  <2>2. queue[k].kind = "tcm" /\ queue[1].kind = "env"
    BY <1>1, <2>1, FieldFacts
  <2>3. k > 1
    BY <2>1, <2>2
  <2> QED BY <1>1, <1>4, <2>1, <2>2, <2>3 DEF QueueInv
<1>5. CASE run = "recovery"
  <2>1. Target = Env(1)
    BY <1>1, <1>5 DEF QueueInv
  <2> QED BY <1>2, <1>5, <2>1, FieldFacts DEF QueueInv
<1> QED BY <1>3, <1>4, <1>5

\* The hotel activities alone, which no two are the same of.
LEMMA HotelFacts ==
  ASSUME PlanAssumption
  PROVE  /\ HotelActivities \in Seq(Targets) /\ DOMAIN HotelActivities = 1 .. Hotels
         /\ \A k \in 1 .. Hotels : HotelActivities[k] = Hotel(k)
         /\ HotelActivities = <<>> <=> Hotels = 0
<1>1. Hotels \in Nat /\ \A k \in 1 .. Hotels : Hotel(k) \in Targets
  BY PlanFacts DEF PlanAssumption, TargetSet
<1>2. /\ HotelActivities \in Seq(Targets) /\ Len(HotelActivities) = Hotels
      /\ DOMAIN HotelActivities = 1 .. Hotels
      /\ \A k \in 1 .. Hotels : HotelActivities[k] = Hotel(k)
  BY <1>1 DEF HotelActivities
<1>3. HotelActivities = <<>> <=> Hotels = 0
  <2> DEFINE h == HotelActivities
  <2>1. h \in Seq(Targets) /\ Len(h) = Hotels
    BY <1>2
  <2> HIDE DEF h
  <2>2. h = <<>> <=> Hotels = 0
    BY <2>1, EmptySeq
  <2> QED BY <2>2 DEF h
<1> QED BY <1>2, <1>3

\* The plan lists no target twice, its heatmaps first, and is not empty.
LEMMA PlanOrder ==
  ASSUME PlanAssumption
  PROVE  /\ \A j, k \in DOMAIN Activities : Activities[j] = Activities[k] => j = k
         /\ \A j, k \in DOMAIN Activities :
              j < k /\ Activities[k].kind = "tcm" => Activities[j].kind = "tcm"
         /\ \A i \in 1 .. Scenarios : i \in DOMAIN Activities /\ Activities[i] = Tcm(i)
         /\ Activities # <<>>
<1>1. Scenarios \in Nat \ {0} /\ Hotels \in Nat
  BY DEF PlanAssumption
<1>2. \A k \in DOMAIN Activities :
        /\ k \in 1 .. 2 * Scenarios + Hotels
        /\ k <= Scenarios => Activities[k].kind = "tcm" /\ Activities[k].nr = k
        /\ k > Scenarios /\ k <= 2 * Scenarios =>
             Activities[k].kind = "env" /\ Activities[k].nr = k - Scenarios
        /\ k > 2 * Scenarios =>
             Activities[k].kind = "hotel" /\ Activities[k].nr = k - 2 * Scenarios
  <2> SUFFICES ASSUME NEW k \in 1 .. 2 * Scenarios + Hotels
               PROVE  /\ k <= Scenarios => Activities[k].kind = "tcm" /\ Activities[k].nr = k
                      /\ k > Scenarios /\ k <= 2 * Scenarios =>
                           Activities[k].kind = "env" /\ Activities[k].nr = k - Scenarios
                      /\ k > 2 * Scenarios =>
                           Activities[k].kind = "hotel" /\ Activities[k].nr = k - 2 * Scenarios
    BY PlanFacts
  <2>1. Activities[k] = IF k <= Scenarios THEN Tcm(k)
                        ELSE IF k <= 2 * Scenarios THEN Env(k - Scenarios)
                        ELSE Hotel(k - 2 * Scenarios)
    BY PlanFacts
  <2>2. CASE k <= Scenarios
    BY <1>1, <2>1, <2>2, FieldFacts
  <2>3. CASE k > Scenarios /\ k <= 2 * Scenarios
    BY <1>1, <2>1, <2>3, FieldFacts
  <2>4. CASE k > 2 * Scenarios
    BY <1>1, <2>1, <2>4, FieldFacts
  <2> QED BY <1>1, <2>2, <2>3, <2>4
<1>3. ASSUME NEW j \in DOMAIN Activities, NEW k \in DOMAIN Activities
      PROVE  /\ Activities[j] = Activities[k] => j = k
             /\ j < k /\ Activities[k].kind = "tcm" => Activities[j].kind = "tcm"
  BY <1>1, <1>2, <1>3
<1>4. \A i \in 1 .. Scenarios : i \in DOMAIN Activities /\ Activities[i] = Tcm(i)
  BY <1>1, PlanFacts
<1>5. Activities # <<>>
  BY <1>1, <1>4
<1> QED BY <1>3, <1>4, <1>5

\* The places that are open are countable, and with nothing taken away they get fewer.
LEMMA OpenFacts ==
  ASSUME PlanAssumption, TypeInv
  PROVE  /\ \A n \in {1, 2} : IsFiniteSet(Open(n)) /\ Cardinality(Open(n)) \in Nat
         /\ Cardinality(Open(2)) <= Cardinality(Open(1))
         /\ queue # <<>> /\ Absent(Target) =>
              Cardinality(Open(1)) = Cardinality(Open(2)) + 1
<1>1. DOMAIN queue = 1 .. Len(queue) /\ Len(queue) \in Nat
  BY LenProperties DEF TypeInv
<1>2. \A n \in {1, 2} : IsFiniteSet(Open(n))
  <2>1. IsFiniteSet(1 .. Len(queue))
    BY <1>1, FS_Interval
  <2>2. \A n : Open(n) \in SUBSET (1 .. Len(queue))
    BY <1>1 DEF Open
  <2> QED BY <2>1, <2>2, FS_Subset
<1>3. \A n \in {1, 2} : Cardinality(Open(n)) \in Nat
  BY <1>2, FS_CardinalityType
<1>4. Cardinality(Open(2)) <= Cardinality(Open(1))
  <2>1. Open(2) \in SUBSET Open(1)
    BY <1>1 DEF Open
  <2> QED BY <1>2, <2>1, FS_Subset
<1>5. ASSUME queue # <<>>, Absent(Target)
      PROVE  Cardinality(Open(1)) = Cardinality(Open(2)) + 1
  <2>1. 1 \in DOMAIN queue /\ queue[1] = Target
    BY <1>5, HeadFacts
  <2>2. Open(1) = Open(2) \cup {1}
    BY <1>1, <1>5, <2>1 DEF Open
  <2>3. 1 \notin Open(2)
    BY DEF Open
  <2> QED BY <1>2, <2>2, <2>3, FS_AddElement
<1> QED BY <1>2, <1>3, <1>4, <1>5

\* Going on to the next target opens nothing.
LEMMA OpenDone ==
  ASSUME PlanAssumption, TypeInv, TypeInv', queue # <<>>, queue' = Tail(queue),
         \A t \in Targets : Absent(t)' => Absent(t)
  PROVE  Cardinality(Open(1)') <= Cardinality(Open(2))
<1>1. /\ DOMAIN queue = 1 .. Len(queue) /\ Len(queue) \in Nat \ {0}
      /\ DOMAIN queue' = 1 .. Len(queue) - 1
      /\ \A k \in 1 .. Len(queue) - 1 : queue'[k] = queue[k + 1]
  BY HeadFacts
<1>2. \A k \in DOMAIN queue : queue[k] \in Targets
  BY DEF TypeInv
<1>3. Open(1)' = {k \in DOMAIN queue' : k >= 1 /\ Absent(queue[k])'}
  BY DEF Open
<1>4. ASSUME NEW k \in Open(1)' PROVE k \in Nat /\ k + 1 \in Open(2)
  <2>1. k \in 1 .. Len(queue) - 1 /\ Absent(queue[k])'
    BY <1>1, <1>3
  <2>2. fixture'[queue[k + 1]] = Missing /\ sidecar'[queue[k + 1]].id = Missing
    BY <1>1, <2>1 DEF Absent
  <2>3. queue[k + 1] \in Targets
    BY <1>1, <1>2, <2>1
  <2>4. Absent(queue[k + 1])
    BY <2>2, <2>3 DEF Absent
  <2> QED BY <1>1, <2>1, <2>4 DEF Open
<1>5. [k \in Open(1)' |-> k + 1] \in Injection(Open(1)', Open(2))
  BY <1>4 DEF Injection, IsInjective
<1> QED BY <1>5, OpenFacts, FS_Injection

\* The same with the queue as it is.
LEMMA OpenLess ==
  ASSUME PlanAssumption, TypeInv, TypeInv', queue' = queue, NEW n \in {1, 2},
         \A t \in Targets : Absent(t)' => Absent(t)
  PROVE  Cardinality(Open(n)') <= Cardinality(Open(n))
<1>1. \A k \in DOMAIN queue : queue[k] \in Targets
  BY DEF TypeInv
<1>2. Open(n)' = {k \in DOMAIN queue : k >= n /\ fixture'[queue[k]] = Missing
                                      /\ sidecar'[queue[k]].id = Missing}
  BY DEF Open, Absent
<1>3. Open(n)' \in SUBSET Open(n)
  BY <1>1, <1>2 DEF Open, Absent
<1> QED BY <1>3, OpenFacts, FS_Subset

-----------------------------------------------------------------------------
(***************************************************************************)
(* Part 4.  Every step keeps the invariant, one part of it after another.  *)
(***************************************************************************)

LEMMA InitKept ==
  ASSUME PlanAssumption, Init
  PROVE  AcquisitionInv
<1> USE DEF Init, Missing, Torn, NoRecord
<1>1. TypeInv
  BY EmptySeq DEF TypeInv, Entering, Phases
<1>2. BilledInv
  BY FS_EmptySet DEF BilledInv
<1>3. FilesInv
  BY DEF FilesInv
<1>4. QueueInv
  BY DEF QueueInv
<1>5. PhaseInv
  BY DEF PhaseInv
<1>6. WaitInv /\ CallsInv
  BY DEF WaitInv, CallsInv
<1> QED BY <1>1, <1>2, <1>3, <1>4, <1>5, <1>6 DEF AcquisitionInv

LEMMA StepType ==
  ASSUME PlanAssumption, AcquisitionInv, [Next]_acquisitionVars
  PROVE  TypeInv'
<1> USE DEF AcquisitionInv, files, process, Missing, Torn, NoRecord
<1>1. /\ fixture \in [Targets -> Int] /\ sidecar \in [Targets -> [id : Int, anchor : Int]]
      /\ elevated \in BOOLEAN /\ run \in Entering \cup {"none"} /\ queue \in Seq(Targets)
      /\ phase \in Phases /\ current \in Int
  BY DEF TypeInv
<1>2. /\ <<>> \in Seq(Targets) /\ "idle" \in Phases /\ Missing \in Int
      /\ run # "none" => Tail(queue) \in Seq(Targets)
  BY EmptySeq, HeadFacts DEF QueueInv, Phases
<1>3. CASE UNCHANGED acquisitionVars
  BY <1>1, <1>3 DEF acquisitionVars, TypeInv
<1>4. CASE BeginPlan
  BY <1>1, <1>2, <1>4, PlanFacts DEF BeginPlan, Begin, TypeInv, Entering
<1>5. CASE BeginHotels
  BY <1>1, <1>2, <1>5, HotelFacts DEF BeginHotels, Begin, TypeInv, Entering
<1>6. CASE \E line \in ledgerFile : BeginRecovery(line)
  <2>1. PICK line \in ledgerFile : BeginRecovery(line)
    BY <1>6
  <2>2. line.id \in Int
    BY DEF BilledInv, Owns
  <2>3. Env(1) \in Targets
    BY PlanFacts DEF TargetSet, PlanAssumption
  <2>4. <<Env(1)>> \in Seq(Targets)
    BY <2>3
  <2> QED BY <1>1, <2>1, <2>2, <2>4 DEF BeginRecovery, TypeInv, Entering, Phases
<1>7. CASE ReplayPrerequisite
  BY <1>1, <1>2, <1>7 DEF ReplayPrerequisite, TargetDone, TypeInv
<1>8. CASE \E zone \in {"canonical", "foreign"} : Submit(zone)
  <2>1. Cardinality(billed) + 1 \in Int
    BY FS_CardinalityType DEF BilledInv
  <2> QED BY <1>1, <1>8, <2>1 DEF Submit, TypeInv, Phases
<1>9. CASE PollCompletes
  BY <1>1, <1>9 DEF PollCompletes, Goes, TypeInv, Phases
<1>10. CASE WriteFixture
  BY <1>1, <1>10 DEF WriteFixture, Goes, TypeInv, Phases
<1>11. CASE WriteSidecar
  BY <1>1, <1>2, <1>11, BusyFacts DEF WriteSidecar, Goes, TargetDone, TypeInv, Phases
<1>12. CASE Describe
  <2>1. Anchor(Target) \in Int
    BY <1>1, <1>12, BusyFacts, HeatmapsFirst DEF Anchor, Describe
  <2> QED BY <1>1, <1>2, <1>12, <2>1, BusyFacts DEF Describe, TargetDone, TypeInv
<1>13. CASE PollFails
  BY <1>1, <1>2, <1>13 DEF PollFails, Stopped, TypeInv
<1>14. CASE Stop
  BY <1>1, <1>2, <1>14 DEF Stop, Stopped, TypeInv
<1>15. CASE StopWriting
  <2>1. fixture' \in [Targets -> Int]
    BY <1>1, <1>15 DEF StopWriting
  <2>2. sidecar' \in [Targets -> [id : Int, anchor : Int]]
    <3>1. CASE sidecar' = sidecar
      BY <1>1, <3>1
    <3>2. CASE sidecar' = [sidecar EXCEPT ![Target].id = Torn]
      <4>1. ASSUME NEW t \in Targets
            PROVE  [sidecar[t] EXCEPT !.id = Torn] \in [id : Int, anchor : Int]
        <5>1. PICK record \in [id : Int, anchor : Int] : sidecar[t] = record
          BY <1>1
        <5>2. [record EXCEPT !.id = -1] \in [id : Int, anchor : Int]
          OBVIOUS
        <5> QED BY <5>1, <5>2
      <4>2. sidecar' = [t \in Targets |-> IF t = Target THEN [sidecar[t] EXCEPT !.id = Torn]
                                         ELSE sidecar[t]]
        BY <1>1, <3>2
      <4> QED BY <1>1, <4>1, <4>2
    <3> QED BY <1>15, <3>1, <3>2 DEF StopWriting
  <2> QED BY <1>1, <1>2, <1>15, <2>1, <2>2 DEF StopWriting, Stopped, TypeInv
<1>16. CASE (\E t \in Targets : ReadSidecar(t)) \/ ReadFixture
  BY <1>1, <1>16 DEF ReadSidecar, ReadFixture, TypeInv
<1> QED BY <1>3, <1>4, <1>5, <1>6, <1>7, <1>8, <1>9, <1>10, <1>11, <1>12, <1>13, <1>14, <1>15, <1>16
        DEF Next

\* What a submission adds to what the provider has billed.
LEMMA SubmitFacts ==
  ASSUME PlanAssumption, AcquisitionInv, NEW zone, Submit(zone)
  PROVE  /\ queue # <<>> /\ Target \in Targets
         /\ current' = Cardinality(billed) + 1 /\ current' > Missing
         /\ billed' = billed \cup {[id |-> current', target |-> Target, zone |-> zone]}
         /\ IsFiniteSet(billed') /\ Cardinality(billed') = Cardinality(billed) + 1
         /\ \E b \in billed' : b.id = current' /\ b.target = Target
<1> DEFINE new == [id |-> current', target |-> Target, zone |-> zone]
<1>1. queue # <<>> /\ Target \in Targets
  BY HeadFacts DEF Submit, AcquisitionInv, QueueInv
<1>2. IsFiniteSet(billed) /\ Cardinality(billed) \in Nat
  BY FS_CardinalityType DEF AcquisitionInv, BilledInv
<1>3. current' = Cardinality(billed) + 1 /\ billed' = billed \cup {new} /\ queue' = queue
  BY DEF Submit
<1>4. new \notin billed
  BY <1>2, <1>3 DEF AcquisitionInv, BilledInv
<1>5. IsFiniteSet(billed') /\ Cardinality(billed') = Cardinality(billed) + 1
  BY <1>2, <1>3, <1>4, FS_AddElement
<1>6. new \in billed' /\ new.id = current' /\ new.target = Target
  BY <1>3
<1>7. \E b \in billed' : b.id = current' /\ b.target = Target
  BY <1>6
<1>8. current' > Missing
  BY <1>2, <1>3 DEF Missing
<1> QED BY <1>1, <1>3, <1>5, <1>7, <1>8

\* An activity's owner stays.
LEMMA OwnsKept ==
  ASSUME billed \subseteq billed', NEW id, NEW t, Owns(id, t)
  PROVE  \E b \in billed' : b.id = id /\ b.target = t
BY DEF Owns

LEMMA StepBilled ==
  ASSUME PlanAssumption, AcquisitionInv, [Next]_acquisitionVars
  PROVE  BilledInv'
<1>1. /\ IsFiniteSet(billed) /\ Cardinality(billed) \in Nat
      /\ \A b \in billed : b.id \in 1 .. Cardinality(billed) /\ b.target \in Targets
      /\ \A b, e \in billed : b.id = e.id => b = e
      /\ IsFiniteSet(ledgerFile)
      /\ \A line \in ledgerFile : \E b \in billed : b.id = line.id /\ b.target = line.target
  BY FS_CardinalityType DEF AcquisitionInv, BilledInv, Owns
<1>2. CASE billed' = billed /\ ledgerFile' = ledgerFile
  BY <1>1, <1>2 DEF BilledInv, Owns
<1>3. CASE \E zone \in {"canonical", "foreign"} : Submit(zone)
  <2>1. PICK zone \in {"canonical", "foreign"} : Submit(zone)
    BY <1>3
  <2> DEFINE new == [id |-> current', target |-> Target, zone |-> zone]
  <2>2. /\ Target \in Targets /\ new.id = Cardinality(billed) + 1 /\ new.target = Target
        /\ billed' = billed \cup {new}
        /\ IsFiniteSet(billed') /\ Cardinality(billed') = Cardinality(billed) + 1
        /\ ledgerFile' = ledgerFile
    BY <2>1, SubmitFacts DEF Submit
  <2> HIDE DEF new
  <2>3. \A b \in billed' : b.id \in 1 .. Cardinality(billed') /\ b.target \in Targets
    BY <1>1, <2>2
  <2>4. \A b, e \in billed' : b.id = e.id => b = e
    BY <1>1, <2>2
  <2> QED BY <1>1, <2>2, <2>3, <2>4 DEF BilledInv, Owns
<1>4. CASE PollCompletes \/ PollFails
  <2>1. /\ billed' = billed
        /\ \E done \in BOOLEAN : ledgerFile' = ledgerFile \cup {Line(done)}
        /\ phase = "polling"
    BY <1>4 DEF PollCompletes, PollFails
  <2>2. PICK done \in BOOLEAN : ledgerFile' = ledgerFile \cup {Line(done)}
    BY <2>1
  <2>3. Owns(current, Target)
    BY <2>1 DEF AcquisitionInv, PhaseInv
  <2>4. Line(done).id = current /\ Line(done).target = Target
    BY DEF Line
  <2>5. IsFiniteSet(ledgerFile')
    BY <1>1, <2>2, FS_AddElement
  <2> QED BY <1>1, <2>1, <2>2, <2>3, <2>4, <2>5 DEF BilledInv, Owns
<1>5. \/ billed' = billed /\ ledgerFile' = ledgerFile
      \/ \E zone \in {"canonical", "foreign"} : Submit(zone)
      \/ PollCompletes \/ PollFails
  BY DEF Next, acquisitionVars, BeginPlan, BeginHotels, Begin, BeginRecovery, ReplayPrerequisite,
         WriteFixture, WriteSidecar, Describe, Stop, StopWriting, ReadSidecar, ReadFixture
<1> QED BY <1>2, <1>3, <1>4, <1>5

\* What a sidecar says is true of the fixture beside it and of the heatmap it is anchored in.
LEMMA StepFiles ==
  ASSUME PlanAssumption, AcquisitionInv, [Next]_acquisitionVars
  PROVE  FilesInv'
<1> USE DEF AcquisitionInv
<1>1. /\ \A t \in Targets : fixture[t] > Missing => fixture'[t] = fixture[t]
      /\ \A t \in Targets : sidecar[t].id > Missing => sidecar'[t].id = sidecar[t].id
      /\ billed \subseteq billed'
  BY FilesGrow
<1>2. /\ fixture \in [Targets -> Int] /\ sidecar \in [Targets -> [id : Int, anchor : Int]]
  BY DEF TypeInv
<1>3. ASSUME NEW t \in Targets, sidecar'[t].id > Missing
      PROVE  /\ fixture'[t] = sidecar'[t].id
             /\ \E b \in billed' : b.id = fixture'[t] /\ b.target = t
  <2>1. CASE sidecar[t].id > Missing
    <3>1. sidecar'[t].id = sidecar[t].id /\ fixture[t] = sidecar[t].id /\ Owns(fixture[t], t)
      BY <1>1, <2>1 DEF FilesInv
    <3>2. fixture'[t] = fixture[t]
      BY <1>1, <2>1, <3>1
    <3> QED BY <1>1, <3>1, <3>2, OwnsKept
  <2>2. CASE ~(sidecar[t].id > Missing)
    <3>1. sidecar'[t] # sidecar[t]
      BY <1>3, <2>2
    <3>2. CASE WriteSidecar \/ Describe
      <4>1. /\ Target \in Targets /\ fixture[Target] = current /\ Owns(current, Target)
            /\ fixture' = fixture
        BY <3>2, BusyFacts DEF WriteSidecar, Describe, PhaseInv
      <4>2. t = Target /\ sidecar'[t].id = current
        BY <1>2, <3>1, <3>2 DEF WriteSidecar, Describe
      <4> QED BY <1>1, <4>1, <4>2, OwnsKept
    <3>3. CASE StopWriting
      <4>1. sidecar'[t].id = Torn
        BY <1>2, <3>1, <3>3 DEF StopWriting
      <4> QED BY <1>3, <4>1 DEF Torn, Missing
    <3>4. WriteSidecar \/ Describe \/ StopWriting
      BY <3>1 DEF Next, acquisitionVars, files, process, BeginPlan, BeginHotels, Begin,
             BeginRecovery, ReplayPrerequisite, Submit, PollCompletes, PollFails, WriteFixture,
             Stop, ReadSidecar, ReadFixture
    <3> QED BY <3>2, <3>3, <3>4
  <2> QED BY <2>1, <2>2
<1>4. ASSUME NEW t \in Targets
      PROVE  \/ sidecar'[t].anchor = Missing
             \/ t.kind = "env" /\ sidecar'[t].anchor = fixture'[Tcm(t.nr)]
                /\ fixture'[Tcm(t.nr)] > Missing
  <2>1. CASE sidecar'[t].anchor = sidecar[t].anchor
    <3>1. \/ sidecar[t].anchor = Missing
          \/ /\ t.kind = "env" /\ sidecar[t].anchor = fixture[Tcm(t.nr)]
             /\ fixture[Tcm(t.nr)] > Missing
      BY DEF FilesInv
    <3>2. t.kind = "env" => Tcm(t.nr) \in Targets
      BY ScenarioTargets
    <3> QED BY <1>1, <2>1, <3>1, <3>2
  <2>2. CASE sidecar'[t].anchor # sidecar[t].anchor
    <3>1. CASE WriteSidecar
      <4>1. sidecar'[t] \in {sidecar[t], [id |-> current, anchor |-> Missing]}
        BY <1>2, <3>1 DEF WriteSidecar
      <4> QED BY <2>2, <4>1
    <3>2. CASE Describe
      <4>1. queue # <<>> /\ fixture' = fixture
        BY <3>2, BusyFacts DEF Describe
      <4>2. t = Target /\ sidecar'[t].anchor = Anchor(Target)
        BY <1>2, <2>2, <3>2 DEF Describe
      <4>3. CASE Target.kind = "env"
        <5>1. Tcm(t.nr) \in Targets /\ WholePair(Tcm(t.nr))
          BY <4>1, <4>2, <4>3, HeatmapsFirst
        <5>2. sidecar[Tcm(t.nr)].id = fixture[Tcm(t.nr)] /\ fixture[Tcm(t.nr)] > Missing
          BY <5>1 DEF FilesInv, WholePair
        <5>3. Anchor(Target) = sidecar[Tcm(t.nr)].id
          BY <4>2, <4>3 DEF Anchor
        <5> QED BY <4>1, <4>2, <4>3, <5>2, <5>3
      <4>4. CASE Target.kind # "env"
        BY <4>2, <4>4 DEF Anchor
      <4> QED BY <4>3, <4>4
    <3>3. CASE StopWriting
      <4>1. sidecar'[t].anchor = sidecar[t].anchor
        BY <1>2, <3>3 DEF StopWriting
      <4> QED BY <2>2, <4>1
    <3>4. WriteSidecar \/ Describe \/ StopWriting
      BY <2>2 DEF Next, acquisitionVars, files, process, BeginPlan, BeginHotels, Begin,
             BeginRecovery, ReplayPrerequisite, Submit, PollCompletes, PollFails, WriteFixture,
             Stop, ReadSidecar, ReadFixture
    <3> QED BY <3>1, <3>2, <3>3, <3>4
  <2> QED BY <2>1, <2>2
<1>5. reading' # <<>> =>
        /\ reading'[1] \in Targets
        /\ reading'[2] = sidecar'[reading'[1]].id /\ reading'[2] > Missing
  <2>1. CASE reading' = reading
    <3> SUFFICES ASSUME reading # <<>>
                 PROVE  /\ reading[1] \in Targets
                        /\ reading[2] = sidecar'[reading[1]].id /\ reading[2] > Missing
      BY <2>1
    <3>1. /\ reading[1] \in Targets
          /\ reading[2] = sidecar[reading[1]].id /\ reading[2] > Missing
      BY DEF FilesInv
    <3> QED BY <1>1, <3>1
  <2>2. CASE \E t \in Targets : ReadSidecar(t)
    BY <2>2 DEF ReadSidecar, files
  <2>3. CASE ReadFixture
    BY <2>3 DEF ReadFixture
  <2>4. reading' = reading \/ (\E t \in Targets : ReadSidecar(t)) \/ ReadFixture
    BY DEF Next, acquisitionVars, BeginPlan, BeginHotels, Begin, BeginRecovery, ReplayPrerequisite,
           Submit, PollCompletes, PollFails, WriteFixture, WriteSidecar, Describe, Stop, StopWriting
  <2> QED BY <2>1, <2>2, <2>3, <2>4
<1> QED BY <1>3, <1>4, <1>5 DEF FilesInv, Owns

LEMMA StepQueue ==
  ASSUME PlanAssumption, AcquisitionInv, [Next]_acquisitionVars
  PROVE  QueueInv'
<1> USE DEF AcquisitionInv
<1>1. \A t \in Targets : WholePair(t) => WholePair(t)'
  BY WholeKept
<1>2. \A i \in 1 .. Scenarios : Tcm(i) \in Targets
  BY PlanFacts DEF TargetSet
<1>3. 1 \in 1 .. Scenarios
  BY DEF PlanAssumption
<1>4. CASE UNCHANGED <<run, queue>>
  BY <1>1, <1>2, <1>3, <1>4 DEF QueueInv, InQueue
<1>5. CASE BeginPlan
  <2>1. run' = "plan" /\ queue' = Activities
    BY <1>5 DEF BeginPlan, Begin
  <2>2. \A i \in 1 .. Scenarios : InQueue(Tcm(i))'
    BY <2>1, PlanOrder DEF InQueue
  <2> QED BY <2>1, <2>2, PlanOrder DEF QueueInv
<1>6. CASE BeginHotels
  <2>1. run' = "hotels" /\ queue' = HotelActivities /\ Hotels > 0
    BY <1>6 DEF BeginHotels, Begin
  <2>2. \A j, k \in DOMAIN queue' : queue'[j] = queue'[k] => j = k
    BY <2>1, HotelFacts, FieldFacts
  <2>3. \A k \in DOMAIN queue' : queue'[k].kind = "hotel"
    BY <2>1, HotelFacts, FieldFacts
  <2>4. queue' # <<>>
    BY <2>1, HotelFacts
  <2> QED BY <2>1, <2>2, <2>3, <2>4 DEF QueueInv
<1>7. CASE \E line \in ledgerFile : BeginRecovery(line)
  <2>1. run' = "recovery" /\ queue' = <<Env(1)>> /\ WholePair(Tcm(1))
    BY <1>7 DEF BeginRecovery
  <2>2. WholePair(Tcm(1))'
    BY <1>1, <1>2, <1>3, <2>1
  <2>3. \A j, k \in DOMAIN queue' : queue'[j] = queue'[k] => j = k
    BY <2>1
  <2>4. queue' # <<>>
    BY <2>1
  <2> QED BY <2>1, <2>2, <2>3, <2>4 DEF QueueInv
<1>8. CASE ReplayPrerequisite
  <2>1. run # "none" /\ TargetDone /\ WholePair(Target)
    BY <1>8 DEF ReplayPrerequisite
  <2> QED BY <1>1, <2>1, QueueDone
<1>9. CASE WriteSidecar
  <2>1. /\ Target \in Targets /\ run # "none" /\ fixture[Target] = current /\ current > Missing
        /\ fixture' = fixture
    BY <1>9, BusyFacts DEF WriteSidecar, PhaseInv
  <2>2. sidecar'[Target].id = current
    BY <1>9, <2>1 DEF WriteSidecar, TypeInv
  <2>3. CASE Target.kind = "tcm"
    <3>1. TargetDone
      BY <1>9, <2>3 DEF WriteSidecar
    <3>2. \A t \in Targets : t = Target => WholePair(t)'
      BY <2>1, <2>2 DEF WholePair
    <3> QED BY <1>1, <2>1, <3>1, <3>2, QueueDone
  <2>4. CASE Target.kind # "tcm"
    BY <1>4, <1>9, <2>4 DEF WriteSidecar, Goes
  <2> QED BY <2>3, <2>4
<1>10. CASE Describe
  <2>1. run # "none" /\ TargetDone /\ Target.kind # "tcm"
    BY <1>10, BusyFacts DEF Describe, PhaseInv
  <2> QED BY <1>1, <2>1, QueueDone
<1>11. CASE PollFails \/ Stop \/ StopWriting
  <2>1. run' = "none" /\ queue' = <<>>
    BY <1>11 DEF PollFails, Stop, StopWriting, Stopped
  <2>2. DOMAIN queue' = {}
    BY <2>1
  <2> QED BY <2>1, <2>2 DEF QueueInv
<1>12. CASE UNCHANGED acquisitionVars \/ (\E zone \in {"canonical", "foreign"} : Submit(zone))
            \/ PollCompletes \/ WriteFixture \/ (\E t \in Targets : ReadSidecar(t)) \/ ReadFixture
  BY <1>4, <1>12 DEF acquisitionVars, process, Submit, PollCompletes, WriteFixture, Goes,
                     ReadSidecar, ReadFixture
<1> QED BY <1>5, <1>6, <1>7, <1>8, <1>9, <1>10, <1>11, <1>12 DEF Next

\* No environment is paid for before its heatmap is on disk and the gate is open.
LEMMA StepWait ==
  ASSUME PlanAssumption, AcquisitionInv, [Next]_acquisitionVars
  PROVE  WaitInv'
<1> USE DEF AcquisitionInv
<1>1. \A t \in Targets : WholePair(t) => WholePair(t)'
  BY WholeKept
<1>2. \A b \in billed : b.target.kind = "env" => Tcm(b.target.nr) \in Targets
  BY ScenarioTargets DEF BilledInv
<1>3. elevated' = elevated
  BY DEF Next, acquisitionVars, BeginPlan, BeginHotels, Begin, BeginRecovery, ReplayPrerequisite,
         Submit, PollCompletes, PollFails, WriteFixture, WriteSidecar, Describe, Stop, StopWriting,
         ReadSidecar, ReadFixture
<1>4. CASE billed' = billed
  BY <1>1, <1>2, <1>3, <1>4 DEF WaitInv
<1>5. CASE \E zone \in {"canonical", "foreign"} : Submit(zone)
  <2>1. PICK zone : Submit(zone)
    BY <1>5
  <2> DEFINE new == [id |-> current', target |-> Target, zone |-> zone]
  <2>2. queue # <<>> /\ billed' = billed \cup {new} /\ new.target = Target
    BY <2>1, SubmitFacts
  <2> HIDE DEF new
  <2>3. ASSUME Target.kind = "env"
        PROVE  elevated /\ \A t \in Targets : t = Tcm(Target.nr) => WholePair(t)'
    <3>1. run # "hotels"
      BY <2>2, <2>3, HeadFacts DEF QueueInv
    <3>2. run = "plan"
      BY <2>1, <3>1 DEF Submit
    <3>3. elevated
      BY <2>1, <2>3, <3>2 DEF Submit, GateOpen
    <3>4. Tcm(Target.nr) \in Targets /\ WholePair(Tcm(Target.nr))
      BY <2>2, <2>3, HeatmapsFirst
    <3> QED BY <1>1, <3>3, <3>4
  <2>4. ASSUME NEW b \in billed', b.target.kind = "env"
        PROVE  elevated' /\ WholePair(Tcm(b.target.nr))'
    <3>1. CASE b \in billed
      BY <1>1, <1>2, <1>3, <2>4, <3>1 DEF WaitInv
    <3>2. CASE b = new
      <4>1. Tcm(b.target.nr) \in Targets
        BY <2>2, <2>4, <3>2, HeatmapsFirst
      <4> QED BY <1>3, <2>2, <2>3, <2>4, <3>2, <4>1
    <3> QED BY <2>2, <3>1, <3>2
  <2> QED BY <2>4 DEF WaitInv
<1>6. billed' = billed \/ \E zone \in {"canonical", "foreign"} : Submit(zone)
  BY DEF Next, acquisitionVars, BeginPlan, BeginHotels, Begin, BeginRecovery, ReplayPrerequisite,
         PollCompletes, PollFails, WriteFixture, WriteSidecar, Describe, Stop, StopWriting,
         ReadSidecar, ReadFixture
<1> QED BY <1>4, <1>5, <1>6

\* How far the current target has come is what the files show of it.
LEMMA StepPhase ==
  ASSUME PlanAssumption, AcquisitionInv, [Next]_acquisitionVars
  PROVE  PhaseInv'
<1> USE DEF AcquisitionInv
<1>1. /\ fixture \in [Targets -> Int] /\ sidecar \in [Targets -> [id : Int, anchor : Int]]
      /\ run \in Entering \cup {"none"}
  BY DEF TypeInv
<1>2. \A t \in Targets : sidecar'[t].id = Missing => sidecar'[t] = NoRecord
  <2> SUFFICES ASSUME NEW t \in Targets, sidecar'[t].id = Missing
               PROVE  sidecar'[t] = NoRecord
    OBVIOUS
  <2>1. CASE sidecar' = sidecar
    BY <2>1 DEF PhaseInv
  <2>2. CASE WriteSidecar \/ Describe
    <3>1. sidecar'[t] = sidecar[t] \/ sidecar'[t].id = current
      BY <1>1, <2>2 DEF WriteSidecar, Describe
    <3> QED BY <2>2, <3>1, BusyFacts DEF PhaseInv, WriteSidecar, Describe, Missing
  <2>3. CASE sidecar' = [sidecar EXCEPT ![Target].id = Torn]
    <3>1. sidecar'[t] = sidecar[t] \/ sidecar'[t].id = Torn
      BY <1>1, <2>3
    <3> QED BY <3>1 DEF PhaseInv, Missing, Torn
  <2>4. \/ sidecar' = sidecar \/ WriteSidecar \/ Describe
        \/ sidecar' = [sidecar EXCEPT ![Target].id = Torn]
    BY DEF Next, acquisitionVars, files, process, BeginPlan, BeginHotels, Begin, BeginRecovery,
           ReplayPrerequisite, Submit, PollCompletes, PollFails, WriteFixture, Stop, StopWriting,
           ReadSidecar, ReadFixture
  <2> QED BY <2>1, <2>2, <2>3, <2>4
<1>3. CASE UNCHANGED <<files, process, billed>>
  BY <1>2, <1>3 DEF files, process, PhaseInv, Absent, Target, Owns
<1>4. CASE phase' = "idle" /\ run' # "recovery"
  BY <1>2, <1>4 DEF PhaseInv
<1>5. CASE BeginPlan \/ BeginHotels
  BY <1>4, <1>5 DEF BeginPlan, BeginHotels, Begin
<1>6. CASE \E line \in ledgerFile : BeginRecovery(line)
  <2>1. PICK line \in ledgerFile : BeginRecovery(line)
    BY <1>6
  <2>2. /\ run' = "recovery" /\ phase' = "answered" /\ queue' = <<Env(1)>> /\ Absent(Env(1))
        /\ UNCHANGED files /\ current' = line.id
    BY <2>1 DEF BeginRecovery
  <2>3. line.id > Missing
    <3>1. PICK b \in billed : b.id = line.id
      BY DEF BilledInv, Owns
    <3>2. b.id \in 1 .. Cardinality(billed)
      BY <3>1 DEF BilledInv
    <3> QED BY <3>1, <3>2 DEF Missing
  <2>4. Target' = Env(1)
    BY <2>2 DEF Target
  <2>5. Absent(Target)'
    BY <2>2, <2>4 DEF Absent, files
  <2> QED BY <1>2, <2>2, <2>3, <2>5 DEF PhaseInv
<1>7. CASE ReplayPrerequisite \/ Describe \/ (WriteSidecar /\ TargetDone)
  <2>1. run # "none" /\ TargetDone
    BY <1>7, BusyFacts DEF ReplayPrerequisite, Describe, WriteSidecar
  <2>2. run = "recovery" => Len(queue) = 1
    BY DEF QueueInv
  <2>3. phase' = "idle" /\ run' # "recovery"
    BY <2>1, <2>2 DEF TargetDone
  <2> QED BY <1>4, <2>3
<1>8. CASE \E zone \in {"canonical", "foreign"} : Submit(zone)
  <2>1. PICK zone : Submit(zone)
    BY <1>8
  <2>2. /\ run' \in {"plan", "hotels"} /\ phase' = "polling" /\ queue' = queue /\ UNCHANGED files
        /\ Absent(Target)
    BY <2>1 DEF Submit
  <2>3. Absent(Target)'
    BY <2>2 DEF Absent, files, Target
  <2>4. current' > Missing /\ \E b \in billed' : b.id = current' /\ b.target = Target
    BY <2>1, SubmitFacts
  <2>5. Owns(current, Target)'
    BY <2>2, <2>4 DEF Owns, Target
  <2> QED BY <1>2, <2>2, <2>3, <2>4, <2>5 DEF PhaseInv
<1>9. CASE PollCompletes
  <2>1. /\ run # "none" /\ run # "recovery" /\ current > Missing /\ Absent(Target)
        /\ Owns(current, Target)
    BY <1>9, BusyFacts DEF PollCompletes, PhaseInv
  <2>2. phase' = "answered" /\ UNCHANGED <<files, run, queue, current, billed>>
    BY <1>9 DEF PollCompletes, Goes
  <2> QED BY <1>2, <2>1, <2>2 DEF PhaseInv, files, Absent, Target, Owns
<1>10. CASE WriteFixture
  <2>1. run # "none" /\ queue # <<>> /\ Target \in Targets /\ current > Missing /\ Absent(Target)
    BY <1>10, BusyFacts DEF WriteFixture, PhaseInv
  <2>2. /\ UNCHANGED <<sidecar, run, queue, current, billed>>
        /\ phase' = IF run = "recovery" THEN "described" ELSE "written"
    BY <1>10 DEF WriteFixture, Goes
  <2>3. fixture'[Target] = current /\ sidecar[Target] = NoRecord
    BY <1>1, <1>10, <2>1 DEF WriteFixture, PhaseInv, Absent
  <2>4. Target' = Target
    BY <2>2 DEF Target
  <2>5. CASE run = "recovery"
    <3>1. Target = Env(1)
      BY <2>5 DEF QueueInv, Target
    <3>2. Owns(current, Target)
      BY <1>10, <2>5, <3>1 DEF WriteFixture, Accepted, Owns
    <3>3. Target.kind # "tcm"
      BY <3>1, FieldFacts
    <3>4. Owns(current, Target)'
      BY <2>2, <3>2 DEF Owns, Target
    <3> QED BY <1>2, <2>1, <2>2, <2>3, <2>4, <2>5, <3>3, <3>4 DEF PhaseInv, NoRecord
  <2>6. CASE run # "recovery"
    <3>1. Owns(current, Target)
      BY <1>10, <2>6 DEF WriteFixture, PhaseInv
    <3>2. Owns(current, Target)'
      BY <2>2, <3>1 DEF Owns, Target
    <3> QED BY <1>2, <2>1, <2>2, <2>3, <2>4, <2>6, <3>2 DEF PhaseInv
  <2> QED BY <2>5, <2>6
<1>11. CASE WriteSidecar /\ ~TargetDone
  <2>1. /\ run # "none" /\ run # "recovery" /\ Target \in Targets /\ current > Missing
        /\ fixture[Target] = current /\ Owns(current, Target)
    BY <1>11, BusyFacts DEF WriteSidecar, PhaseInv
  <2>2. /\ phase' = "described" /\ UNCHANGED <<fixture, run, queue, current, billed>>
        /\ Target.kind # "tcm"
    BY <1>11 DEF WriteSidecar, Goes
  <2>3. sidecar'[Target].id = current
    BY <1>1, <1>11, <2>1 DEF WriteSidecar
  <2>4. Target' = Target /\ Owns(current, Target)'
    BY <2>1, <2>2 DEF Target, Owns
  <2> QED BY <1>2, <2>1, <2>2, <2>3, <2>4 DEF PhaseInv
<1>12. CASE PollFails \/ Stop \/ StopWriting
  BY <1>4, <1>12 DEF PollFails, Stop, StopWriting, Stopped
<1>13. CASE UNCHANGED acquisitionVars \/ (\E t \in Targets : ReadSidecar(t)) \/ ReadFixture
  BY <1>3, <1>13 DEF acquisitionVars, ReadSidecar, ReadFixture
<1> QED BY <1>5, <1>6, <1>7, <1>8, <1>9, <1>10, <1>11, <1>12, <1>13 DEF Next

\* Room asked for in advance is not used up by anything else.
LEMMA StepCalls ==
  ASSUME PlanAssumption, AcquisitionInv, [Next]_acquisitionVars
  PROVE  CallsInv'
<1> USE DEF AcquisitionInv
<1>1. TypeInv' /\ \A t \in Targets : Absent(t)' => Absent(t)
  BY StepType, FilesGrow
<1>2. /\ \A n \in {1, 2} : Cardinality(Open(n)) \in Nat
      /\ Cardinality(Open(2)) <= Cardinality(Open(1))
      /\ queue # <<>> /\ Absent(Target) => Cardinality(Open(1)) = Cardinality(Open(2)) + 1
  BY OpenFacts
<1>3. \A n \in {1, 2} : Cardinality(Open(n)') \in Nat
  <2>1. DOMAIN queue' = 1 .. Len(queue') /\ Len(queue') \in Nat
    BY <1>1, LenProperties DEF TypeInv
  <2>2. IsFiniteSet(1 .. Len(queue'))
    BY <2>1, FS_Interval
  <2>3. \A n \in {1, 2} : Open(n)' \in SUBSET (1 .. Len(queue'))
    BY <2>1 DEF Open
  <2> QED BY <2>2, <2>3, FS_Subset, FS_CardinalityType
<1>4. CallsLeft \in Int
  BY FS_CardinalityType DEF CallsLeft, PlanAssumption, BilledInv
<1>5. ledgerFile' = ledgerFile => CallsLeft' = CallsLeft
  BY DEF CallsLeft
<1>6. queue' = queue => \A n \in {1, 2} : Cardinality(Open(n)') <= Cardinality(Open(n))
  BY <1>1, OpenLess
<1>7. queue # <<>> /\ queue' = Tail(queue) => Cardinality(Open(1)') <= Cardinality(Open(2))
  BY <1>1, OpenDone
<1>8. CASE UNCHANGED <<process, ledgerFile>>
  BY <1>2, <1>3, <1>4, <1>5, <1>6, <1>8 DEF process, CallsInv
<1>9. CASE run' \notin {"plan", "hotels"}
  BY <1>9 DEF CallsInv
<1>10. CASE BeginPlan
  <2> DEFINE todo == {t \in Targets : Absent(t)}
             f == [k \in Open(1)' |-> Activities[k]]
  <2>1. queue' = Activities /\ phase' = "idle" /\ UNCHANGED <<fixture, sidecar, ledgerFile>>
        /\ CallsLeft >= Cardinality(todo)
    BY <1>10 DEF BeginPlan, Begin, files
  <2>2. IsFiniteSet(todo) /\ Cardinality(todo) \in Nat
    BY PlanFacts, FS_Subset, FS_CardinalityType
  <2>3. Open(1)' \subseteq DOMAIN Activities /\ \A k \in Open(1)' : Activities[k] \in todo
    <3>1. \A k \in DOMAIN Activities : Activities[k] \in Targets
      BY DEF Targets
    <3> QED BY <2>1, <3>1 DEF Open, Absent
  <2>4. f \in Injection(Open(1)', todo)
    BY <2>3, PlanOrder DEF Injection, IsInjective
  <2>5. Cardinality(Open(1)') <= Cardinality(todo)
    BY <2>2, <2>4, FS_Injection
  <2> QED BY <1>3, <1>4, <1>5, <2>1, <2>2, <2>5 DEF CallsInv
<1>11. CASE BeginHotels
  <2>1. queue' = HotelActivities /\ phase' = "idle" /\ ledgerFile' = ledgerFile
        /\ CallsLeft >= Hotels
    BY <1>11 DEF BeginHotels, Begin
  <2>2. IsFiniteSet(1 .. Hotels) /\ Cardinality(1 .. Hotels) = Hotels /\ Hotels \in Nat
    BY FS_Interval DEF PlanAssumption
  <2>3. Open(1)' \in SUBSET (1 .. Hotels)
    BY <2>1, HotelFacts DEF Open
  <2>4. Cardinality(Open(1)') <= Hotels
    BY <2>2, <2>3, FS_Subset
  <2> QED BY <1>3, <1>4, <1>5, <2>1, <2>2, <2>4 DEF CallsInv
<1>12. CASE ReplayPrerequisite
  <2>1. /\ run = "plan" /\ phase = "idle" /\ queue' = Tail(queue) /\ phase' = "idle"
        /\ ledgerFile' = ledgerFile
    BY <1>12 DEF ReplayPrerequisite, TargetDone
  <2>2. queue # <<>>
    BY <2>1 DEF QueueInv
  <2> QED BY <1>2, <1>3, <1>4, <1>5, <1>7, <2>1, <2>2 DEF CallsInv
<1>13. CASE \E zone \in {"canonical", "foreign"} : Submit(zone)
  <2>1. /\ run \in {"plan", "hotels"} /\ phase = "idle" /\ phase' = "polling"
        /\ queue' = queue /\ ledgerFile' = ledgerFile /\ Absent(Target)
    BY <1>13 DEF Submit
  <2>2. queue # <<>>
    BY <2>1 DEF QueueInv
  <2> QED BY <1>2, <1>3, <1>4, <1>5, <1>6, <2>1, <2>2 DEF CallsInv
<1>14. CASE PollCompletes
  <2>1. /\ phase = "polling" /\ phase' = "answered" /\ run' = run /\ queue' = queue
        /\ ledgerFile' = ledgerFile \cup {Line(TRUE)}
    BY <1>14 DEF PollCompletes, Goes
  <2>2. IsFiniteSet(ledgerFile)
    BY DEF BilledInv
  <2>3. /\ Cardinality(ledgerFile) \in Nat /\ Cardinality(ledgerFile') \in Nat
        /\ Cardinality(ledgerFile') <= Cardinality(ledgerFile) + 1
    <3>1. Cardinality(ledgerFile) \in Nat
      BY <2>2, FS_CardinalityType
    <3>2. /\ IsFiniteSet(ledgerFile \cup {Line(TRUE)})
          /\ Cardinality(ledgerFile \cup {Line(TRUE)}) =
               IF Line(TRUE) \in ledgerFile THEN Cardinality(ledgerFile)
               ELSE Cardinality(ledgerFile) + 1
      BY <2>2, FS_AddElement
    <3>3. Cardinality(ledgerFile') \in {Cardinality(ledgerFile), Cardinality(ledgerFile) + 1}
      BY <2>1, <3>2
    <3> QED BY <3>1, <3>3
  <2>4. CallsLeft' \in Int /\ CallsLeft' >= CallsLeft - 1
    BY <2>3 DEF CallsLeft, PlanAssumption
  <2> QED BY <1>2, <1>3, <1>4, <1>6, <2>1, <2>4 DEF CallsInv
<1>15. CASE WriteFixture
  <2>1. /\ phase = "answered" /\ phase' \in {"described", "written"} /\ run' = run
        /\ queue' = queue /\ ledgerFile' = ledgerFile
    BY <1>15 DEF WriteFixture, Goes
  <2> QED BY <1>2, <1>3, <1>4, <1>5, <1>6, <2>1 DEF CallsInv
<1>16. CASE WriteSidecar \/ Describe
  <2>1. /\ phase \in {"written", "described"} /\ ledgerFile' = ledgerFile /\ queue # <<>>
        /\ \/ phase' = "described" /\ run' = run /\ queue' = queue
           \/ phase' = "idle" /\ run' \in {run, "none"} /\ queue' = Tail(queue)
    BY <1>16, BusyFacts DEF WriteSidecar, Describe, Goes, TargetDone
  <2> QED BY <1>2, <1>3, <1>4, <1>5, <1>6, <1>7, <2>1 DEF CallsInv
<1>17. CASE (\E line \in ledgerFile : BeginRecovery(line)) \/ PollFails \/ Stop \/ StopWriting
  BY <1>9, <1>17 DEF BeginRecovery, PollFails, Stop, StopWriting, Stopped
<1>18. CASE UNCHANGED acquisitionVars \/ (\E t \in Targets : ReadSidecar(t)) \/ ReadFixture
  BY <1>8, <1>18 DEF acquisitionVars, ReadSidecar, ReadFixture
<1> QED BY <1>10, <1>11, <1>12, <1>13, <1>14, <1>15, <1>16, <1>17, <1>18 DEF Next

-----------------------------------------------------------------------------
(***************************************************************************)
(* Part 5.  The theorems.                                                  *)
(***************************************************************************)

\* At every moment of every history of runs, resumptions, recoveries and kills the files, the
\* queue, the phase and the ledger agree as the invariant says.
THEOREM AcquisitionInvariance ==
  ASSUME PlanAssumption
  PROVE  Spec => []AcquisitionInv
<1>1. Init => AcquisitionInv
  BY InitKept
<1>2. AcquisitionInv /\ [Next]_acquisitionVars => AcquisitionInv'
  <2> SUFFICES ASSUME AcquisitionInv, [Next]_acquisitionVars
               PROVE  AcquisitionInv'
    OBVIOUS
  <2>1. TypeInv' /\ BilledInv' /\ FilesInv' /\ QueueInv'
    BY StepType, StepBilled, StepFiles, StepQueue
  <2>2. PhaseInv' /\ WaitInv' /\ CallsInv'
    BY StepPhase, StepWait, StepCalls
  <2> QED BY <2>1, <2>2 DEF AcquisitionInv
<1> QED BY <1>1, <1>2, PTL DEF Spec

\* A sidecar on disk describes the fixture beside it, a result of that very target, anchored in
\* the heatmap on disk; and a server between its two reads of a pair finds what it matched
\* (acquisition.py:390, 443; issue23_acquisition.py:247-326, 704).
THEOREM PairsStayTogether ==
  ASSUME PlanAssumption
  PROVE  Spec => []PairsBelongTogether
<1>1. AcquisitionInv => PairsBelongTogether
  <2> SUFFICES ASSUME AcquisitionInv PROVE PairsBelongTogether
    OBVIOUS
  <2>1. FilesInv
    BY DEF AcquisitionInv
  <2>2. \A t \in Targets : sidecar[t].id > Missing =>
          /\ fixture[t] = sidecar[t].id
          /\ \E b \in billed : b.id = fixture[t] /\ b.target = t
          /\ sidecar[t].anchor \in {Missing, fixture[Tcm(t.nr)]}
    BY <2>1 DEF FilesInv, Owns
  <2>3. reading # <<>> => fixture[reading[1]] = reading[2]
    BY <2>1 DEF FilesInv
  <2> QED BY <2>2, <2>3 DEF PairsBelongTogether
<1> QED BY <1>1, AcquisitionInvariance, PTL

\* No environment is paid for before the weak scenario has passed its gate and its own heatmap
\* is on disk, and the calls a plan asked for at its start are never gone in the middle of it
\* (issue23_acquisition.py:357-360, 382-387, 584).
THEOREM EnvironmentsWait ==
  ASSUME PlanAssumption
  PROVE  Spec => []DependentsWait
<1>1. AcquisitionInv => DependentsWait
  <2> SUFFICES ASSUME AcquisitionInv PROVE DependentsWait
    OBVIOUS
  <2>1. \A b \in billed : b.target.kind = "env" => elevated /\ WholePair(Tcm(b.target.nr))
    BY DEF AcquisitionInv, WaitInv
  <2>2. Open(1) = {k \in DOMAIN queue : Absent(queue[k])}
    <3>1. DOMAIN queue = 1 .. Len(queue) /\ Len(queue) \in Nat
      BY LenProperties DEF AcquisitionInv, TypeInv
    <3> QED BY <3>1 DEF Open
  <2>3. run \in {"plan", "hotels"} /\ phase = "idle" => CallsLeft >= Cardinality(Open(1))
    BY DEF AcquisitionInv, CallsInv
  <2> QED BY <2>1, <2>2, <2>3 DEF DependentsWait
<1> QED BY <1>1, AcquisitionInvariance, PTL

\* No step of any run replaces or removes a stored observation, and none submits an activity
\* for a target that has one (issue23_acquisition.py:357).
THEOREM NothingObservedIsLost ==
  ASSUME PlanAssumption
  PROVE  Spec => ObservationsKept
<1> DEFINE Kept == /\ \A t \in Targets : fixture[t] > Missing => fixture'[t] = fixture[t]
                   /\ \A b \in billed' \ billed : fixture[b.target] <= Missing
<1>1. AcquisitionInv /\ [Next]_acquisitionVars => [Kept]_acquisitionVars
  <2> SUFFICES ASSUME AcquisitionInv, [Next]_acquisitionVars PROVE Kept
    OBVIOUS
  <2>1. \A t \in Targets : fixture[t] > Missing => fixture'[t] = fixture[t]
    BY FilesGrow DEF AcquisitionInv
  <2>2. CASE billed' = billed
    BY <2>1, <2>2
  <2>3. CASE \E zone \in {"canonical", "foreign"} : Submit(zone)
    <3>1. PICK zone : Submit(zone)
      BY <2>3
    <3>2. billed' = billed \cup {[id |-> current', target |-> Target, zone |-> zone]}
      BY <3>1, SubmitFacts
    <3>3. fixture[Target] = Missing
      BY <3>1 DEF Submit, Absent
    <3>4. \A b \in billed' \ billed : fixture[b.target] <= Missing
      BY <3>2, <3>3 DEF Missing
    <3> QED BY <2>1, <3>4
  <2>4. billed' = billed \/ \E zone \in {"canonical", "foreign"} : Submit(zone)
    BY DEF Next, acquisitionVars, BeginPlan, BeginHotels, Begin, BeginRecovery, ReplayPrerequisite,
           PollCompletes, PollFails, WriteFixture, WriteSidecar, Describe, Stop, StopWriting,
           ReadSidecar, ReadFixture
  <2> QED BY <2>2, <2>3, <2>4
<1> QED BY <1>1, AcquisitionInvariance, PTL DEF Spec, ObservationsKept

=============================================================================
