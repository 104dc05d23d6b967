----------------------------- MODULE FixturePair -----------------------------
(***************************************************************************)
(* Trip snapshots: the generator that replaces committed pairs of a        *)
(* fixture and its sidecar (trip_snapshot_generation.py with               *)
(* sidecars.replace_pair), and a server that loads them at start-up        *)
(* (FixtureTripAnalysisAdapter).  The generator may fail in any step, its  *)
(* roll-back may be cut short, and it may be killed.                       *)
(***************************************************************************)
EXTENDS Integers, Sequences

CONSTANTS Snapshots,   \* number of snapshots (four in the code)
          MaxVersion   \* runs of the generator that get to write (bounds the model)

\* What is assumed of the constants.
SnapshotsAssumption == Snapshots \in Nat \ {0} /\ MaxVersion \in Nat

VARIABLES disk,       \* per snapshot, the version of the fixture and of the sidecar
          version,    \* the version the generator writes, or wrote last
          generator,  \* its phase, the snapshot it is at, and the pair it remembers
          killed,     \* whether a run was killed or its roll-back failed
          loader,     \* the snapshot being loaded, the fixture read, and whether a run overlapped
          loaded      \* the pairs a server holds in memory

pairVars == <<disk, version, generator, killed, loader, loaded>>

NoFile == 0   \* no such file
NoPair == [fixture |-> NoFile, sidecar |-> NoFile]
Idle == [phase |-> "idle", at |-> 1, originals |-> NoPair]
NotLoading == [at |-> 0, fixture |-> NoFile, overlapped |-> FALSE]

Init ==
  /\ disk = [s \in 1 .. Snapshots |-> NoPair]
  /\ version = 0 /\ generator = Idle /\ killed = FALSE
  /\ loader = NotLoading /\ loaded = <<>>

At == generator.at
Running == generator.phase # "idle"
Server == <<loader, loaded>>
Phase(p) == generator' = [generator EXCEPT !.phase = p]

\* A load that has begun sees that a generator runs.
NoteOverlap == loader' = [loader EXCEPT !.overlapped = loader.at > 0]

-----------------------------------------------------------------------------
\* generate_issue23_snapshots refuses any existing file, of any pair, unless told to overwrite.
Generate(overwrite) ==
  /\ ~Running /\ version < MaxVersion
  /\ overwrite \/ \A s \in 1 .. Snapshots : disk[s] = NoPair
  /\ version' = version + 1
  /\ generator' = [Idle EXCEPT !.phase = "building"]
  /\ NoteOverlap
  /\ UNCHANGED <<disk, killed, loaded>>

\* replace_pair remembers both files and writes both temporary files.
Prepare ==
  /\ generator.phase = "building"
  /\ generator' = [generator EXCEPT !.phase = "prepared", !.originals = disk[At]]
  /\ UNCHANGED <<disk, version, killed, Server>>

ReplaceFixture ==
  /\ generator.phase = "prepared"
  /\ disk' = [disk EXCEPT ![At].fixture = version]
  /\ Phase("half")
  /\ UNCHANGED <<version, killed, Server>>

\* The second os.replace, and on to the next snapshot.
ReplaceSidecar ==
  /\ generator.phase = "half"
  /\ disk' = [disk EXCEPT ![At].sidecar = version]
  /\ generator' = IF At = Snapshots THEN Idle
                  ELSE [Idle EXCEPT !.phase = "building", !.at = At + 1]
  /\ UNCHANGED <<version, killed, Server>>

\* An input, the codec or a temporary file fails before anything is replaced.
FailBuilding ==
  /\ generator.phase = "building"
  /\ generator' = Idle
  /\ UNCHANGED <<disk, version, killed, Server>>

FailReplacing ==
  /\ generator.phase \in {"prepared", "half"}
  /\ Phase("restoring")
  /\ UNCHANGED <<disk, version, killed, Server>>

RestoredFaulty(now, original) == IF original = NoFile THEN now ELSE original \* a new file is not removed

\* The roll-back unlinks what did not exist and writes back what did.
Restored(now, original) == original

RestoreFixture ==
  /\ generator.phase = "restoring"
  /\ disk' = [disk EXCEPT ![At].fixture = Restored(@, generator.originals.fixture)]
  /\ Phase("restored")
  /\ UNCHANGED <<version, killed, Server>>

\* ... and raises, which ends the run: later snapshots are not generated.
RestoreSidecar ==
  /\ generator.phase = "restored"
  /\ disk' = [disk EXCEPT ![At].sidecar = Restored(@, generator.originals.sidecar)]
  /\ generator' = Idle
  /\ UNCHANGED <<version, killed, Server>>

\* A kill, or an error inside the roll-back.
Kill ==
  /\ Running
  /\ generator' = Idle /\ killed' = TRUE
  /\ UNCHANGED <<disk, version, Server>>

-----------------------------------------------------------------------------
\* The server loads pair after pair, the fixture of each first.
LoadFixture ==
  /\ loader.at = 0 /\ Len(loaded) < Snapshots
  /\ LET s == Len(loaded) + 1 IN
     /\ disk[s].fixture # NoFile
     /\ loader' = [at |-> s, fixture |-> disk[s].fixture, overlapped |-> Running]
  /\ UNCHANGED <<disk, version, generator, killed, loaded>>

\* Both versions bear the same request, so the checks of _load_fixture pass for a mixed pair.
LoadSidecar ==
  /\ loader.at > 0 /\ disk[loader.at].sidecar # NoFile
  /\ loaded' = Append(loaded, [fixture |-> loader.fixture,
                               sidecar |-> disk[loader.at].sidecar,
                               overlapped |-> loader.overlapped])
  /\ loader' = NotLoading
  /\ UNCHANGED <<disk, version, generator, killed>>

\* A missing file ends the start-up with an error; or the server stops, and may start again.
Restart ==
  /\ loader' = NotLoading /\ loaded' = <<>>
  /\ UNCHANGED <<disk, version, generator, killed>>

Next ==
  \/ \E overwrite \in BOOLEAN : Generate(overwrite)
  \/ Prepare \/ ReplaceFixture \/ ReplaceSidecar
  \/ FailBuilding \/ FailReplacing \/ RestoreFixture \/ RestoreSidecar \/ Kill
  \/ LoadFixture \/ LoadSidecar \/ Restart

Spec == Init /\ [][Next]_pairVars

-----------------------------------------------------------------------------
(***************************************************************************)
(* A fixture is beside a sidecar of another run only while replace_pair is *)
(* between its two steps on it, unless a run was killed there; a failure   *)
(* of any step leaves every pair whole (sidecars.py:65-75).  A server that *)
(* holds a mixed pair in memory loaded it while a generator ran, or after  *)
(* such a kill: it reads the two files one after the other and nothing     *)
(* ties them together (trip_adapters.py:128-135).                          *)
(***************************************************************************)
PairsReplacedTogether ==
  killed \/
    /\ \A s \in 1 .. Snapshots : disk[s].fixture # disk[s].sidecar =>
         generator.phase \in {"half", "restoring", "restored"} /\ At = s
    /\ \A k \in DOMAIN loaded : loaded[k].fixture # loaded[k].sidecar => loaded[k].overlapped
=============================================================================
