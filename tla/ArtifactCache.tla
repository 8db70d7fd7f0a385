---------------------------- MODULE ArtifactCache ----------------------------
(***************************************************************************)
(* The cache of external artifacts: sync_artifacts, run by any number of   *)
(* processes at once, and artifact_status, which the API and the           *)
(* validation command call at any moment.  Nothing locks the directory:    *)
(* two syncs share each artifact's ".part" file and the manifest.          *)
(*                                                                         *)
(* A file is what stands at each of its chunk positions: the version of    *)
(* the publisher's file it came from, or None where nothing was written.   *)
(* Its digest is its content.  A digest is taken in one step, chmod, sizes *)
(* and the static fields of a record are left out, and the allow-list      *)
(* holds for the artifacts in the source.                                  *)
(***************************************************************************)
EXTENDS Naturals

CONSTANTS
    Syncs,      \* processes that run sync_artifacts
    Artifacts,  \* how many artifacts the source lists; they are 1 .. Artifacts
    Chunks,     \* how many reads one body takes
    MaxVersion, \* bound: the publisher replaces its files this often, less one
    MaxSyncs,   \* bound: calls of sync_artifacts
    MaxAltered, \* bound: alterations from outside
    Absent      \* no such file

ASSUME BoundsAssumption ==
    /\ Artifacts \in Nat \ {0}
    /\ Chunks \in Nat \ {0}
    /\ MaxVersion \in Nat \ {0}
    /\ MaxSyncs \in Nat
    /\ MaxAltered \in Nat

None == 0

\* Each alteration puts content there that came from no publisher and was not there before.
Altered(n) == MaxVersion + n

File == [1 .. Chunks -> None .. Altered(MaxAltered)]

ASSUME AbsentAssumption == Absent \notin File

Items == 1 .. Artifacts
Empty == [k \in 1 .. Chunks |-> None]

Filled(file) == file # Absent /\ file # Empty
Whole(file) == \E v \in 1 .. MaxVersion : file = [k \in 1 .. Chunks |-> v]

VARIABLES
    published,  \* version the publisher serves
    target,     \* artifact -> its file in the cache
    part,       \* artifact -> its ".part" file
    manifest,   \* artifact -> digest the manifest gives it; all Absent when the
                \* manifest is missing, empty or torn, which a reader cannot tell apart
    step,       \* sync -> where it is
    force,      \* sync -> the --force flag
    item,       \* sync -> artifact it is at
    source,     \* sync -> version of the body it receives
    received,   \* sync -> chunks written so far
    handle,     \* sync -> what its open output file is called now
    records,    \* sync -> artifact -> digest it will write to the manifest
    reader,     \* artifact_status: "idle" or "read"
    expected,   \* the digests it read from the manifest
    calls, alterations,     \* bounded counters
    clean,      \* history: this sync was alone, and no body was cut, since it began
    trusted,    \* history: targets a clean sync put in place
    altered,    \* history: targets altered since a sync last wrote or digested them
    settled,    \* history: a clean sync finished, and nothing happened since
    calm        \* history: settled held since the reader read the manifest

files == <<published, target, part, manifest>>
syncing == <<step, force, item, source, received, handle, records>>
reading == <<reader, expected>>
history == <<clean, trusted, altered, settled, calm>>
vars == <<files, syncing, reading, calls, alterations, history>>

NoDigests == [a \in Items |-> Absent]

Init ==
    /\ published = 1
    /\ target = NoDigests
    /\ part = NoDigests
    /\ manifest = NoDigests
    /\ step = [p \in Syncs |-> "idle"]
    /\ force = [p \in Syncs |-> FALSE]
    /\ item = [p \in Syncs |-> 1]
    /\ source = [p \in Syncs |-> 1]
    /\ received = [p \in Syncs |-> 0]
    /\ handle = [p \in Syncs |-> "closed"]
    /\ records = [p \in Syncs |-> NoDigests]
    /\ reader = "idle"
    /\ expected = NoDigests
    /\ calls = 0
    /\ alterations = 0
    /\ clean = [p \in Syncs |-> FALSE]
    /\ trusted = {}
    /\ altered = {}
    /\ settled = FALSE
    /\ calm = FALSE

Active(p) == step[p] # "idle"

-----------------------------------------------------------------------------
(* sync_artifacts *)

Begin(p, forced) ==
    /\ ~ Active(p)
    /\ calls < MaxSyncs
    /\ calls' = calls + 1
    /\ step' = [step EXCEPT ![p] = "check"]
    /\ force' = [force EXCEPT ![p] = forced]
    /\ LET alone == \A q \in Syncs : ~ Active(q)
       IN  clean' = [q \in Syncs |-> IF q = p THEN alone ELSE FALSE]
    /\ settled' = FALSE
    /\ calm' = FALSE
    /\ UNCHANGED <<files, item, source, received, handle, records, reading,
                   alterations, trusted, altered>>

\* A plausible slip: whatever the manifest does not confirm is downloaded again.
WantedUnlessRecorded(p) ==
    force[p] \/ ~ Filled(target[item[p]]) \/ manifest[item[p]] # target[item[p]]

\* The condition under which an artifact is downloaded.
Wanted(p) == force[p] \/ ~ Filled(target[item[p]])

Keep(p) ==
    /\ step[p] = "check"
    /\ ~ Wanted(p)
    /\ step' = [step EXCEPT ![p] = "digest"]
    /\ UNCHANGED <<files, force, item, source, received, handle, records, reading,
                   calls, alterations, history>>

Need(p) ==
    /\ step[p] = "check"
    /\ Wanted(p)
    /\ step' = [step EXCEPT ![p] = "request"]
    /\ UNCHANGED <<files, force, item, source, received, handle, records, reading,
                   calls, alterations, history>>

\* The publisher answers, and the ".part" file is opened "wb": created, or cut to
\* nothing under whoever else is writing it.
Request(p) ==
    /\ step[p] = "request"
    /\ step' = [step EXCEPT ![p] = "receive"]
    /\ source' = [source EXCEPT ![p] = published]
    /\ received' = [received EXCEPT ![p] = 0]
    /\ handle' = [handle EXCEPT ![p] = "part"]
    /\ part' = [part EXCEPT ![item[p]] = Empty]
    /\ UNCHANGED <<published, target, manifest, force, item, records, reading,
                   calls, alterations, history>>

Overwritten(p, file) == [file EXCEPT ![received[p] + 1] = source[p]]

\* A chunk goes to the file that was opened, whatever its name is now.
Receive(p) ==
    /\ step[p] = "receive"
    /\ received[p] < Chunks
    /\ received' = [received EXCEPT ![p] = @ + 1]
    /\ part' = IF handle[p] = "part"
               THEN [part EXCEPT ![item[p]] = Overwritten(p, @)] ELSE part
    /\ target' = IF handle[p] = "target"
                 THEN [target EXCEPT ![item[p]] = Overwritten(p, @)] ELSE target
    /\ altered' = IF handle[p] = "target" THEN altered \ {item[p]} ELSE altered
    /\ UNCHANGED <<published, manifest, step, force, item, source, handle, records,
                   reading, calls, alterations, clean, trusted, settled, calm>>

\* read() returns nothing: the body is over, or the connection was closed early,
\* which a read with a size does not report.
EndOfBody(p) ==
    /\ step[p] = "receive"
    /\ step' = [step EXCEPT ![p] = "rename"]
    /\ handle' = [handle EXCEPT ![p] = "closed"]
    /\ clean' = [clean EXCEPT ![p] = @ /\ received[p] = Chunks]
    /\ UNCHANGED <<files, force, item, source, received, records, reading,
                   calls, alterations, trusted, altered, settled, calm>>

\* The call is over, and its variables with it.
Return(p) ==
    /\ step' = [step EXCEPT ![p] = "idle"]
    /\ force' = [force EXCEPT ![p] = FALSE]
    /\ item' = [item EXCEPT ![p] = 1]
    /\ source' = [source EXCEPT ![p] = 1]
    /\ received' = [received EXCEPT ![p] = 0]
    /\ handle' = [handle EXCEPT ![p] = "closed"]
    /\ records' = [records EXCEPT ![p] = NoDigests]
    /\ clean' = [clean EXCEPT ![p] = FALSE]

\* An exception leaves the function, and the files as they are.
Leave(p) ==
    /\ Return(p)
    /\ UNCHANGED <<files, reading, calls, alterations, trusted, altered, settled, calm>>

RequestFails(p) == step[p] = "request" /\ Leave(p)

\* A plausible slip: a timeout taken for the end of the body.
ReceiveFailsQuietly(p) ==
    /\ step[p] = "receive"
    /\ step' = [step EXCEPT ![p] = "rename"]
    /\ handle' = [handle EXCEPT ![p] = "closed"]
    /\ UNCHANGED <<files, force, item, source, received, records, reading,
                   calls, alterations, history>>

\* A read times out, or the disk is full.
ReceiveFails(p) == step[p] = "receive" /\ Leave(p)

\* Another sync that holds the ".part" file open now writes to the target, and one
\* that held the target open writes to a file without a name.
Rename(p) ==
    LET a == item[p]
        moved(q) == CASE item[q] = a /\ handle[q] = "part" -> "target"
                      [] item[q] = a /\ handle[q] = "target" -> "gone"
                      [] OTHER -> handle[q]
    IN  /\ step[p] = "rename"
        /\ part[a] # Absent
        /\ target' = [target EXCEPT ![a] = part[a]]
        /\ part' = [part EXCEPT ![a] = Absent]
        /\ handle' = [q \in Syncs |-> moved(q)]
        /\ step' = [step EXCEPT ![p] = "digest"]
        /\ trusted' = IF clean[p] THEN trusted \cup {a} ELSE trusted \ {a}
        /\ altered' = altered \ {a}
        /\ UNCHANGED <<published, manifest, force, item, source, received, records,
                       reading, calls, alterations, clean, settled, calm>>

\* Another sync has renamed the file away.
RenameFails(p) == step[p] = "rename" /\ part[item[p]] = Absent /\ Leave(p)

\* A plausible slip: a digest once recorded is not taken again.
DigestOnce(p) ==
    LET a == item[p]
    IN  /\ step[p] = "digest"
        /\ records' = [records EXCEPT ![p][a] =
                            IF manifest[a] = Absent THEN target[a] ELSE manifest[a]]
        /\ item' = [item EXCEPT ![p] = IF a < Artifacts THEN a + 1 ELSE a]
        /\ step' = [step EXCEPT ![p] = IF a < Artifacts THEN "check" ELSE "open"]
        /\ altered' = altered \ {a}
        /\ UNCHANGED <<files, force, source, received, handle, reading,
                       calls, alterations, clean, trusted, settled, calm>>

Digest(p) ==
    LET a == item[p]
    IN  /\ step[p] = "digest"
        /\ records' = [records EXCEPT ![p][a] = target[a]]
        /\ item' = [item EXCEPT ![p] = IF a < Artifacts THEN a + 1 ELSE a]
        /\ step' = [step EXCEPT ![p] = IF a < Artifacts THEN "check" ELSE "open"]
        /\ altered' = altered \ {a}
        /\ UNCHANGED <<files, force, source, received, handle, reading,
                       calls, alterations, clean, trusted, settled, calm>>

\* write_text cuts the manifest to nothing before it writes.
OpenManifest(p) ==
    /\ step[p] = "open"
    /\ step' = [step EXCEPT ![p] = "write"]
    /\ manifest' = NoDigests
    /\ UNCHANGED <<published, target, part, force, item, source, received, handle,
                   records, reading, calls, alterations, history>>

\* Over the records another sync wrote since, whose tail may show behind ours.
WriteManifest(p) ==
    /\ step[p] = "write"
    /\ \E content \in {records[p], NoDigests} :
        /\ manifest = NoDigests => content = records[p]
        /\ manifest' = content
    /\ Return(p)
    /\ settled' = (clean[p] /\ altered = {})
    /\ UNCHANGED <<published, target, part, reading, calls, alterations, trusted,
                   altered, calm>>

-----------------------------------------------------------------------------
(* artifact_status *)

ReadManifest ==
    /\ reader = "idle"
    /\ reader' = "read"
    /\ expected' = manifest
    /\ calm' = settled
    /\ UNCHANGED <<files, syncing, calls, alterations, clean, trusted,
                   altered, settled>>

\* What it answers of an artifact that it inspects now.
Standing(a) ==
    CASE ~ Filled(target[a]) -> "missing"
      [] Filled(target[a]) /\ target[a] # expected[a] -> "unverified"
      [] OTHER -> "verified"

Inspect ==
    /\ reader = "read"
    /\ reader' = "idle"
    /\ expected' = NoDigests
    /\ calm' = FALSE
    /\ UNCHANGED <<files, syncing, calls, alterations, clean, trusted, altered, settled>>

-----------------------------------------------------------------------------
(* The publisher and the machine *)

Publish ==
    /\ published < MaxVersion
    /\ published' = published + 1
    /\ UNCHANGED <<target, part, manifest, syncing, reading, calls, alterations, history>>

Kill(p) == Active(p) /\ Leave(p)

\* Something other than the program changes a file of the cache.
Alter(a) ==
    /\ alterations < MaxAltered
    /\ Filled(target[a])
    /\ alterations' = alterations + 1
    /\ target' = [target EXCEPT ![a] = [@ EXCEPT ![Chunks] = Altered(alterations')]]
    /\ trusted' = trusted \ {a}
    /\ altered' = altered \cup {a}
    /\ settled' = FALSE
    /\ calm' = FALSE
    /\ UNCHANGED <<published, part, manifest, syncing, reading, calls, clean>>

Next ==
    \/ \E p \in Syncs :
        \/ \E forced \in BOOLEAN : Begin(p, forced)
        \/ Keep(p) \/ Need(p) \/ Request(p) \/ Receive(p) \/ EndOfBody(p)
        \/ RequestFails(p) \/ ReceiveFails(p) \/ Rename(p) \/ RenameFails(p)
        \/ Digest(p) \/ OpenManifest(p) \/ WriteManifest(p) \/ Kill(p)
    \/ ReadManifest \/ Inspect \/ Publish
    \/ \E a \in Items : Alter(a)

Spec == Init /\ [][Next]_vars

-----------------------------------------------------------------------------
TypeOK ==
    /\ published \in 1 .. MaxVersion
    /\ target \in [Items -> File \cup {Absent}]
    /\ part \in [Items -> File \cup {Absent}]
    /\ manifest \in [Items -> File \cup {Absent}]
    /\ step \in [Syncs -> {"idle", "check", "request", "receive", "rename",
                           "digest", "open", "write"}]
    /\ force \in [Syncs -> BOOLEAN]
    /\ item \in [Syncs -> Items]
    /\ source \in [Syncs -> 1 .. MaxVersion]
    /\ received \in [Syncs -> 0 .. Chunks]
    /\ handle \in [Syncs -> {"closed", "part", "target", "gone"}]
    /\ records \in [Syncs -> [Items -> File \cup {Absent}]]
    /\ reader \in {"idle", "read"}
    /\ expected \in [Items -> File \cup {Absent}]
    /\ calls \in 0 .. MaxSyncs
    /\ alterations \in 0 .. MaxAltered
    /\ clean \in [Syncs -> BOOLEAN]
    /\ trusted \subseteq Items
    /\ altered \subseteq Items
    /\ settled \in BOOLEAN /\ calm \in BOOLEAN

\* "Download artifacts atomically" (external.py:91), as far as the code goes: a file
\* that a sync put in place is one version of the publisher's file from its first
\* chunk to its last, whatever failed downloads, killed or overlapping syncs left in
\* the ".part" files before, if that sync was alone until its rename, no body was
\* cut short, and nothing outside the program changed the file since.  No later
\* sync, alone or not, writes into it.
TrustedWhole == \A a \in trusted : Whole(target[a])

\* "never replace a valid cache implicitly" (external.py:91): a file with content in
\* it changes only under a sync that was told to force, under one that is not clean -
\* not alone, or with a body that was cut short - or from outside.
UnforcedKeeps ==
    [][\A a \in Items :
        Filled(target[a]) /\ target'[a] # target[a] =>
            \/ \E p \in Syncs : Active(p) /\ (force[p] \/ ~ clean[p])
            \/ alterations' # alterations]_vars

\* What artifact_status answers, though it reads the manifest first and the files
\* after it, beside running syncs: when a clean sync finished and nothing happened
\* since, every artifact is verified; and a file altered since a sync last wrote or
\* digested it is never called verified.  (A sync that keeps an altered file records
\* its digest unseen, external.py:100: from then on it is called verified.)
StatusTells ==
    reader = "read" =>
        /\ calm => \A a \in Items : Standing(a) = "verified"
        /\ \A a \in altered : Standing(a) # "verified"
=============================================================================
