------------------------- MODULE ArtifactCacheProofs -------------------------
(***************************************************************************)
(* What the artifact cache keeps to for any number of syncs, artifacts,    *)
(* chunks, versions and alterations.  The invariant says what a sync that  *)
(* is alone has made of its files so far; the rest follows from it.        *)
(***************************************************************************)
EXTENDS ArtifactCache, TLAPS

\* What a file can hold after so many alterations.
FileAt(n) == [1 .. Chunks -> None .. Altered(n)]
StoredAt(n) == [Items -> FileAt(n) \cup {Absent}]

Typed ==
    /\ published \in 1 .. MaxVersion
    /\ target \in StoredAt(alterations) /\ part \in StoredAt(alterations)
    /\ manifest \in StoredAt(alterations) /\ expected \in StoredAt(alterations)
    /\ step \in [Syncs -> {"idle", "check", "request", "receive", "rename",
                           "digest", "open", "write"}]
    /\ force \in [Syncs -> BOOLEAN] /\ clean \in [Syncs -> BOOLEAN]
    /\ item \in [Syncs -> Items]
    /\ source \in [Syncs -> 1 .. MaxVersion]
    /\ received \in [Syncs -> 0 .. Chunks]
    /\ handle \in [Syncs -> {"closed", "part", "target", "gone"}]
    /\ records \in [Syncs -> StoredAt(alterations)]
    /\ reader \in {"idle", "read"}
    /\ calls \in 0 .. MaxSyncs /\ alterations \in 0 .. MaxAltered
    /\ trusted \subseteq Items /\ altered \subseteq Items
    /\ settled \in BOOLEAN /\ calm \in BOOLEAN

\* A clean sync runs, and no other does.
CleanIsAlone ==
    \A p \in Syncs : clean[p] => Active(p) /\ \A q \in Syncs \ {p} : ~ Active(q)

OpenWhileReceiving == \A p \in Syncs : handle[p] # "closed" => step[p] = "receive"

\* What is open is there, under the name it has now.
OpenExists ==
    \A p \in Syncs :
        /\ handle[p] = "part" => part[item[p]] # Absent
        /\ handle[p] = "target" => target[item[p]] # Absent

\* What a clean sync has written so far.
CleanPart ==
    \A p \in Syncs : clean[p] /\ step[p] = "receive" =>
        /\ handle[p] = "part" /\ part[item[p]] # Absent
        /\ \A k \in 1 .. received[p] : part[item[p]][k] = source[p]

CleanWhole ==
    \A p \in Syncs : clean[p] /\ step[p] = "rename" =>
        part[item[p]] # Absent /\ \A k \in 1 .. Chunks : part[item[p]][k] = source[p]

\* No one writes into a target that a clean sync put in place.
TrustedClosed == \A p \in Syncs : handle[p] = "target" => item[p] \notin trusted

\* A clean sync that was not told to force downloads only what is missing.
CleanWanted ==
    \A p \in Syncs :
        clean[p] /\ ~ force[p] /\ step[p] \in {"request", "receive", "rename"} =>
            ~ Filled(target[item[p]])

Core ==
    /\ CleanIsAlone /\ OpenWhileReceiving /\ OpenExists /\ CleanPart /\ CleanWhole
    /\ TrustedClosed /\ TrustedWhole /\ CleanWanted

-----------------------------------------------------------------------------
LEMMA MoreFiles ==
    ASSUME NEW n \in Nat
    PROVE  FileAt(n) \subseteq FileAt(n + 1) /\ StoredAt(n) \subseteq StoredAt(n + 1)
<1>1. None .. Altered(n) \subseteq None .. Altered(n + 1)
  BY BoundsAssumption DEF None, Altered
<1>2. FileAt(n) \subseteq FileAt(n + 1)
  BY <1>1 DEF FileAt
<1> QED
  BY <1>2 DEF StoredAt

LEMMA NothingStored ==
    ASSUME NEW n \in Nat
    PROVE  Empty \in FileAt(n) /\ NoDigests \in StoredAt(n)
  BY BoundsAssumption DEF Empty, FileAt, None, Altered, NoDigests, StoredAt

LEMMA InitTyped == Init => Typed
<1> SUFFICES ASSUME Init PROVE Typed
  OBVIOUS
<1>1. alterations = 0 /\ NoDigests \in StoredAt(0)
  BY NothingStored DEF Init
<1>2. 1 \in Items /\ 1 \in 1 .. MaxVersion /\ 0 \in 0 .. Chunks /\ 0 \in 0 .. MaxSyncs
      /\ 0 \in 0 .. MaxAltered
  BY BoundsAssumption DEF Items
<1> QED
  BY <1>1, <1>2 DEF Init, Typed

LEMMA InitCore == Init => Core
  BY DEF Init, Core, CleanIsAlone, OpenWhileReceiving, OpenExists, CleanPart, CleanWhole,
         TrustedClosed, TrustedWhole, CleanWanted, Active

\* A file that one more chunk is written to is a file.
LEMMA OverwrittenTyped ==
    ASSUME Typed, NEW p \in Syncs, step[p] = "receive", received[p] < Chunks,
           NEW file \in FileAt(alterations)
    PROVE  Overwritten(p, file) \in FileAt(alterations)
<1>1. source[p] \in None .. Altered(alterations)
  BY BoundsAssumption DEF Typed, None, Altered
<1> QED
  BY <1>1 DEF Overwritten, FileAt

\* The end of a call leaves its variables typed.
LEMMA ReturnTyped ==
    ASSUME Typed, NEW p \in Syncs, Return(p), UNCHANGED alterations
    PROVE  /\ step' \in [Syncs -> {"idle", "check", "request", "receive", "rename",
                                   "digest", "open", "write"}]
           /\ force' \in [Syncs -> BOOLEAN] /\ clean' \in [Syncs -> BOOLEAN]
           /\ item' \in [Syncs -> Items]
           /\ source' \in [Syncs -> 1 .. MaxVersion]
           /\ received' \in [Syncs -> 0 .. Chunks]
           /\ handle' \in [Syncs -> {"closed", "part", "target", "gone"}]
           /\ records' \in [Syncs -> StoredAt(alterations)']
<1>1. 1 \in Items /\ 1 \in 1 .. MaxVersion /\ 0 \in 0 .. Chunks
  BY BoundsAssumption DEF Items
<1>2. alterations \in Nat /\ NoDigests \in StoredAt(alterations)
  BY NothingStored, BoundsAssumption DEF Typed
<1> QED
  BY <1>1, <1>2 DEF Typed, Return

LEMMA TypedStep == Typed /\ Core /\ [Next]_vars => Typed'
<1> SUFFICES ASSUME Typed, Core, [Next]_vars PROVE Typed'
  OBVIOUS
<1>0. alterations \in Nat
  BY BoundsAssumption DEF Typed
<1>1. ASSUME NEW p \in Syncs, NEW forced \in BOOLEAN, Begin(p, forced) PROVE Typed'
  <2>1. calls' \in 0 .. MaxSyncs
    BY <1>1, BoundsAssumption DEF Begin, Typed
  <2>2. \A q \in Syncs : clean'[q] \in BOOLEAN
    BY <1>1 DEF Begin, Active
  <2>3. clean' \in [Syncs -> BOOLEAN]
    BY <1>1, <2>2 DEF Begin
  <2> QED
    BY <1>1, <2>1, <2>3 DEF Begin, Typed, files, reading
<1>2. ASSUME NEW p \in Syncs, Keep(p) \/ Need(p) PROVE Typed'
  BY <1>2 DEF Keep, Need, Typed, files, reading, history
<1>3. ASSUME NEW p \in Syncs, Request(p) PROVE Typed'
  BY <1>0, <1>3, NothingStored, BoundsAssumption
     DEF Request, Typed, reading, history, StoredAt
<1>4. ASSUME NEW p \in Syncs, Receive(p) PROVE Typed'
  <2>1. part' \in StoredAt(alterations)
    <3>1. CASE handle[p] = "part"
      <4>1. item[p] \in Items /\ part[item[p]] \in FileAt(alterations)
        BY <3>1 DEF Core, OpenExists, Typed, StoredAt
      <4>2. Overwritten(p, part[item[p]]) \in FileAt(alterations)
        BY <1>4, <4>1, OverwrittenTyped DEF Receive
      <4> QED
        BY <1>4, <3>1, <4>1, <4>2 DEF Receive, Typed, StoredAt
    <3> QED
      BY <1>4, <3>1 DEF Receive, Typed
  <2>2. target' \in StoredAt(alterations)
    <3>1. CASE handle[p] = "target"
      <4>1. item[p] \in Items /\ target[item[p]] \in FileAt(alterations)
        BY <3>1 DEF Core, OpenExists, Typed, StoredAt
      <4>2. Overwritten(p, target[item[p]]) \in FileAt(alterations)
        BY <1>4, <4>1, OverwrittenTyped DEF Receive
      <4> QED
        BY <1>4, <3>1, <4>1, <4>2 DEF Receive, Typed, StoredAt
    <3> QED
      BY <1>4, <3>1 DEF Receive, Typed
  <2>3. received' \in [Syncs -> 0 .. Chunks]
    BY <1>4, BoundsAssumption DEF Receive, Typed
  <2> QED
    BY <1>4, <2>1, <2>2, <2>3 DEF Receive, Typed, reading
<1>5. ASSUME NEW p \in Syncs, EndOfBody(p) PROVE Typed'
  <2>1. clean' \in [Syncs -> BOOLEAN]
    BY <1>5 DEF EndOfBody, Typed
  <2> QED
    BY <1>5, <2>1 DEF EndOfBody, Typed, files, reading
<1>6. ASSUME NEW p \in Syncs, Leave(p) PROVE Typed'
  BY <1>6, ReturnTyped DEF Leave, Typed, files, reading
<1>7. ASSUME NEW p \in Syncs, Rename(p) PROVE Typed'
  <2>1. target' \in StoredAt(alterations) /\ part' \in StoredAt(alterations)
    BY <1>7 DEF Rename, Typed, StoredAt
  <2>2. handle' \in [Syncs -> {"closed", "part", "target", "gone"}]
    BY <1>7 DEF Rename, Typed
  <2>3. trusted' \subseteq Items /\ altered' \subseteq Items
    BY <1>7 DEF Rename, Typed
  <2> QED
    BY <1>7, <2>1, <2>2, <2>3 DEF Rename, Typed, reading
<1>8. ASSUME NEW p \in Syncs, Digest(p) PROVE Typed'
  <2>1. item' \in [Syncs -> Items]
    BY <1>8, BoundsAssumption DEF Digest, Typed, Items
  <2>2. records' \in [Syncs -> StoredAt(alterations)]
    BY <1>8 DEF Digest, Typed, StoredAt
  <2>3. step' \in [Syncs -> {"idle", "check", "request", "receive", "rename",
                             "digest", "open", "write"}]
    BY <1>8 DEF Digest, Typed
  <2> QED
    BY <1>8, <2>1, <2>2, <2>3 DEF Digest, Typed, files, reading
<1>9. ASSUME NEW p \in Syncs, OpenManifest(p) PROVE Typed'
  BY <1>0, <1>9, NothingStored DEF OpenManifest, Typed, reading, history
<1>10. ASSUME NEW p \in Syncs, WriteManifest(p) PROVE Typed'
  <2>1. manifest' \in StoredAt(alterations)
    BY <1>0, <1>10, NothingStored DEF WriteManifest, Typed
  <2>2. settled' \in BOOLEAN
    BY <1>10 DEF WriteManifest, Typed
  <2> QED
    BY <1>10, <2>1, <2>2, ReturnTyped DEF WriteManifest, Typed, reading
<1>11. CASE ReadManifest
  BY <1>11 DEF ReadManifest, Typed, files, syncing
<1>12. CASE Inspect
  BY <1>0, <1>12, NothingStored DEF Inspect, Typed, files, syncing
<1>13. CASE Publish
  BY <1>13, BoundsAssumption DEF Publish, Typed, syncing, reading, history
<1>14. ASSUME NEW a \in Items, Alter(a) PROVE Typed'
  <2>1. alterations' = alterations + 1 /\ alterations' \in 0 .. MaxAltered
    BY <1>14, BoundsAssumption DEF Alter, Typed
  <2>2. StoredAt(alterations) \subseteq StoredAt(alterations')
        /\ FileAt(alterations) \subseteq FileAt(alterations')
    BY <1>0, <2>1, MoreFiles
  <2>3. target[a] \in FileAt(alterations')
    BY <1>14, <2>2 DEF Alter, Filled, Typed, StoredAt
  <2>4. Altered(alterations') \in None .. Altered(alterations')
    BY <2>1, BoundsAssumption DEF None, Altered
  <2>5. [target[a] EXCEPT ![Chunks] = Altered(alterations')] \in FileAt(alterations')
    BY <2>3, <2>4 DEF FileAt
  <2>6. target' \in StoredAt(alterations')
    <3>1. target' = [target EXCEPT ![a] = [target[a] EXCEPT ![Chunks] = Altered(alterations')]]
      BY <1>14 DEF Alter
    <3>2. target \in StoredAt(alterations')
      BY <2>2 DEF Typed
    <3> QED
      BY <2>5, <3>1, <3>2 DEF StoredAt
  <2>7. records' \in [Syncs -> StoredAt(alterations')]
    BY <1>14, <2>2 DEF Alter, Typed, syncing
  <2> QED
    BY <1>14, <2>1, <2>2, <2>6, <2>7 DEF Alter, Typed, syncing, reading
<1>15. CASE UNCHANGED vars
  BY <1>15 DEF vars, Typed, files, syncing, reading, history
<1> QED
  BY <1>1, <1>2, <1>3, <1>4, <1>5, <1>6, <1>7, <1>8, <1>9, <1>10, <1>11, <1>12, <1>13,
     <1>14, <1>15 DEF Next, RequestFails, ReceiveFails, RenameFails, Kill

-----------------------------------------------------------------------------
LEMMA Existing ==
    ASSUME Typed, NEW file \in FileAt(alterations)
    PROVE  file # Absent
<1>1. FileAt(alterations) \subseteq File
  BY BoundsAssumption DEF Typed, FileAt, File, None, Altered
<1> QED
  BY <1>1, AbsentAssumption

\* A step that leaves the files, the open handles and the artifacts in hand alone, and
\* makes no sync clean or able to receive, keeps what the invariant says of them.
LEMMA CoreAtRest ==
    ASSUME Typed, Core,
           UNCHANGED <<target, part, source, received, handle, trusted>>,
           \A q \in Syncs : handle[q] # "closed" => step'[q] = "receive" /\ item'[q] = item[q],
           \A q \in Syncs : clean'[q] =>
                /\ step'[q] # "idle" /\ \A r \in Syncs \ {q} : step'[r] = "idle"
                /\ step'[q] \in {"receive", "rename"} =>
                        clean[q] /\ step'[q] = step[q] /\ item'[q] = item[q]
                /\ step'[q] \in {"request", "receive", "rename"} /\ ~ force'[q] =>
                        ~ Filled(target[item'[q]])
    PROVE  Core'
  BY DEF Core, CleanIsAlone, OpenWhileReceiving, OpenExists, CleanPart, CleanWhole,
         TrustedClosed, TrustedWhole, CleanWanted, Active

LEMMA CoreBegin ==
    ASSUME Typed, Core, NEW p \in Syncs, NEW forced \in BOOLEAN, Begin(p, forced)
    PROVE  Core'
<1>1. UNCHANGED <<target, part, source, received, handle, trusted, item>>
  BY DEF Begin, files
<1>2. step[p] = "idle" /\ step' = [step EXCEPT ![p] = "check"]
  BY DEF Begin, Active
<1>3. \A q \in Syncs : handle[q] # "closed" => step'[q] = "receive"
  BY <1>2 DEF Core, OpenWhileReceiving, Typed
<1>4. \A q \in Syncs : clean'[q] => q = p /\ \A r \in Syncs : step[r] = "idle"
  BY DEF Begin, Active, Typed
<1>5. \A q \in Syncs : clean'[q] => step'[q] = "check" /\ \A r \in Syncs \ {q} : step'[r] = "idle"
  BY <1>2, <1>4 DEF Typed
<1> QED
  BY <1>1, <1>3, <1>5, CoreAtRest

LEMMA CoreCheck ==
    ASSUME Typed, Core, NEW p \in Syncs, Keep(p) \/ Need(p)
    PROVE  Core'
<1>1. UNCHANGED <<target, part, source, received, handle, trusted, item, clean, force>>
  BY DEF Keep, Need, files, history
<1>2. /\ step[p] = "check"
      /\ \/ step' = [step EXCEPT ![p] = "digest"]
         \/ step' = [step EXCEPT ![p] = "request"] /\ (force[p] \/ ~ Filled(target[item[p]]))
  BY DEF Keep, Need, Wanted
<1>3. \A q \in Syncs : handle[q] # "closed" => step'[q] = "receive"
  BY <1>2 DEF Core, OpenWhileReceiving, Typed
<1>4. ASSUME NEW q \in Syncs, clean[q]
      PROVE  /\ step'[q] # "idle" /\ \A r \in Syncs \ {q} : step'[r] = "idle"
             /\ step'[q] \in {"receive", "rename"} => step'[q] = step[q]
             /\ step'[q] \in {"request", "receive", "rename"} /\ ~ force[q] =>
                    ~ Filled(target[item[q]])
  <2>1. step[q] # "idle" /\ \A r \in Syncs \ {q} : step[r] = "idle"
    BY <1>4 DEF Core, CleanIsAlone, Active
  <2>2. q = p
    BY <1>2, <2>1
  <2> QED
    BY <1>2, <2>1, <2>2 DEF Typed
<1> QED
  BY <1>1, <1>3, <1>4, CoreAtRest

LEMMA CoreRequest ==
    ASSUME Typed, Core, NEW p \in Syncs, Request(p)
    PROVE  Core'
<1> DEFINE a == item[p]
<1>1. a \in Items /\ Empty # Absent
  BY Existing, NothingStored, BoundsAssumption DEF Typed
<1>2. /\ step[p] = "request" /\ step' = [step EXCEPT ![p] = "receive"]
      /\ source' = [source EXCEPT ![p] = published]
      /\ received' = [received EXCEPT ![p] = 0]
      /\ handle' = [handle EXCEPT ![p] = "part"]
      /\ part' = [part EXCEPT ![a] = Empty]
      /\ UNCHANGED <<target, item, force, clean, trusted>>
  BY DEF Request, history
<1>3. \A q \in Syncs : clean[q] => step[q] # "idle" /\ \A r \in Syncs \ {q} : step[r] = "idle"
  BY DEF Core, CleanIsAlone, Active
<1>4. \A q \in Syncs : clean[q] => q = p
  BY <1>2, <1>3
<1>5. CleanIsAlone'
  BY <1>2, <1>3, <1>4 DEF CleanIsAlone, Active, Typed
<1>6. OpenWhileReceiving' /\ OpenExists'
  BY <1>1, <1>2 DEF Core, OpenWhileReceiving, OpenExists, Typed, StoredAt
<1>7. CleanPart' /\ CleanWhole'
  BY <1>1, <1>2, <1>4 DEF CleanPart, CleanWhole, Typed, StoredAt
<1>8. TrustedClosed' /\ TrustedWhole' /\ CleanWanted'
  BY <1>2, <1>4 DEF Core, TrustedClosed, TrustedWhole, CleanWanted, Typed
<1> QED
  BY <1>5, <1>6, <1>7, <1>8 DEF Core

LEMMA CoreReceive ==
    ASSUME Typed, Core, NEW p \in Syncs, Receive(p)
    PROVE  Core'
<1> DEFINE a == item[p]
<1>1. /\ step[p] = "receive" /\ received[p] < Chunks
      /\ received' = [received EXCEPT ![p] = @ + 1]
      /\ UNCHANGED <<step, source, item, force, clean, trusted, handle>>
      /\ a \in Items
  BY DEF Receive, Typed
<1>2. handle[p] = "part" => part' = [part EXCEPT ![a] = Overwritten(p, part[a])]
  BY <1>1 DEF Receive, Typed, StoredAt
<1>3. handle[p] # "part" => part' = part
  BY DEF Receive
<1>4. handle[p] = "target" => target' = [target EXCEPT ![a] = Overwritten(p, target[a])]
  BY <1>1 DEF Receive, Typed, StoredAt
<1>5. handle[p] # "target" => target' = target
  BY DEF Receive
<1>6. handle[p] = "part" =>
        part[a] \in FileAt(alterations) /\ Overwritten(p, part[a]) \in FileAt(alterations)
  BY <1>1, OverwrittenTyped DEF Core, OpenExists, Typed, StoredAt
<1>7. handle[p] = "target" => Overwritten(p, target[a]) \in FileAt(alterations)
  BY <1>1, OverwrittenTyped DEF Core, OpenExists, Typed, StoredAt
<1>8. \A q \in Syncs : clean[q] => q = p
  BY <1>1 DEF Core, CleanIsAlone, Active
<1>9. CleanIsAlone' /\ OpenWhileReceiving' /\ TrustedClosed'
  BY <1>1 DEF Core, CleanIsAlone, OpenWhileReceiving, TrustedClosed, Active
<1>10. OpenExists'
  <2>1. \A b \in Items : part[b] # Absent => part'[b] # Absent
    BY <1>1, <1>2, <1>3, <1>6, Existing DEF Typed, StoredAt
  <2>2. \A b \in Items : target[b] # Absent => target'[b] # Absent
    BY <1>1, <1>4, <1>5, <1>7, Existing DEF Typed, StoredAt
  <2> QED
    BY <1>1, <2>1, <2>2 DEF Core, OpenExists, Typed
<1>11. clean[p] => handle[p] = "part" /\ \A k \in 1 .. received[p] : part[a][k] = source[p]
  BY <1>1 DEF Core, CleanPart
<1>12. CleanPart'
  <2> SUFFICES ASSUME clean[p]
               PROVE  /\ handle[p] = "part" /\ part'[a] # Absent
                      /\ \A k \in 1 .. received'[p] : part'[a][k] = source[p]
    BY <1>1, <1>8 DEF CleanPart
  <2>1. part'[a] = Overwritten(p, part[a]) /\ part'[a] # Absent
    BY <1>1, <1>2, <1>6, <1>11, Existing DEF Typed, StoredAt
  <2>2. received'[p] = received[p] + 1 /\ received[p] \in Nat /\ received[p] + 1 \in 1 .. Chunks
    BY <1>1, BoundsAssumption DEF Typed
  <2>3. ASSUME NEW k \in 1 .. received'[p] PROVE part'[a][k] = source[p]
    <3>1. /\ received[p] + 1 \in 1 .. Chunks
          /\ part[a] \in FileAt(alterations) /\ k \in 1 .. received[p] + 1
      BY <1>6, <1>11, <2>2, <2>3
    <3>2. part'[a][k] = IF k = received[p] + 1 THEN source[p] ELSE part[a][k]
      BY <2>1, <2>2, <3>1, BoundsAssumption DEF Overwritten, FileAt
    <3>3. k # received[p] + 1 => k \in 1 .. received[p]
      BY <2>2, <3>1
    <3> QED
      BY <1>11, <3>2, <3>3
  <2> QED
    BY <1>11, <2>1, <2>3
<1>13. CleanWhole'
  BY <1>1, <1>8 DEF CleanWhole
<1>14. TrustedWhole'
  BY <1>1, <1>4, <1>5 DEF Core, TrustedWhole, TrustedClosed, Typed, StoredAt
<1>15. CleanWanted'
  BY <1>1, <1>5, <1>8, <1>11 DEF Core, CleanWanted
<1> QED
  BY <1>9, <1>10, <1>12, <1>13, <1>14, <1>15 DEF Core

LEMMA CoreEndOfBody ==
    ASSUME Typed, Core, NEW p \in Syncs, EndOfBody(p)
    PROVE  Core'
<1>1. /\ step[p] = "receive" /\ step' = [step EXCEPT ![p] = "rename"]
      /\ handle' = [handle EXCEPT ![p] = "closed"]
      /\ UNCHANGED <<target, part, source, received, item, force, trusted>>
  BY DEF EndOfBody, files
<1>2. \A q \in Syncs : clean'[q] => clean[q] /\ (q = p => received[p] = Chunks)
  BY DEF EndOfBody, Typed
<1>3. \A q \in Syncs : clean[q] => q = p
  BY <1>1 DEF Core, CleanIsAlone, Active
<1>4. CleanIsAlone'
  BY <1>1, <1>2, <1>3 DEF Core, CleanIsAlone, Active, Typed
<1>5. OpenWhileReceiving' /\ OpenExists' /\ TrustedClosed' /\ TrustedWhole'
  BY <1>1 DEF Core, OpenWhileReceiving, OpenExists, TrustedClosed, TrustedWhole, Typed
<1>6. CleanPart' /\ CleanWanted'
  BY <1>1, <1>2, <1>3 DEF Core, CleanPart, CleanWanted, Typed
<1>7. CleanWhole'
  <2> SUFFICES ASSUME clean'[p]
               PROVE  part[item[p]] # Absent /\ \A k \in 1 .. Chunks : part[item[p]][k] = source[p]
    BY <1>1, <1>2, <1>3 DEF CleanWhole
  <2> QED
    BY <1>1, <1>2 DEF Core, CleanPart
<1> QED
  BY <1>4, <1>5, <1>6, <1>7 DEF Core

LEMMA CoreReturn ==
    ASSUME Typed, Core, NEW p \in Syncs, Active(p), Return(p), UNCHANGED <<target, part, trusted>>
    PROVE  Core'
<1>1. /\ step' = [step EXCEPT ![p] = "idle"] /\ force' = [force EXCEPT ![p] = FALSE]
      /\ item' = [item EXCEPT ![p] = 1] /\ source' = [source EXCEPT ![p] = 1]
      /\ received' = [received EXCEPT ![p] = 0] /\ handle' = [handle EXCEPT ![p] = "closed"]
      /\ clean' = [clean EXCEPT ![p] = FALSE]
  BY DEF Return
<1>2. \A q \in Syncs : ~ clean'[q]
  BY <1>1 DEF Core, CleanIsAlone, Typed
<1>3. CleanIsAlone' /\ CleanPart' /\ CleanWhole' /\ CleanWanted'
  BY <1>2 DEF CleanIsAlone, CleanPart, CleanWhole, CleanWanted
<1>4. OpenWhileReceiving' /\ OpenExists' /\ TrustedClosed' /\ TrustedWhole'
  BY <1>1 DEF Core, OpenWhileReceiving, OpenExists, TrustedClosed, TrustedWhole, Typed
<1> QED
  BY <1>3, <1>4 DEF Core

LEMMA CoreRename ==
    ASSUME Typed, Core, NEW p \in Syncs, Rename(p)
    PROVE  Core'
<1> DEFINE a == item[p]
<1>1. /\ step[p] = "rename" /\ part[a] # Absent
      /\ target' = [target EXCEPT ![a] = part[a]]
      /\ part' = [part EXCEPT ![a] = Absent]
      /\ step' = [step EXCEPT ![p] = "digest"]
      /\ trusted' = IF clean[p] THEN trusted \cup {a} ELSE trusted \ {a}
      /\ UNCHANGED <<source, received, item, force, clean>>
      /\ a \in Items
  BY DEF Rename, Typed
<1>2. ASSUME NEW q \in Syncs
      PROVE  /\ item[q] # a => handle'[q] = handle[q]
             /\ item[q] = a /\ handle[q] = "part" => handle'[q] = "target"
             /\ item[q] = a /\ handle[q] = "target" => handle'[q] = "gone"
             /\ item[q] = a /\ handle[q] \notin {"part", "target"} => handle'[q] = handle[q]
  BY <1>2 DEF Rename
<1>3. \A q \in Syncs : clean[q] => q = p
  BY <1>1 DEF Core, CleanIsAlone, Active
<1>4. \A q \in Syncs : handle'[q] # "closed" => handle[q] # "closed" /\ step'[q] = "receive"
  BY <1>1, <1>2 DEF Core, OpenWhileReceiving, Typed
<1>5. CleanIsAlone' /\ OpenWhileReceiving' /\ CleanPart' /\ CleanWhole' /\ CleanWanted'
  BY <1>1, <1>3, <1>4 DEF Core, CleanIsAlone, OpenWhileReceiving, CleanPart, CleanWhole,
                          CleanWanted, Active, Typed
<1>6. OpenExists'
  <2> SUFFICES ASSUME NEW q \in Syncs
               PROVE  /\ handle'[q] = "part" => part'[item[q]] # Absent
                      /\ handle'[q] = "target" => target'[item[q]] # Absent
    BY <1>1 DEF OpenExists
  <2>1. item[q] \in Items
    BY DEF Typed
  <2> QED
    BY <1>1, <1>2, <2>1 DEF Core, OpenExists, Typed, StoredAt
<1>7. TrustedClosed'
  <2> SUFFICES ASSUME NEW q \in Syncs, handle'[q] = "target" PROVE item[q] \notin trusted'
    BY <1>1 DEF TrustedClosed
  <2>1. CASE item[q] # a
    BY <1>1, <1>2, <2>1 DEF Core, TrustedClosed
  <2>2. CASE item[q] = a
    <3>1. step[q] = "receive" /\ q # p
      BY <1>1, <1>2, <2>2 DEF Core, OpenWhileReceiving
    <3>2. ~ clean[p]
      BY <3>1 DEF Core, CleanIsAlone, Active
    <3> QED
      BY <1>1, <2>2, <3>2
  <2> QED
    BY <2>1, <2>2
<1>8. TrustedWhole'
  <2> SUFFICES ASSUME NEW b \in trusted' PROVE Whole(target'[b])
    BY DEF TrustedWhole, Whole
  <2>1. CASE b # a
    BY <1>1, <2>1 DEF Core, TrustedWhole, Typed, StoredAt
  <2>2. CASE b = a
    <3>1. clean[p]
      BY <1>1, <2>2
    <3>2. target'[a] \in FileAt(alterations)
      BY <1>1 DEF Typed, StoredAt
    <3>3. target'[a] = [k \in 1 .. Chunks |-> source[p]]
      BY <1>1, <3>1, <3>2 DEF Core, CleanWhole, FileAt, Typed, StoredAt
    <3>4. source[p] \in 1 .. MaxVersion
      BY DEF Typed
    <3> QED
      BY <2>2, <3>3, <3>4 DEF Whole
  <2> QED
    BY <2>1, <2>2
<1> QED
  BY <1>5, <1>6, <1>7, <1>8 DEF Core

LEMMA CoreDigest ==
    ASSUME Typed, Core, NEW p \in Syncs, Digest(p) \/ OpenManifest(p)
    PROVE  Core'
<1>1. /\ step[p] \in {"digest", "open"}
      /\ \E next \in {"check", "open", "write"} : step' = [step EXCEPT ![p] = next]
      /\ \A q \in Syncs \ {p} : item'[q] = item[q]
      /\ UNCHANGED <<target, part, source, received, handle, trusted, clean, force>>
  BY DEF Digest, OpenManifest, files, history, Typed
<1>2. \A q \in Syncs : handle[q] # "closed" => step'[q] = "receive" /\ item'[q] = item[q]
  BY <1>1 DEF Core, OpenWhileReceiving, Typed
<1>3. ASSUME NEW q \in Syncs, clean[q]
      PROVE  /\ \A r \in Syncs \ {q} : step'[r] = "idle"
             /\ step'[q] \in {"check", "open", "write"}
  BY <1>1, <1>3 DEF Core, CleanIsAlone, Active, Typed
<1> QED
  BY <1>1, <1>2, <1>3, CoreAtRest

LEMMA CoreAlter ==
    ASSUME Typed, Core, NEW a \in Items, Alter(a), Typed'
    PROVE  Core'
<1>1. /\ Filled(target[a])
      /\ target' = [target EXCEPT ![a] = [@ EXCEPT ![Chunks] = Altered(alterations')]]
      /\ trusted' = trusted \ {a}
      /\ UNCHANGED <<part, step, source, received, item, handle, force, clean>>
  BY DEF Alter, syncing
<1>2. CleanIsAlone' /\ OpenWhileReceiving' /\ CleanPart' /\ CleanWhole' /\ TrustedClosed'
  BY <1>1 DEF Core, CleanIsAlone, OpenWhileReceiving, CleanPart, CleanWhole, TrustedClosed, Active
<1>3. \A b \in Items : b # a => target'[b] = target[b]
  BY <1>1 DEF Typed, StoredAt
<1>4. target[a] # Absent /\ target'[a] # Absent
  <2>1. target[a] \in FileAt(alterations) /\ target'[a] = [target[a] EXCEPT ![Chunks] = Altered(alterations')]
    BY <1>1 DEF Filled, Typed, StoredAt
  <2>2. target'[a] \in FileAt(alterations')
    <3>1. alterations' \in 0 .. MaxAltered /\ alterations' = alterations + 1 /\ alterations \in Nat
      BY BoundsAssumption DEF Alter, Typed
    <3>2. Altered(alterations') \in None .. Altered(alterations')
      BY <3>1, BoundsAssumption DEF None, Altered
    <3>3. target[a] \in FileAt(alterations')
      BY <2>1, <3>1, MoreFiles
    <3> QED
      BY <2>1, <3>2, <3>3 DEF FileAt
  <2>3. FileAt(alterations') \subseteq File
    BY BoundsAssumption DEF Typed, FileAt, File, None, Altered
  <2> QED
    BY <1>1, <2>2, <2>3, AbsentAssumption DEF Filled
<1>5. OpenExists'
  BY <1>1, <1>3, <1>4 DEF Core, OpenExists, Typed
<1>6. TrustedWhole'
  BY <1>1, <1>3 DEF Core, TrustedWhole, Typed
<1>7. CleanWanted'
  BY <1>1, <1>3 DEF Core, CleanWanted, Typed
<1> QED
  BY <1>2, <1>5, <1>6, <1>7 DEF Core

LEMMA CoreStep == Typed /\ Typed' /\ Core /\ [Next]_vars => Core'
<1> SUFFICES ASSUME Typed, Typed', Core, [Next]_vars PROVE Core'
  OBVIOUS
<1>1. ASSUME NEW p \in Syncs, Leave(p), Active(p) PROVE Core'
  BY <1>1, CoreReturn DEF Leave, files
<1>2. ASSUME NEW p \in Syncs, RequestFails(p) \/ ReceiveFails(p) \/ RenameFails(p) \/ Kill(p)
      PROVE  Core'
  BY <1>1, <1>2 DEF RequestFails, ReceiveFails, RenameFails, Kill, Active
<1>3. ASSUME NEW p \in Syncs, WriteManifest(p) PROVE Core'
  BY <1>3, CoreReturn DEF WriteManifest, Active
<1>4. CASE UNCHANGED <<target, part, syncing, clean, trusted>>
  BY <1>4 DEF Core, CleanIsAlone, OpenWhileReceiving, OpenExists, CleanPart, CleanWhole,
              TrustedClosed, TrustedWhole, CleanWanted, Active, Filled, syncing
<1>5. CASE ReadManifest \/ Inspect \/ Publish \/ UNCHANGED vars
  BY <1>4, <1>5 DEF ReadManifest, Inspect, Publish, files, history, vars
<1> QED
  BY <1>2, <1>3, <1>5, CoreBegin, CoreCheck, CoreRequest, CoreReceive, CoreEndOfBody,
     CoreRename, CoreDigest, CoreAlter DEF Next

-----------------------------------------------------------------------------
\* In every state the variables have their types, and what a clean sync has written,
\* put in place or has yet to download is as sync_artifacts means it (external.py:90-123).
THEOREM CacheInvariant == Spec => [](Typed /\ Core)
<1>1. Typed /\ Core /\ [Next]_vars => (Typed /\ Core)'
  BY TypedStep, CoreStep
<1> QED
  BY <1>1, InitTyped, InitCore, PTL DEF Spec

\* A file that a sync put in place while it was alone is one version of the publisher's
\* file from end to end for as long as nothing outside the program changes it (external.py:106-110).
THEOREM TrustedStaysWhole == Spec => []TrustedWhole
<1>1. Core => TrustedWhole
  BY DEF Core
<1> QED
  BY <1>1, CacheInvariant, PTL

\* A sync that was not told to force, and is alone, leaves every file that has content
\* as it is (external.py:99).
THEOREM ValidFilesKept == Spec => UnforcedKeeps
<1> DEFINE Changed(a) == Filled(target[a]) /\ target'[a] # target[a]
           Excused == \/ \E p \in Syncs : Active(p) /\ (force[p] \/ ~ clean[p])
                      \/ alterations' # alterations
<1>1. ASSUME Typed, Core, [Next]_vars, NEW a \in Items, Changed(a) PROVE Excused
  <2>1. ASSUME NEW p \in Syncs, Receive(p) PROVE Excused
    <3>1. handle[p] = "target"
      BY <1>1, <2>1 DEF Receive
    <3>2. ~ clean[p]
      BY <1>1, <2>1, <3>1 DEF Receive, Core, CleanPart
    <3> QED
      BY <2>1, <3>2 DEF Receive, Active
  <2>2. ASSUME NEW p \in Syncs, Rename(p) PROVE Excused
    <3>1. item[p] = a /\ step[p] = "rename"
      BY <1>1, <2>2 DEF Rename, Typed, StoredAt
    <3>2. ~ (clean[p] /\ ~ force[p])
      BY <1>1, <3>1 DEF Core, CleanWanted
    <3> QED
      BY <3>1, <3>2 DEF Active
  <2>3. ASSUME NEW b \in Items, Alter(b) PROVE Excused
    BY <1>1, <2>3, BoundsAssumption DEF Alter, Typed
  <2>4. ASSUME NEW p \in Syncs,
               \/ \E forced \in BOOLEAN : Begin(p, forced)
               \/ Keep(p) \/ Need(p) \/ Request(p) \/ EndOfBody(p) \/ RequestFails(p)
               \/ ReceiveFails(p) \/ RenameFails(p) \/ Digest(p) \/ OpenManifest(p)
               \/ WriteManifest(p) \/ Kill(p)
        PROVE  FALSE
    BY <1>1, <2>4 DEF Begin, Keep, Need, Request, EndOfBody, RequestFails, ReceiveFails,
                      RenameFails, Digest, OpenManifest, WriteManifest, Kill, Leave, files
  <2>5. ~ (ReadManifest \/ Inspect \/ Publish \/ UNCHANGED vars)
    BY <1>1 DEF ReadManifest, Inspect, Publish, vars, files
  <2> QED
    BY <1>1, <2>1, <2>2, <2>3, <2>4, <2>5 DEF Next
<1>2. Typed /\ Core /\ [Next]_vars =>
        [\A a \in Items : Filled(target[a]) /\ target'[a] # target[a] =>
            \/ \E p \in Syncs : Active(p) /\ (force[p] \/ ~ clean[p])
            \/ alterations' # alterations]_vars
  BY <1>1
<1> QED
  BY <1>2, CacheInvariant, PTL DEF Spec, UnforcedKeeps

-----------------------------------------------------------------------------
(* What artifact_status answers *)

\* What an alteration left is recorded nowhere.
AlteredUnseen ==
    \A a \in altered :
        /\ Filled(target[a]) /\ target[a] # manifest[a] /\ target[a] # expected[a]
        /\ \A p \in Syncs : target[a] # records[p][a]

StartsAtFirst == \A p \in Syncs : ~ Active(p) => item[p] = 1

\* A clean sync has a file and its digest for every artifact it is done with.
CleanRecords ==
    \A p \in Syncs, a \in Items :
        clean[p] /\ (a < item[p] \/ step[p] \in {"open", "write"}) =>
            Filled(target[a]) /\ (a \in altered \/ records[p][a] = target[a])

CleanTarget == \A p \in Syncs : clean[p] /\ step[p] = "digest" => Filled(target[item[p]])

ManifestOpened == \A p \in Syncs : clean[p] /\ step[p] = "write" => manifest = NoDigests

SettledRecorded ==
    settled =>
        /\ \A p \in Syncs : ~ Active(p)
        /\ \A a \in Items : Filled(target[a]) /\ manifest[a] = target[a]

CalmIsSettled == calm => settled /\ expected = manifest

Recorded ==
    /\ AlteredUnseen /\ StartsAtFirst /\ CleanRecords /\ CleanTarget /\ ManifestOpened
    /\ SettledRecorded /\ CalmIsSettled

LEMMA InitRecorded == Init => Recorded
<1> SUFFICES ASSUME Init PROVE Recorded
  OBVIOUS
<1>1. AlteredUnseen /\ StartsAtFirst /\ SettledRecorded /\ CalmIsSettled
  BY DEF Init, AlteredUnseen, StartsAtFirst, SettledRecorded, CalmIsSettled, Active
<1>2. CleanRecords /\ CleanTarget /\ ManifestOpened
  BY DEF Init, CleanRecords, CleanTarget, ManifestOpened
<1> QED
  BY <1>1, <1>2 DEF Recorded

\* An altered file still has content, and content that no one has recorded.
LEMMA AlterIsNew ==
    ASSUME Typed, NEW a \in Items, Alter(a)
    PROVE  /\ \A b \in Items : b # a => target'[b] = target[b]
           /\ Filled(target'[a]) /\ target'[a] \notin FileAt(alterations) \cup {Absent}
<1>1. /\ alterations' = alterations + 1 /\ alterations \in Nat /\ alterations + 1 <= MaxAltered
      /\ Chunks \in 1 .. Chunks
  BY BoundsAssumption DEF Alter, Typed
<1>2. /\ target[a] \in FileAt(alterations)
      /\ target' = [target EXCEPT ![a] = [target[a] EXCEPT ![Chunks] = Altered(alterations')]]
  BY DEF Alter, Filled, Typed, StoredAt
<1>3. target'[a] = [target[a] EXCEPT ![Chunks] = Altered(alterations')]
      /\ \A b \in Items : b # a => target'[b] = target[b]
  BY <1>2 DEF Typed, StoredAt
<1>4. target'[a][Chunks] = Altered(alterations')
  BY <1>1, <1>2, <1>3 DEF FileAt
<1>5. Altered(alterations') \notin None .. Altered(alterations) /\ Altered(alterations') # None
      /\ Altered(alterations') \in None .. Altered(MaxAltered)
  BY <1>1, BoundsAssumption DEF None, Altered
<1>6. target'[a] \notin FileAt(alterations)
  BY <1>1, <1>4, <1>5 DEF FileAt
<1>7. target'[a] # Empty
  BY <1>1, <1>4, <1>5 DEF Empty
<1>8. target'[a] # Absent
  <2>1. target[a] \in File
    BY <1>1, <1>2, BoundsAssumption DEF FileAt, File, None, Altered
  <2>2. target'[a] \in File
    BY <1>3, <1>5, <2>1 DEF File
  <2> QED
    BY <2>2, AbsentAssumption
<1> QED
  BY <1>3, <1>6, <1>7, <1>8 DEF Filled

\* The steps that touch no target, no digest and no history but "clean".
LEMMA RecordedAtRest ==
    ASSUME Typed, Core, Recorded, NEW p \in Syncs,
           \/ \E forced \in BOOLEAN : Begin(p, forced)
           \/ Keep(p) \/ Need(p) \/ Request(p) \/ EndOfBody(p)
    PROVE  Recorded'
<1>1. /\ UNCHANGED <<target, manifest, expected, altered, records, item>>
      /\ \A q \in Syncs \ {p} : step'[q] = step[q]
      /\ step[p] \in {"idle", "check", "request", "receive"}
      /\ step'[p] \in {"check", "digest", "request", "receive", "rename"}
      /\ step'[p] = "digest" => step[p] = "check" /\ Filled(target[item[p]])
  BY DEF Begin, Keep, Need, Request, EndOfBody, Active, files, reading, history, Typed, Wanted
<1>2. \A q \in Syncs : clean'[q] => clean[q] \/ (q = p /\ step[p] = "idle")
  <2>1. ASSUME NEW forced \in BOOLEAN, Begin(p, forced), NEW q \in Syncs, clean'[q]
        PROVE  q = p /\ step[p] = "idle"
    BY <2>1 DEF Begin, Active
  <2>2. ASSUME EndOfBody(p), NEW q \in Syncs, clean'[q] PROVE clean[q]
    BY <2>2 DEF EndOfBody, Typed
  <2>3. Keep(p) \/ Need(p) \/ Request(p) => clean' = clean
    BY DEF Keep, Need, Request, history
  <2> QED
    BY <2>1, <2>2, <2>3
<1>3. (settled' => settled /\ step[p] # "idle") /\ (calm' => calm /\ step[p] # "idle")
  BY DEF Begin, Keep, Need, Request, EndOfBody, Active, history
<1>4. \A q \in Syncs : clean[q] /\ q # p => step[p] = "idle"
  BY DEF Core, CleanIsAlone, Active
<1>5. AlteredUnseen'
  BY <1>1 DEF Recorded, AlteredUnseen, Filled
<1>6. StartsAtFirst'
  BY <1>1 DEF Recorded, StartsAtFirst, Active
<1>7. CleanRecords'
  <2> SUFFICES ASSUME NEW q \in Syncs, NEW a \in Items, clean'[q],
                      a < item[q] \/ step'[q] \in {"open", "write"}
               PROVE  Filled(target[a]) /\ (a \in altered \/ records[q][a] = target[a])
    BY <1>1 DEF CleanRecords, Filled
  <2>1. CASE clean[q]
    BY <1>1, <2>1 DEF Recorded, CleanRecords
  <2>2. CASE q = p /\ step[p] = "idle"
    BY <1>1, <2>2, BoundsAssumption DEF Recorded, StartsAtFirst, Active, Items
  <2> QED
    BY <1>2, <2>1, <2>2
<1>8. CleanTarget' /\ ManifestOpened'
  BY <1>1, <1>2 DEF Recorded, CleanTarget, ManifestOpened, Filled
<1>9. SettledRecorded' /\ CalmIsSettled'
  BY <1>1, <1>3 DEF Recorded, SettledRecorded, CalmIsSettled, Active, Filled
<1> QED
  BY <1>5, <1>6, <1>7, <1>8, <1>9 DEF Recorded

\* Nothing is clean after the only clean sync has returned.
LEMMA RecordedReturn ==
    ASSUME Typed, Core, Recorded, NEW p \in Syncs, Active(p), Return(p),
           UNCHANGED <<target, altered, expected>>
    PROVE  /\ \A q \in Syncs : ~ clean'[q]
           /\ \A q \in Syncs : records'[q] \in {records[q], NoDigests}
           /\ StartsAtFirst' /\ CleanRecords' /\ CleanTarget' /\ ManifestOpened'
<1>1. /\ step' = [step EXCEPT ![p] = "idle"] /\ item' = [item EXCEPT ![p] = 1]
      /\ records' = [records EXCEPT ![p] = NoDigests] /\ clean' = [clean EXCEPT ![p] = FALSE]
  BY DEF Return
<1>2. \A q \in Syncs : ~ clean'[q]
  BY <1>1 DEF Core, CleanIsAlone, Typed
<1>3. StartsAtFirst'
  BY <1>1 DEF Recorded, StartsAtFirst, Active, Typed
<1>4. \A q \in Syncs : records'[q] \in {records[q], NoDigests}
  BY <1>1 DEF Typed
<1> QED
  BY <1>2, <1>3, <1>4 DEF CleanRecords, CleanTarget, ManifestOpened

LEMMA RecordedLeave ==
    ASSUME Typed, Core, Recorded, NEW p \in Syncs, Active(p), Leave(p)
    PROVE  Recorded'
<1>1. Return(p) /\ UNCHANGED <<target, manifest, expected, altered, settled, calm>>
  BY DEF Leave, files, reading
<1>2. AlteredUnseen'
  BY <1>1, RecordedReturn DEF Recorded, AlteredUnseen, Filled, NoDigests, Typed
<1>3. SettledRecorded' /\ CalmIsSettled'
  BY <1>1 DEF Recorded, SettledRecorded, CalmIsSettled, Active
<1> QED
  BY <1>1, <1>2, <1>3, RecordedReturn DEF Recorded

LEMMA RecordedWrite ==
    ASSUME Typed, Core, Recorded, NEW p \in Syncs, WriteManifest(p)
    PROVE  Recorded'
<1>1. /\ Active(p) /\ Return(p) /\ step[p] = "write"
      /\ UNCHANGED <<target, altered, expected, calm>>
      /\ manifest' \in {records[p], NoDigests}
      /\ manifest = NoDigests => manifest' = records[p]
      /\ settled' = (clean[p] /\ altered = {})
  BY DEF WriteManifest, Active, reading
<1>2. AlteredUnseen'
  BY <1>1, RecordedReturn DEF Recorded, AlteredUnseen, Filled, NoDigests, Typed
<1>3. SettledRecorded'
  <2> SUFFICES ASSUME clean[p], altered = {}
               PROVE  /\ \A q \in Syncs : ~ Active(q)'
                      /\ \A a \in Items : Filled(target[a]) /\ manifest'[a] = target[a]
    BY <1>1 DEF SettledRecorded, Filled
  <2>1. manifest' = records[p]
    BY <1>1 DEF Recorded, ManifestOpened
  <2>2. \A q \in Syncs : ~ Active(q)'
    BY <1>1 DEF Return, Core, CleanIsAlone, Active, Typed
  <2> QED
    BY <1>1, <2>1, <2>2 DEF Recorded, CleanRecords
<1>4. ~ calm
  BY <1>1 DEF Recorded, CalmIsSettled, SettledRecorded
<1> QED
  BY <1>1, <1>2, <1>3, <1>4, RecordedReturn DEF Recorded, CalmIsSettled

LEMMA RecordedReceive ==
    ASSUME Typed, Core, Recorded, NEW p \in Syncs, Receive(p)
    PROVE  Recorded'
<1>1. /\ UNCHANGED <<manifest, expected, records, item, step, clean, settled, calm>>
      /\ step[p] = "receive"
      /\ altered' \subseteq altered
      /\ target' # target => handle[p] = "target" /\ altered' = altered \ {item[p]}
      /\ \A a \in Items : a # item[p] => target'[a] = target[a]
  BY DEF Receive, reading, Typed, StoredAt
<1>2. AlteredUnseen'
  BY <1>1 DEF Recorded, AlteredUnseen, Filled, Typed
<1>3. \A q \in Syncs : clean[q] => target' = target /\ altered' = altered
  BY <1>1 DEF Receive, Core, CleanIsAlone, CleanPart, Active
<1>4. StartsAtFirst' /\ CleanRecords' /\ CleanTarget' /\ ManifestOpened'
  BY <1>1, <1>3 DEF Recorded, StartsAtFirst, CleanRecords, CleanTarget, ManifestOpened, Active, Filled
<1>5. ~ settled
  BY <1>1 DEF Recorded, SettledRecorded, Active
<1>6. SettledRecorded' /\ CalmIsSettled'
  BY <1>1, <1>5 DEF Recorded, SettledRecorded, CalmIsSettled
<1> QED
  BY <1>2, <1>4, <1>6 DEF Recorded

LEMMA RecordedRename ==
    ASSUME Typed, Core, Recorded, NEW p \in Syncs, Rename(p)
    PROVE  Recorded'
<1> DEFINE a == item[p]
<1>1. /\ UNCHANGED <<manifest, expected, records, item, clean, settled, calm>>
      /\ step[p] = "rename" /\ step' = [step EXCEPT ![p] = "digest"]
      /\ altered' = altered \ {a} /\ a \in Items
      /\ target'[a] = part[a]
      /\ \A b \in Items : b # a => target'[b] = target[b]
  BY DEF Rename, reading, Typed, StoredAt
<1>2. AlteredUnseen'
  BY <1>1 DEF Recorded, AlteredUnseen, Filled, Typed
<1>3. \A q \in Syncs : clean[q] => q = p
  BY <1>1 DEF Core, CleanIsAlone, Active
<1>4. StartsAtFirst' /\ ManifestOpened'
  BY <1>1, <1>3 DEF Recorded, StartsAtFirst, ManifestOpened, Active, Typed
<1>5. CleanRecords'
  BY <1>1, <1>3 DEF Recorded, CleanRecords, Filled, Typed, Items
<1>6. CleanTarget'
  <2> SUFFICES ASSUME clean[p] PROVE Filled(part[a])
    BY <1>1, <1>3 DEF CleanTarget, Filled
  <2>1. part[a] # Absent /\ \A k \in 1 .. Chunks : part[a][k] = source[p]
    BY <1>1 DEF Core, CleanWhole
  <2>2. 1 \in 1 .. Chunks /\ source[p] # None
    BY BoundsAssumption DEF Typed, None
  <2> QED
    BY <2>1, <2>2 DEF Filled, Empty
<1>7. ~ settled
  BY <1>1 DEF Recorded, SettledRecorded, Active
<1>8. SettledRecorded' /\ CalmIsSettled'
  BY <1>1, <1>7 DEF Recorded, SettledRecorded, CalmIsSettled
<1> QED
  BY <1>2, <1>4, <1>5, <1>6, <1>8 DEF Recorded

LEMMA RecordedDigest ==
    ASSUME Typed, Core, Recorded, NEW p \in Syncs, Digest(p)
    PROVE  Recorded'
<1> DEFINE a == item[p]
<1>1. /\ UNCHANGED <<target, manifest, expected, clean, settled, calm>>
      /\ step[p] = "digest" /\ a \in Items /\ altered' = altered \ {a}
      /\ \A q \in Syncs \ {p} :
            records'[q] = records[q] /\ item'[q] = item[q] /\ step'[q] = step[q]
      /\ records'[p][a] = target[a] /\ \A b \in Items \ {a} : records'[p][b] = records[p][b]
      /\ item'[p] = IF a < Artifacts THEN a + 1 ELSE a
      /\ step'[p] = IF a < Artifacts THEN "check" ELSE "open"
  BY DEF Digest, files, reading, Typed, StoredAt
<1>2. AlteredUnseen'
  <2> SUFFICES ASSUME NEW b \in altered \ {a}
               PROVE  /\ Filled(target[b]) /\ target[b] # manifest[b] /\ target[b] # expected[b]
                      /\ \A q \in Syncs : target[b] # records'[q][b]
    BY <1>1 DEF AlteredUnseen, Filled
  <2>1. b \in Items \ {a}
    BY DEF Typed
  <2>2. \A q \in Syncs : records'[q][b] = records[q][b]
    BY <1>1, <2>1
  <2> QED
    BY <2>2 DEF Recorded, AlteredUnseen
<1>3. \A q \in Syncs : clean[q] => q = p
  BY <1>1 DEF Core, CleanIsAlone, Active
<1>4. StartsAtFirst' /\ ManifestOpened' /\ CleanTarget'
  BY <1>1, <1>3 DEF Recorded, StartsAtFirst, ManifestOpened, CleanTarget, Active
<1>5. CleanRecords'
  <2> SUFFICES ASSUME NEW b \in Items, clean[p], b < item'[p] \/ step'[p] \in {"open", "write"}
               PROVE  Filled(target[b]) /\ (b \in altered \ {a} \/ records'[p][b] = target[b])
    BY <1>1, <1>3 DEF CleanRecords, Filled
  <2>1. CASE b = a
    BY <1>1, <2>1 DEF Recorded, CleanTarget
  <2>2. CASE b # a
    <3>1. b < a
      BY <1>1, <2>2, BoundsAssumption DEF Items
    <3> QED
      BY <1>1, <2>2, <3>1 DEF Recorded, CleanRecords
  <2> QED
    BY <2>1, <2>2
<1>6. ~ settled
  BY <1>1 DEF Recorded, SettledRecorded, Active
<1>7. SettledRecorded' /\ CalmIsSettled'
  BY <1>1, <1>6 DEF Recorded, SettledRecorded, CalmIsSettled
<1> QED
  BY <1>2, <1>4, <1>5, <1>7 DEF Recorded

LEMMA RecordedOpen ==
    ASSUME Typed, Core, Recorded, NEW p \in Syncs, OpenManifest(p)
    PROVE  Recorded'
<1>1. /\ UNCHANGED <<target, altered, expected, records, item, clean, settled, calm>>
      /\ step[p] = "open" /\ step' = [step EXCEPT ![p] = "write"] /\ manifest' = NoDigests
  BY DEF OpenManifest, reading, history
<1>2. AlteredUnseen'
  BY <1>1 DEF Recorded, AlteredUnseen, Filled, NoDigests, Typed
<1>3. StartsAtFirst' /\ CleanRecords' /\ CleanTarget' /\ ManifestOpened'
  BY <1>1 DEF Recorded, StartsAtFirst, CleanRecords, CleanTarget, ManifestOpened, Active, Filled, Typed
<1>4. ~ settled
  BY <1>1 DEF Recorded, SettledRecorded, Active
<1>5. SettledRecorded' /\ CalmIsSettled'
  BY <1>1, <1>4 DEF Recorded, SettledRecorded, CalmIsSettled
<1> QED
  BY <1>2, <1>3, <1>5 DEF Recorded

LEMMA RecordedReader ==
    ASSUME Typed, Recorded, ReadManifest \/ Inspect \/ Publish \/ UNCHANGED vars
    PROVE  Recorded'
<1>1. /\ UNCHANGED <<target, manifest, altered, records, item, step, clean, settled>>
      /\ expected' \in {expected, manifest, NoDigests}
      /\ calm' => (calm /\ expected' = expected) \/ (settled /\ expected' = manifest)
  BY DEF ReadManifest, Inspect, Publish, vars, files, syncing, reading, history
<1>2. AlteredUnseen'
  BY <1>1 DEF Recorded, AlteredUnseen, Filled, NoDigests, Typed
<1>3. StartsAtFirst' /\ CleanRecords' /\ CleanTarget' /\ ManifestOpened'
  BY <1>1 DEF Recorded, StartsAtFirst, CleanRecords, CleanTarget, ManifestOpened, Active, Filled
<1>4. SettledRecorded' /\ CalmIsSettled'
  BY <1>1 DEF Recorded, SettledRecorded, CalmIsSettled, Active, Filled
<1> QED
  BY <1>2, <1>3, <1>4 DEF Recorded

LEMMA RecordedAlter ==
    ASSUME Typed, Recorded, NEW a \in Items, Alter(a)
    PROVE  Recorded'
<1>1. /\ UNCHANGED <<manifest, expected, records, item, step, clean>>
      /\ altered' = altered \cup {a} /\ ~ settled' /\ ~ calm'
  BY DEF Alter, syncing, reading
<1>2. /\ \A b \in Items : b # a => target'[b] = target[b]
      /\ Filled(target'[a]) /\ target'[a] \notin FileAt(alterations) \cup {Absent}
  BY AlterIsNew
<1>3. AlteredUnseen'
  <2>1. /\ manifest[a] \in FileAt(alterations) \cup {Absent}
        /\ expected[a] \in FileAt(alterations) \cup {Absent}
        /\ \A p \in Syncs : records[p][a] \in FileAt(alterations) \cup {Absent}
    BY DEF Typed, StoredAt
  <2> QED
    BY <1>1, <1>2, <2>1 DEF Recorded, AlteredUnseen, Filled, Typed
<1>4. StartsAtFirst' /\ ManifestOpened'
  BY <1>1 DEF Recorded, StartsAtFirst, ManifestOpened, Active
<1>5. CleanRecords' /\ CleanTarget'
  BY <1>1, <1>2 DEF Recorded, CleanRecords, CleanTarget, Filled, Typed
<1> QED
  BY <1>1, <1>3, <1>4, <1>5 DEF Recorded, SettledRecorded, CalmIsSettled

LEMMA RecordedStep == Typed /\ Core /\ Recorded /\ [Next]_vars => Recorded'
<1>1. ASSUME Typed, Core, Recorded, NEW p \in Syncs,
             RequestFails(p) \/ ReceiveFails(p) \/ RenameFails(p) \/ Kill(p)
      PROVE  Recorded'
  BY <1>1, RecordedLeave DEF RequestFails, ReceiveFails, RenameFails, Kill, Active
<1> QED
  BY <1>1, RecordedAtRest, RecordedReceive, RecordedRename, RecordedDigest, RecordedOpen,
     RecordedWrite, RecordedReader, RecordedAlter DEF Next

\* artifact_status calls everything verified after an undisturbed sync, and never what was
\* altered since a sync last wrote or digested it (external.py:126-158).
THEOREM StatusTellsTruth == Spec => []StatusTells
<1>1. Typed /\ Recorded => StatusTells
  <2> SUFFICES ASSUME Typed, Recorded, NEW a \in Items
               PROVE  /\ calm => Standing(a) = "verified"
                      /\ a \in altered => Standing(a) # "verified"
    BY DEF StatusTells, Typed
  <2> QED
    BY DEF Recorded, CalmIsSettled, SettledRecorded, AlteredUnseen, Standing
<1>2. Typed /\ Core /\ Recorded /\ [Next]_vars => (Typed /\ Core /\ Recorded)'
  BY TypedStep, CoreStep, RecordedStep
<1> QED
  BY <1>1, <1>2, InitTyped, InitCore, InitRecorded, PTL DEF Spec
=============================================================================
