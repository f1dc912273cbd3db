----------------------------- MODULE BundleCache -----------------------------
(***************************************************************************)
(* How the resources of a task reach the agents: the admin packs them into *)
(* an archive named by the digest of its bytes (admin/bundle/store.go) and *)
(* streams it in chunks (admin/grpcapi/bundle_service.go); every agent     *)
(* keeps the archive, the part of it it has so far and the unpacked        *)
(* directory on its own disk (agent/bundle/cache.go).                      *)
(*                                                                         *)
(* There is one bundle of Size chunks.  A file is the sequence of its      *)
(* chunks, TRUE where the bytes are the right ones.  An agent may crash    *)
(* at any step, and a crash may spoil what was written to the part file    *)
(* and not synced; streams break; the admin admits a bounded number of     *)
(* streams at a time.  An agent calls Ensure when it gets the Start of the *)
(* task and again when the command is delivered again.                     *)
(***************************************************************************)
EXTENDS Integers, Sequences, FiniteSets, SequencesExt

CONSTANTS
    Agents,
    Size,         \* chunks of the archive
    MaxStreams,   \* maxConcurrentStreams of the admin
    MaxFaults     \* bound: crashes, broken streams and spoiled files

VARIABLES
    store,      \* admin: "none", "tmp" while Build writes, "published"
    streams,    \* admin: holders of streamSem
    part,       \* by agent: the .part file
    archive,    \* by agent: the .zip file, or NoFile
    dir,        \* by agent: entries under the published name, or NoFile
    tmp,        \* by agent: entries of the directory being unpacked
    pc,         \* by agent: where Ensure is
    offset,     \* by agent: of the download
    retry,      \* by agent: retryCorrupt
    got,        \* by agent: Ensure has returned the directory
    faults

vars == <<store, streams, part, archive, dir, tmp, pc, offset, retry, got, faults>>
diskVars == <<part, archive, dir, tmp>>

NoFile == <<FALSE, FALSE, FALSE, FALSE, FALSE>>    \* no such file: longer than any real one
Complete == Size + 1    \* the entries of a directory: all chunks and the .ready mark

-----------------------------------------------------------------------------
(* The admin.                                                              *)

(* Build writes a temporary file, syncs it and renames it; an archive that *)
(* exists under this digest is used again.                                 *)
BuildWrite ==
    /\ store = "none"
    /\ store' = "tmp"
    /\ UNCHANGED <<streams, diskVars, pc, offset, retry, got, faults>>
BuildPublish ==
    /\ store = "tmp"
    /\ store' = "published"
    /\ UNCHANGED <<streams, diskVars, pc, offset, retry, got, faults>>

(* The deferred close and release of DownloadBundle.                       *)
Released(a) == streams \ {a}

-----------------------------------------------------------------------------
(* Files.                                                                  *)

Good(file) == file = [i \in 1..Size |-> TRUE]

\* Mutants: the digest is not compared; a spoiled file is kept.
MutantVerified(file) == Len(file) = Size
MutantDiscarded(file) == file

(* verifyBundleFile: size and digest.                                      *)
Verified(file) == Len(file) = Size /\ Good(file)

(* A part that fails the check after it was received in full.              *)
Discarded(file) == <<>>

Goto(a, place) == pc' = [pc EXCEPT ![a] = place]

-----------------------------------------------------------------------------
(* Ensure.                                                                 *)

(* The .ready mark decides whether the directory is used as it is.         *)
Published(a) == dir[a] # NoFile /\ Len(dir[a]) = Complete

EnsureBegin(a) ==
    /\ pc[a] = "idle" /\ ~got[a] /\ store = "published"
    /\ \/ Published(a) /\ got' = [got EXCEPT ![a] = TRUE] /\ UNCHANGED <<pc, archive>>
       \/ /\ ~Published(a) /\ Verified(archive[a])
          /\ Goto(a, "extract") /\ UNCHANGED <<got, archive>>
       \/ /\ ~Published(a) /\ ~Verified(archive[a])
          /\ archive' = [archive EXCEPT ![a] = NoFile]
          /\ Goto(a, "open") /\ UNCHANGED got
    /\ retry' = [retry EXCEPT ![a] = TRUE]
    /\ UNCHANGED <<store, streams, part, dir, tmp, offset, faults>>

(* downloadAttempt begins: what the part file has is kept, unless it is    *)
(* longer than the archive.                                                *)
DownloadOpen(a) ==
    /\ pc[a] = "open"
    /\ LET kept == IF Len(part[a]) > Size THEN <<>> ELSE part[a]
       IN  part' = [part EXCEPT ![a] = kept] /\ offset' = [offset EXCEPT ![a] = Len(kept)]
    /\ Goto(a, "request")
    /\ UNCHANGED <<store, streams, archive, dir, tmp, retry, got, faults>>

(* Store.Open waits for a place among the streams.                         *)
StreamOpen(a) ==
    /\ pc[a] = "request" /\ Cardinality(streams) < MaxStreams
    /\ streams' = streams \cup {a}
    /\ Goto(a, "receive")
    /\ UNCHANGED <<store, diskVars, offset, retry, got, faults>>

(* The server sends the chunk at the offset, the agent appends it.         *)
Receive(a) ==
    /\ pc[a] = "receive" /\ offset[a] < Size
    /\ part' = [part EXCEPT ![a] = Append(@, TRUE)]
    /\ offset' = [offset EXCEPT ![a] = @ + 1]
    /\ UNCHANGED <<store, streams, archive, dir, tmp, pc, retry, got, faults>>

(* End of the stream: the file is synced and checked; a spoiled one is     *)
(* discarded and fetched once more from its beginning.                     *)
Received(a) ==
    /\ pc[a] = "receive" /\ offset[a] = Size
    /\ streams' = Released(a)
    /\ \/ /\ Verified(part[a])
          /\ archive' = [archive EXCEPT ![a] = part[a]]
          /\ part' = [part EXCEPT ![a] = <<>>]
          /\ Goto(a, "extract") /\ UNCHANGED retry
       \/ /\ ~Verified(part[a])
          /\ part' = [part EXCEPT ![a] = Discarded(@)]
          /\ Goto(a, IF retry[a] THEN "open" ELSE "idle")
          /\ retry' = [retry EXCEPT ![a] = FALSE]
          /\ UNCHANGED archive
    /\ UNCHANGED <<store, dir, tmp, offset, got, faults>>

(* The stream breaks, the task is cancelled or the admin has no archive:   *)
(* Ensure fails and what was received stays in the part file.              *)
Interrupted(a) ==
    /\ pc[a] \in {"request", "receive"} /\ faults < MaxFaults
    /\ faults' = faults + 1
    /\ streams' = Released(a)
    /\ Goto(a, "idle")
    /\ UNCHANGED <<store, diskVars, offset, retry, got>>

(* extractBundle: every entry is written and synced in a directory of its  *)
(* own, which gets the mark last and is renamed once it is complete.       *)
Extract(a) ==
    /\ pc[a] = "extract" /\ Len(tmp[a]) < Complete
    /\ tmp' = [tmp EXCEPT ![a] = Append(@, Good(archive[a]))]
    /\ UNCHANGED <<store, streams, part, archive, dir, pc, offset, retry, got, faults>>
RemoveOld(a) ==
    /\ pc[a] = "extract" /\ Len(tmp[a]) = Complete
    /\ dir' = [dir EXCEPT ![a] = NoFile]
    /\ Goto(a, "publish")
    /\ UNCHANGED <<store, streams, part, archive, tmp, offset, retry, got, faults>>
Publish(a) ==
    /\ pc[a] = "publish"
    /\ dir' = [dir EXCEPT ![a] = tmp[a]]
    /\ tmp' = [tmp EXCEPT ![a] = <<>>]
    /\ got' = [got EXCEPT ![a] = TRUE]
    /\ Goto(a, "idle")
    /\ UNCHANGED <<store, streams, part, archive, offset, retry, faults>>

(* The agent crashes.  Its stream ends, a directory being unpacked stays   *)
(* behind under a name nobody uses again; a chunk of the part file that    *)
(* was not synced may have become garbage.                                 *)
Crash(a) ==
    /\ faults < MaxFaults
    /\ faults' = faults + 1
    /\ \/ UNCHANGED part
       \/ \E i \in DOMAIN part[a] : part' = [part EXCEPT ![a][i] = FALSE]
    /\ tmp' = [tmp EXCEPT ![a] = <<>>]
    /\ streams' = streams \ {a}
    /\ got' = [got EXCEPT ![a] = FALSE]
    /\ Goto(a, "idle")
    /\ UNCHANGED <<store, archive, dir, offset, retry>>

(* The disk loses a kept archive's bytes.                                  *)
Spoil(a) ==
    /\ faults < MaxFaults /\ archive[a] # NoFile /\ pc[a] = "idle"
    /\ faults' = faults + 1
    /\ archive' = [archive EXCEPT ![a][1] = FALSE]
    /\ UNCHANGED <<store, streams, part, dir, tmp, pc, offset, retry, got>>

-----------------------------------------------------------------------------
Init ==
    /\ store = "none" /\ streams = {}
    /\ part = [a \in Agents |-> <<>>] /\ archive = [a \in Agents |-> NoFile]
    /\ dir = [a \in Agents |-> NoFile] /\ tmp = [a \in Agents |-> <<>>]
    /\ pc = [a \in Agents |-> "idle"] /\ offset = [a \in Agents |-> 0]
    /\ retry = [a \in Agents |-> TRUE] /\ got = [a \in Agents |-> FALSE]
    /\ faults = 0

Ensure(a) == EnsureBegin(a) \/ DownloadOpen(a) \/ StreamOpen(a) \/ Receive(a) \/ Received(a)
                \/ Extract(a) \/ RemoveOld(a) \/ Publish(a)

Next == BuildWrite \/ BuildPublish
        \/ \E a \in Agents : Ensure(a) \/ Interrupted(a) \/ Crash(a) \/ Spoil(a)

Spec == Init /\ [][Next]_vars

(* The agents go on with what they do, a lost Start is delivered again,    *)
(* and a place that is free again and again among the streams is given to  *)
(* everyone who waits for one (a channel serves its senders in order).     *)
Fairness ==
    /\ WF_vars(BuildWrite \/ BuildPublish)
    /\ \A a \in Agents : WF_vars(Ensure(a)) /\ SF_vars(StreamOpen(a))

FairSpec == Spec /\ Fairness

-----------------------------------------------------------------------------
(* A task never runs on a directory that is incomplete or not the bundle   *)
(* it was given, wherever downloads broke off, agents crashed or files     *)
(* were spoiled before: Ensure returns only a directory unpacked in full   *)
(* from an archive whose digest was checked.                               *)
BundleIsWhole ==
    \A a \in Agents : got[a] => dir[a] = [i \in 1..Complete |-> TRUE]

(* Once the faults are over every agent gets its bundle: a spoiled or      *)
(* half-received file never blocks it for good, and a broken stream gives  *)
(* its place back.                                                         *)
BundleArrives == \A a \in Agents : []<>got[a]
=============================================================================
