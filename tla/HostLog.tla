------------------------------ MODULE HostLog ------------------------------
(***************************************************************************)
(* The durable host (src/resident/host.rs over src/resident/journal.rs):   *)
(* LeaderCore's control plane and each session's application state, kept   *)
(* in a directory per session that holds a manifest, a checkpoint and an   *)
(* append-only journal.  The leader process may die between any two disk   *)
(* writes; the next leader loads every directory before it serves.         *)
(*                                                                         *)
(* A handler runs to completion unless the process dies in it: the action  *)
(* of a handler with several disk writes is followed by one that cuts it   *)
(* short.  The disk fails only in FaultySpec.                              *)
(***************************************************************************)
EXTENDS LeaderCore, SequencesExt

CONSTANTS EventCounts,   \* how many events one command or poll may emit
          NoRequest,     \* the request of an event that no client asked for
          NoCheckpoint   \* a session directory without checkpoint.json

ASSUME HostAssumption ==
  /\ EventCounts \subseteq Nat
  /\ NoRequest \notin Requests

VARIABLES
  up,           \* a leader process is serving
  domain,       \* HostedSession.session: the events reduced into it, in order
  logSequence,  \* HostedSession.log_sequence
  directory,    \* the sessions that have a directory
  manifest,     \* manifest.json: the session's name, NoName without a file
  checkpoint,   \* checkpoint.json
  journal,      \* journal-v2.log: its complete records
  accepted,     \* history: the sequence each request was last accepted with
  stopped       \* history: the sessions whose removal has begun

diskVars == <<directory, manifest, checkpoint, journal>>
hostVars == <<up, domain, logSequence, diskVars, accepted, stopped>>
allVars == <<vars, hostVars>>

Events == [request : Requests \cup {NoRequest}, sequence : Nat]
Records == [log : Nat, request : Requests \cup {NoRequest}, control : Nat, events : Seq(Events)]
Memories == [name : Names, sequence : Nat, leaseEpoch : Nat,
             order : Seq([request : Requests, sequence : Nat]),
             domain : Seq(Events), log : Nat]

ASSUME CheckpointAssumption == NoCheckpoint \notin Memories

HostTypeOK ==
  /\ TypeOK
  /\ up \in BOOLEAN
  /\ domain \in [Sessions -> Seq(Events)]
  /\ logSequence \in [Sessions -> Nat]
  /\ directory \in SUBSET issued
  /\ manifest \in [Sessions -> Names \cup {NoName}]
  /\ checkpoint \in [Sessions -> Memories \cup {NoCheckpoint}]
  /\ journal \in [Sessions -> Seq(Records)]
  /\ accepted \in [Sessions -> [Requests -> Nat]]
  /\ stopped \in SUBSET issued

HostInit ==
  /\ Init
  /\ up = TRUE
  /\ domain = [s \in Sessions |-> <<>>]
  /\ logSequence = [s \in Sessions |-> 0]
  /\ directory = {}
  /\ manifest = [s \in Sessions |-> NoName]
  /\ checkpoint = [s \in Sessions |-> NoCheckpoint]
  /\ journal = [s \in Sessions |-> <<>>]
  /\ accepted = [s \in Sessions |-> [r \in Requests |-> 0]]
  /\ stopped = {}

-----------------------------------------------------------------------------
(* What is in memory and what a leader would load *)

\* A session that has just been created with name n.
Fresh(n) ==
  [name |-> n, sequence |-> 0, leaseEpoch |-> 0, order |-> <<>>, domain |-> <<>>, log |-> 0]

\* The durable part of session s, called n, as persist_checkpoint writes it.
MemoryOf(s, n) ==
  [name |-> n, sequence |-> sequence[s], leaseEpoch |-> leaseEpoch[s],
   order |-> [k \in DOMAIN commitOrder[s] |->
                [request |-> commitOrder[s][k],
                 sequence |-> committed[s][commitOrder[s][k]]]],
   domain |-> domain[s], log |-> logSequence[s]]

\* LeaderCore::replay of one journaled event.
CoreReplay(memory, q, r) ==
  IF q <= memory.sequence THEN memory
  ELSE [memory EXCEPT !.sequence = q,
                      !.order = IF r = NoRequest THEN @
                                ELSE Retained(Append(@, [request |-> r, sequence |-> q]))]

\* Mutant: the last event carries the request.
ReplayRecordLast(memory, record) ==
  LET reduced == [memory EXCEPT !.domain = @ \o record.events]
      replayed[k \in 0 .. Len(record.events)] ==
        IF k = 0 THEN reduced
        ELSE CoreReplay(replayed[k - 1], record.events[k].sequence,
                        IF k = Len(record.events) THEN record.request ELSE NoRequest) IN
  IF record.events = <<>>
    THEN IF record.request = NoRequest THEN reduced
         ELSE CoreReplay(reduced, record.control, record.request)
    ELSE replayed[Len(record.events)]

\* One journaled transition: only its first event, or the record itself when
\* it has none, carries the request.
ReplayRecord(memory, record) ==
  LET reduced == [memory EXCEPT !.domain = @ \o record.events]
      replayed[k \in 0 .. Len(record.events)] ==
        IF k = 0 THEN reduced
        ELSE CoreReplay(replayed[k - 1], record.events[k].sequence,
                        IF k = 1 THEN record.request ELSE NoRequest) IN
  IF record.events = <<>>
    THEN IF record.request = NoRequest THEN reduced
         ELSE CoreReplay(reduced, record.control, record.request)
    ELSE replayed[Len(record.events)]

\* Mutant: replays from the record the checkpoint already covers.
IsNewerOrEqual(covered, record) == record.log >= covered

\* The checkpoint, which covers the journal up to covered, leaves record out.
IsNewer(covered, record) == record.log > covered

\* One turn of load's loop: the log sequence moves on for every record.
LoadRecord(covered, memory, record) ==
  LET replayed == IF IsNewer(covered, record) THEN ReplayRecord(memory, record) ELSE memory IN
  [replayed EXCEPT !.log = IF record.log > @ THEN record.log ELSE @]

\* The journal, read over what the checkpoint or the manifest gave.
LoadJournal(base, records) ==
  LET loaded[k \in 0 .. Len(records)] ==
        IF k = 0 THEN base ELSE LoadRecord(base.log, loaded[k - 1], records[k]) IN
  loaded[Len(records)]

\* Mutant: the checkpoint does not bring the window back.
RestoredForgetful(stored) == [stored EXCEPT !.leaseEpoch = @ + 1, !.order = <<>>]

\* LeaderCore::restore_session: ownership is cleared under a new epoch.
Restored(stored) == [stored EXCEPT !.leaseEpoch = @ + 1]

\* What HostState::load makes of the directory of s.
BaseOf(s) == IF checkpoint[s] = NoCheckpoint THEN Fresh(manifest[s]) ELSE Restored(checkpoint[s])
Recovered(s) == LoadJournal(BaseOf(s), journal[s])

\* A directory is loadable when it holds a checkpoint or a manifest.
HasSource(s) == checkpoint[s] # NoCheckpoint \/ manifest[s] # NoName

\* load succeeds when every directory is loadable and no name repeats.
Loadable ==
  /\ \A s \in directory : HasSource(s)
  /\ \A s, t \in directory : Recovered(s).name = Recovered(t).name => s = t

-----------------------------------------------------------------------------
(* The process dies: connections, leases and all memory are gone.  Counters  *)
(* that the next leader overwrites before it serves are left as they were.   *)

LoseMemory ==
  /\ up' = FALSE
  /\ instance' = [c \in Connections |-> NoInstance]
  /\ attached' = [c \in Connections |-> {}]
  /\ subscribers' = [s \in Sessions |-> {}]
  /\ driver' = [s \in Sessions |-> NoLease]
  /\ live' = {}
  /\ name' = [s \in Sessions |-> NoName]
  /\ names' = [n \in Names |-> NoSession]
  /\ UNCHANGED <<leaseEpoch, logVars, domain, logSequence, accepted>>

\* The process is killed or aborts.  This also stands for a death within the
\* append of a record, whose torn line the next leader ignores and truncates,
\* and for the exit of run when a poll cannot be journaled.
Crash ==
  /\ up
  /\ LoseMemory
  /\ UNCHANGED <<issued, diskVars, stopped>>

-----------------------------------------------------------------------------
(* Requests that do not touch the disk *)

\* Attachments and leases live in memory only.
Control ==
  /\ up
  /\ \/ \E c \in Connections, i \in Instances : Connect(c, i)
     \/ \E c \in Connections : Disconnect(c)
     \/ \E c \in Connections, s \in Sessions : AttachViewer(c, s)
     \/ \E c \in Connections, s \in Sessions, force \in BOOLEAN : AttachDriver(c, s, force)
     \/ \E c \in Connections, s \in Sessions : Detach(c, s)
     \/ \E c \in Connections, s \in Sessions : ReleaseDriver(c, s)
  /\ UNCHANGED hostVars

-----------------------------------------------------------------------------
(* Session identity: manifest first, then checkpoint *)

WriteManifest(s, n) == manifest' = [manifest EXCEPT ![s] = n]
WriteCheckpoint(s, memory) == checkpoint' = [checkpoint EXCEPT ![s] = memory]

HostCreate(s, raw) ==
  /\ up
  /\ CreateSession(s, raw)
  /\ directory' = directory \cup {s}
  /\ WriteManifest(s, Normal[raw])
  /\ WriteCheckpoint(s, Fresh(Normal[raw]))
  /\ UNCHANGED <<up, domain, logSequence, journal, accepted, stopped>>

\* The process dies once the directory exists, before or after the manifest.
CutCreate(s, raw) ==
  /\ up
  /\ s \notin issued /\ Normal[raw] # NoName /\ names[Normal[raw]] = NoSession
  /\ issued' = issued \cup {s}
  /\ directory' = directory \cup {s}
  /\ UNCHANGED manifest \/ WriteManifest(s, Normal[raw])
  /\ LoseMemory
  /\ UNCHANGED <<checkpoint, journal, stopped>>

\* Mutant: a rename does not refresh the checkpoint.
PersistManifest(s, n) ==
  /\ WriteManifest(s, n)
  /\ UNCHANGED checkpoint

PersistIdentity(s, n) ==
  /\ WriteManifest(s, n)
  /\ WriteCheckpoint(s, MemoryOf(s, n))

HostRename(s, raw) ==
  /\ up
  /\ RenameSession(s, raw)
  /\ PersistIdentity(s, Normal[raw])
  /\ UNCHANGED <<up, domain, logSequence, directory, journal, accepted, stopped>>

\* The process dies between the two files.
CutRename(s, raw) ==
  /\ up
  /\ s \in live /\ Normal[raw] # NoName /\ names[Normal[raw]] \in {NoSession, s}
  /\ WriteManifest(s, Normal[raw])
  /\ LoseMemory
  /\ UNCHANGED <<issued, directory, checkpoint, journal, stopped>>

HostStop(s) ==
  /\ up
  /\ RemoveSession(s)
  /\ directory' = directory \ {s}
  /\ WriteManifest(s, NoName)
  /\ WriteCheckpoint(s, NoCheckpoint)
  /\ journal' = [journal EXCEPT ![s] = <<>>]
  /\ domain' = [domain EXCEPT ![s] = <<>>]
  /\ logSequence' = [logSequence EXCEPT ![s] = 0]
  /\ accepted' = [accepted EXCEPT ![s] = [r \in Requests |-> 0]]
  /\ stopped' = stopped \cup {s}
  /\ UNCHANGED up

\* The process dies within remove_dir_all: any of the files may be left.
CutStop(s) ==
  /\ up
  /\ s \in live
  /\ UNCHANGED manifest \/ WriteManifest(s, NoName)
  /\ UNCHANGED checkpoint \/ WriteCheckpoint(s, NoCheckpoint)
  /\ UNCHANGED journal \/ journal' = [journal EXCEPT ![s] = <<>>]
  /\ stopped' = stopped \cup {s}
  /\ LoseMemory
  /\ UNCHANGED <<issued, directory>>

-----------------------------------------------------------------------------
(* Transitions: reduced in memory, then journaled, then acknowledged *)

\* The events of the next transition of s, caused by r.
Emitted(s, r, n) ==
  [k \in 1 .. n |-> [request |-> r, sequence |-> sequence[s] + k]]

\* A command that emits nothing still takes a sequence.
Span(n) == IF n = 0 THEN 1 ELSE n

\* What the core and the application keep of a command with n events.
Reduce(c, s, e, r, n) ==
  /\ IsAuthorized(c, s, e, r)
  /\ Advance(s, Span(n))
  /\ Remember(s, r)
  /\ domain' = [domain EXCEPT ![s] = @ \o Emitted(s, r, n)]
  /\ applied' = [applied EXCEPT ![s] =
                   Append(@, [request |-> r, sequence |-> sequence[s] + 1,
                              owner |-> instance[c], epoch |-> e])]
  /\ UNCHANGED <<clientVars, nameVars, subscribers, leaseVars>>

\* append_log of one transition.
Journal(s, r, control, events) ==
  /\ journal' = [journal EXCEPT ![s] =
                   Append(@, [log |-> logSequence[s] + 1, request |-> r,
                              control |-> control, events |-> events])]
  /\ logSequence' = [logSequence EXCEPT ![s] = @ + 1]

HostCommand(c, s, e, r, n) ==
  /\ up
  /\ Reduce(c, s, e, r, n)
  /\ Journal(s, r, sequence[s] + Span(n), Emitted(s, r, n))
  /\ accepted' = [accepted EXCEPT ![s][r] = sequence[s] + 1]
  /\ UNCHANGED <<up, directory, manifest, checkpoint, stopped>>

\* A retry within the window is accepted again without being applied.
HostDuplicate(c, s, r) ==
  /\ up
  /\ IsDuplicate(c, s, r)
  /\ accepted' = [accepted EXCEPT ![s][r] = committed[s][r]]
  /\ UNCHANGED <<vars, up, domain, logSequence, diskVars, stopped>>

\* The disk refuses the record.  The client is told of the error, but what
\* the command did in memory stays.
HostCommandFails(c, s, e, r, n) ==
  /\ up
  /\ Reduce(c, s, e, r, n)
  /\ UNCHANGED <<up, logSequence, diskVars, accepted, stopped>>

\* A poll of the application that emits n events.
HostPoll(s, n) ==
  /\ up
  /\ s \in live /\ n > 0
  /\ Advance(s, n)
  /\ domain' = [domain EXCEPT ![s] = @ \o Emitted(s, NoRequest, n)]
  /\ Journal(s, NoRequest, sequence[s] + n, Emitted(s, NoRequest, n))
  /\ UNCHANGED <<clientVars, nameVars, subscribers, leaseVars, committed, commitOrder, applied,
                 up, directory, manifest, checkpoint, accepted, stopped>>

-----------------------------------------------------------------------------
(* The end of a leader and the start of the next *)

\* A graceful stop checkpoints every session; cut short, only some of them.
Shutdown(saved) ==
  /\ up
  /\ saved \subseteq live
  /\ checkpoint' = [s \in Sessions |-> IF s \in saved THEN MemoryOf(s, name[s]) ELSE checkpoint[s]]
  /\ LoseMemory
  /\ UNCHANGED <<issued, directory, manifest, journal, stopped>>

\* load writes the manifests of the sessions in named, and the checkpoints of
\* those in saved.
PersistLoaded(named, saved) ==
  /\ manifest' = [s \in Sessions |-> IF s \in named THEN Recovered(s).name ELSE manifest[s]]
  /\ checkpoint' = [s \in Sessions |-> IF s \in saved THEN Recovered(s) ELSE checkpoint[s]]

\* The name index of a leader that has loaded every directory.
LoadedNames ==
  [n \in Names |-> IF \E s \in directory : Recovered(s).name = n
                     THEN CHOOSE s \in directory : Recovered(s).name = n
                     ELSE NoSession]

\* The window of requests that is loaded for s.
LoadedOrder(s) == [k \in DOMAIN Recovered(s).order |-> Recovered(s).order[k].request]
LoadedCommitted(s) ==
  LET order == Recovered(s).order
      places(r) == {k \in DOMAIN order : order[k].request = r} IN
  [r \in Requests |-> IF places(r) = {} THEN 0 ELSE order[Max(places(r))].sequence]

\* A leader loads every directory and serves.
Restart ==
  /\ ~up
  /\ Loadable
  /\ \A s \in directory : Recovered(s).leaseEpoch <= MaxEpoch[s]
  /\ up' = TRUE
  /\ live' = directory
  /\ name' = [s \in Sessions |-> IF s \in directory THEN Recovered(s).name ELSE NoName]
  /\ names' = LoadedNames
  /\ sequence' = [s \in Sessions |-> IF s \in directory THEN Recovered(s).sequence ELSE sequence[s]]
  /\ leaseEpoch' =
       [s \in Sessions |-> IF s \in directory THEN Recovered(s).leaseEpoch ELSE leaseEpoch[s]]
  /\ commitOrder' = [s \in Sessions |-> IF s \in directory THEN LoadedOrder(s) ELSE commitOrder[s]]
  /\ committed' = [s \in Sessions |-> IF s \in directory THEN LoadedCommitted(s) ELSE committed[s]]
  /\ domain' = [s \in Sessions |-> IF s \in directory THEN Recovered(s).domain ELSE domain[s]]
  /\ logSequence' = [s \in Sessions |-> IF s \in directory THEN Recovered(s).log ELSE logSequence[s]]
  /\ PersistLoaded(directory, directory)
  /\ UNCHANGED <<clientVars, issued, subscribers, driver, applied, directory, journal,
                 accepted, stopped>>

\* A leader dies while it writes the files back: of one session the manifest
\* may be written, and the checkpoint not.
CutRestart(named, saved) ==
  /\ ~up
  /\ Loadable
  /\ saved \subseteq named /\ named \subseteq directory
  /\ \A s, t \in named \ saved : s = t
  /\ \A s \in saved : Recovered(s).leaseEpoch <= MaxEpoch[s]
  /\ PersistLoaded(named, saved)
  /\ UNCHANGED <<vars, up, domain, logSequence, directory, journal, accepted, stopped>>

\* A leader that finds no session creates the configured one.
RestartEmpty(s, raw) ==
  /\ ~up
  /\ directory = {}
  /\ CreateSession(s, raw)
  /\ up' = TRUE
  /\ directory' = {s}
  /\ WriteManifest(s, Normal[raw])
  /\ WriteCheckpoint(s, Fresh(Normal[raw]))
  /\ UNCHANGED <<domain, logSequence, journal, accepted, stopped>>

-----------------------------------------------------------------------------

HostNext ==
  \/ Control
  \/ \E s \in Sessions, raw \in RawNames : HostCreate(s, raw)
  \/ \E s \in Sessions, raw \in RawNames : HostRename(s, raw)
  \/ \E s \in Sessions : HostStop(s)
  \/ \E c \in Connections, s \in Sessions, r \in Requests, n \in EventCounts :
       \E e \in 1 .. MaxEpoch[s] : HostCommand(c, s, e, r, n)
  \/ \E c \in Connections, s \in Sessions, r \in Requests : HostDuplicate(c, s, r)
  \/ \E s \in Sessions, n \in EventCounts : HostPoll(s, n)
  \/ Crash
  \/ \E s \in Sessions, raw \in RawNames : CutCreate(s, raw)
  \/ \E s \in Sessions, raw \in RawNames : CutRename(s, raw)
  \/ \E s \in Sessions : CutStop(s)
  \/ \E saved \in SUBSET Sessions : Shutdown(saved)
  \/ Restart
  \/ \E named, saved \in SUBSET Sessions : CutRestart(named, saved)
  \/ \E s \in Sessions, raw \in RawNames : RestartEmpty(s, raw)

HostSpec == HostInit /\ [][HostNext]_allVars

\* The same host on a disk that may refuse an append.
FaultyNext ==
  \/ HostNext
  \/ \E c \in Connections, s \in Sessions, r \in Requests, n \in EventCounts :
       \E e \in 1 .. MaxEpoch[s] : HostCommandFails(c, s, e, r, n)

FaultySpec == HostInit /\ [][FaultyNext]_allVars

-----------------------------------------------------------------------------
(* Properties *)

\* The sessions of a running leader whose removal never began.
Kept == live \ stopped

(***************************************************************************)
(* What the next leader would load of a session is what this leader has in *)
(* memory: nothing a client has seen is lost by a crash, however the       *)
(* journal, the checkpoints of renames, shutdowns and restarts, and        *)
(* earlier crashes between them are interleaved.  Only the lease epoch may *)
(* differ, as it is not journaled.                                         *)
(***************************************************************************)
MemoryIsDurable ==
  \A s \in Kept :
    [Recovered(s) EXCEPT !.leaseEpoch = leaseEpoch[s]] = MemoryOf(s, name[s])

(***************************************************************************)
(* A retry is answered alike across restarts: the sequence a client was    *)
(* told is behind the session, and while the request is remembered it is   *)
(* the sequence it is remembered with.                                     *)
(***************************************************************************)
RetriesAnswerAlike ==
  \A s \in Kept, r \in Requests : accepted[s][r] # 0 =>
    /\ accepted[s][r] <= sequence[s]
    /\ committed[s][r] \in {0, accepted[s][r]}

(***************************************************************************)
(* Crashes do not shorten the deduplication window: a request is applied   *)
(* again only after Window other commands, and what the leader remembers   *)
(* is exactly the last Window commands, also those of earlier leaders.     *)
(***************************************************************************)
OnceAcrossRestarts == \A s \in Kept : OnceIn(s) /\ WindowOf(s)

(***************************************************************************)
(* The directories never name two sessions alike, so load cannot fail with *)
(* DuplicateName, whichever file of a create, rename or restart was the    *)
(* last to be written.                                                     *)
(***************************************************************************)
DiskNamesDistinct ==
  \A s, t \in directory :
    HasSource(s) /\ HasSource(t) /\ Recovered(s).name = Recovered(t).name => s = t

(***************************************************************************)
(* A name leads to one session: in the index of the leader, and on disk.   *)
(***************************************************************************)
NamesAreDistinct == NamesAgree /\ DiskNamesDistinct

(***************************************************************************)
(* A command reported as accepted is in the journal (src/resident/         *)
(* protocol.rs: "A domain command was durably accepted").                  *)
(***************************************************************************)
AcceptedIsJournaled ==
  \A s \in directory \ stopped, r \in Requests : accepted[s][r] # 0 =>
    \E k \in DOMAIN journal[s] : journal[s][k].request = r

(***************************************************************************)
(* A leader that died can be replaced by one that loads every session.     *)
(***************************************************************************)
NextLeaderLoads == ~up => Loadable

=============================================================================
