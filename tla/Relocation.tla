------------------------------- MODULE Relocation -------------------------------
(***************************************************************************)
(* The durable relocation of a dormant session directory                   *)
(* (session/storage/relocation): a journal file per session is advanced    *)
(* through its phases while the directory is copied to a staging sibling   *)
(* of the target, published by a rename that replaces nothing, and the     *)
(* source is removed.  Any step may fail, the process may die between two  *)
(* steps, and the machine may lose power, in which case every directory    *)
(* entry whose parent was not yet synced is free to be the old or the new  *)
(* one.  A second process recovers from the journal.                       *)
(*                                                                         *)
(* One session is modelled; sessions share nothing but the directory their *)
(* journals live in.  A directory is its kind and the two fields of        *)
(* summary.json that validation reads: a removal works entry by entry, so  *)
(* an interrupted one leaves a directory that still has its summary        *)
(* ("part") or has lost it ("stub").                                       *)
(***************************************************************************)
EXTENDS Naturals

CONSTANTS Procs,        \* processes that use the session store
          Callers,      \* those that relocate; every process lists
          Cwds,         \* working directories
          NoCwd,        \* no working directory
          MaxTx,        \* bound: leases callers take and transactions they start
          MaxFaults     \* bound: failed steps, crashes and power losses

ASSUME CwdAssumption == NoCwd \notin Cwds
ASSUME BoundAssumption == MaxTx \in Nat /\ MaxFaults \in Nat

NoProc == "nobody"
ASSUME ProcAssumption == NoProc \notin Procs /\ Callers \subseteq Procs

(***************************************************************************)
(* Journals (journal.rs).  A missing file is a journal of phase "none".    *)
(***************************************************************************)
SourceAuthority == {"Prepared", "Staged", "TargetPublished", "RolledBack"}
TargetAuthority == {"Ready", "Committed"}
Phases == SourceAuthority \cup TargetAuthority
Terminal == {"Committed", "RolledBack"}

Journals == [phase : Phases \cup {"none"}, nonce : 0..MaxTx, gen : Nat,
             src : Cwds \cup {NoCwd}, dst : Cwds \cup {NoCwd}]

NoJournal ==
  [phase |-> "none", nonce |-> 0, gen |-> 0, src |-> NoCwd, dst |-> NoCwd]

has_target_authority(j) == j.phase \in TargetAuthority

authoritative_cwd(j) == IF has_target_authority(j) THEN j.dst ELSE j.src

(***************************************************************************)
(* Session directories: what a path under sessions/<cwd>/ holds.           *)
(***************************************************************************)
Kinds == {"none", "stub", "part", "whole"}
Dirs == [kind : Kinds, gen : Nat, prev : Cwds \cup {NoCwd}]

NoDir == [kind |-> "none", gen |-> 0, prev |-> NoCwd]
Stub == [kind |-> "stub", gen |-> 0, prev |-> NoCwd]
HasSummary(d) == d.kind \in {"part", "whole"}

\* What a remove_dir_all that fails or is cut short may leave of d.
Leftover(d) ==
  {d, NoDir}
    \cup (IF HasSummary(d) THEN {[d EXCEPT !.kind = "part"]} ELSE {})
    \cup (IF d.kind # "none" THEN {Stub} ELSE {})

\* What a power loss may leave of an entry that is cur in the page cache and
\* was dur when its parent was last synced.
Survivors(cur, dur) ==
  IF cur = dur THEN {cur} ELSE {cur} \cup Leftover(dur)

Surviving(cur, dur) ==
  {f \in [Cwds -> UNION {Survivors(cur[c], dur[c]) : c \in Cwds}] :
     \A c \in Cwds : f[c] \in Survivors(cur[c], dur[c])}

VARIABLES journal, djournal,  \* the journal file: as read now, as last synced
          home, dhome,        \* [Cwds -> Dirs] <cwd>/<session id>, same pair
          stage, dstage,      \* [Cwds -> Dirs] <cwd>/.<id>.relocating-<nonce>
          lease,              \* holder of the exclusive lock file
          pc,                 \* where each process is in its call
          loc,                \* the RelocationJournal value of the call
          auto,               \* the processes inside recover_all
          handle,             \* the StagedRelocation a caller holds (its nonce)
          undoing,            \* the caller has begun to take that one back
          proof,              \* the TerminalRelocation a caller holds
          nonces,             \* leases taken by callers and nonces handed out
          faults              \* faults so far

store == <<journal, djournal, home, dhome, stage, dstage>>
vars == <<journal, djournal, home, dhome, stage, dstage, lease, pc, loc, auto,
          handle, undoing, proof, nonces, faults>>

Calls == {"copy", "write_staged", "publish", "write_published",
          "commit_sync", "commit_source", "commit_staging", "commit_write",
          "rollback_staging", "rollback_target", "rollback_write"}

TypeOK ==
  /\ journal \in Journals /\ djournal \in Journals
  /\ home \in [Cwds -> Dirs] /\ dhome \in [Cwds -> Dirs]
  /\ stage \in [Cwds -> Dirs] /\ dstage \in [Cwds -> Dirs]
  /\ lease \in Procs \cup {NoProc}
  /\ pc \in [Procs -> Calls \cup {"idle", "listed", "held", "recover",
                               "finalize", "leave"}]
  /\ loc \in [Procs -> Journals]
  /\ auto \subseteq Procs
  /\ handle \in [Procs -> 0..MaxTx]
  /\ undoing \in [Procs -> BOOLEAN]
  /\ proof \in [Procs -> Journals]
  /\ nonces \in 0..MaxTx
  /\ faults \in 0..MaxFaults

Init ==
  /\ journal = NoJournal /\ djournal = NoJournal
  /\ \E c \in Cwds :
       home = [d \in Cwds |->
                 IF d = c THEN [kind |-> "whole", gen |-> 0, prev |-> NoCwd]
                          ELSE NoDir]
  /\ dhome = home
  /\ stage = [c \in Cwds |-> NoDir] /\ dstage = stage
  /\ lease = NoProc
  /\ pc = [p \in Procs |-> "idle"]
  /\ loc = [p \in Procs |-> NoJournal]
  /\ auto = {}
  /\ handle = [p \in Procs |-> 0]
  /\ undoing = [p \in Procs |-> FALSE]
  /\ proof = [p \in Procs |-> NoJournal]
  /\ nonces = 0
  /\ faults = 0

(***************************************************************************)
(* The durable primitives (fs.rs).  Each either works or fails part way;   *)
(* a failure is an error to the caller, and a process killed inside the    *)
(* primitive is a failure followed by Crash.                               *)
(***************************************************************************)
Works == UNCHANGED faults
Fails == faults < MaxFaults /\ faults' = faults + 1

\* write_atomic_durable of the journal: the rename happened and was synced.
WriteJournal(j) == journal' = j /\ djournal' = j

\* WriteFailure::NotCommitted leaves the file alone, WriteFailure::Committed
\* has renamed it but not synced its directory.
WriteJournalFails(j) ==
  /\ \/ journal' = journal      \* NotCommitted
     \/ journal' = j            \* Committed
  /\ UNCHANGED djournal

SyncNamespace == djournal' = journal /\ UNCHANGED journal

\* remove_dir_durable of <c>/<session id>: the removal, then the parent's sync.
RemoveHome(c) ==
  /\ home' = [home EXCEPT ![c] = NoDir]
  /\ dhome' = [dhome EXCEPT ![c] = NoDir]
  /\ dstage' = [dstage EXCEPT ![c] = stage[c]]
  /\ UNCHANGED stage

RemoveHomeFails(c) ==
  /\ \E d \in Leftover(home[c]) : home' = [home EXCEPT ![c] = d]
  /\ UNCHANGED <<dhome, stage, dstage>>

\* The same for the staging directory under c.
RemoveStaging(c) ==
  /\ stage' = [stage EXCEPT ![c] = NoDir]
  /\ dstage' = [dstage EXCEPT ![c] = NoDir]
  /\ dhome' = [dhome EXCEPT ![c] = home[c]]
  /\ UNCHANGED home

RemoveStagingFails(c) ==
  /\ \E d \in Leftover(stage[c]) : stage' = [stage EXCEPT ![c] = d]
  /\ UNCHANGED <<home, dhome, dstage>>

validate_source_summary(j) ==
  HasSummary(home[j.src]) /\ home[j.src].gen + 1 = j.gen

validate_target(j) ==
  HasSummary(home[j.dst]) /\ home[j.dst].gen = j.gen /\ home[j.dst].prev = j.src

(***************************************************************************)
(* Control: a call that fails returns to the caller that holds the lease;  *)
(* recover_all gives up at its first error and drops the lease.            *)
(***************************************************************************)
Goto(p, l) == pc' = [pc EXCEPT ![p] = l]
Run(p, l, j) == Goto(p, l) /\ loc' = [loc EXCEPT ![p] = j]
ReturnError(p) == Run(p, IF p \in auto THEN "leave" ELSE "held", NoJournal)
ReturnProof(p, j) ==
  /\ Run(p, IF p \in auto THEN "finalize" ELSE "held", NoJournal)
  /\ proof' = [proof EXCEPT ![p] = j]

directories == <<home, dhome, stage, dstage>>
callers == <<lease, auto, handle, undoing, nonces>>

Acquire(p) ==
  /\ p \in Callers /\ pc[p] = "idle" /\ lease = NoProc /\ nonces < MaxTx
  /\ lease' = p
  /\ nonces' = nonces + 1
  /\ Goto(p, "held")
  /\ UNCHANGED <<store, loc, auto, handle, undoing, proof, faults>>

\* The caller drops its lease; the handles it got under it go with it.
Release(p) ==
  /\ pc[p] \in {"held", "leave"}
  /\ lease' = NoProc
  /\ auto' = auto \ {p}
  /\ handle' = [handle EXCEPT ![p] = 0]
  /\ undoing' = [undoing EXCEPT ![p] = FALSE]
  /\ proof' = [proof EXCEPT ![p] = NoJournal]
  /\ Goto(p, "idle")
  /\ UNCHANGED <<store, loc, nonces, faults>>

(***************************************************************************)
(* stage_and_publish                                                       *)
(***************************************************************************)
NewJournal(src, dst, n) ==
  [phase |-> "Prepared", nonce |-> n, gen |-> home[src].gen + 1,
   src |-> src, dst |-> dst]

\* Validation, then the Prepared journal.  A request that validation refuses
\* changes nothing.
Prepare(p) ==
  /\ pc[p] = "held" /\ nonces < MaxTx
  /\ journal.phase = "none"
  /\ nonces' = nonces + 1
  /\ \E src, dst \in Cwds :
       /\ src # dst
       /\ HasSummary(home[src])
       /\ home[dst].kind = "none" /\ stage[dst].kind = "none"
       /\ LET j == NewJournal(src, dst, nonces + 1) IN
            \/ Works /\ WriteJournal(j) /\ Run(p, "copy", j)
            \/ Fails /\ WriteJournalFails(j) /\ ReturnError(p)
  /\ UNCHANGED <<directories, lease, auto, handle, undoing, proof>>

\* Mutant: the staged summary keeps the source's previous_cwd.
CopyKeepsPrevious(p) ==
  /\ pc[p] = "copy" /\ Works
  /\ LET j == loc[p]
         copied == [home[j.src] EXCEPT !.gen = j.gen]
     IN /\ stage' = [stage EXCEPT ![j.dst] = copied]
        /\ dstage' = [dstage EXCEPT ![j.dst] = copied]
  /\ Goto(p, "write_staged")
  /\ UNCHANGED <<journal, djournal, home, dhome, loc, proof, callers>>

\* copy_directory, rewrite_staged_summary and the parent's sync; a failure
\* goes to rollback_failed_stage.
Copy(p) ==
  /\ pc[p] = "copy"
  /\ LET j == loc[p]
         copied == [kind |-> home[j.src].kind, gen |-> j.gen, prev |-> j.src]
     IN \/ /\ Works
           /\ stage' = [stage EXCEPT ![j.dst] = copied]
           /\ dstage' = [dstage EXCEPT ![j.dst] = copied]
           /\ Goto(p, "write_staged")
        \/ /\ Fails
           /\ \E d \in Leftover(copied) :
                stage' = [stage EXCEPT ![j.dst] = d]
           /\ UNCHANGED dstage
           /\ Goto(p, "rollback_staging")
  /\ UNCHANGED <<journal, djournal, home, dhome, loc, proof, callers>>

\* Mutant: a Staged record that was not committed is rolled back as Staged.
WriteStagedNoReset(p) ==
  /\ pc[p] = "write_staged"
  /\ LET j == [loc[p] EXCEPT !.phase = "Staged"] IN
       \/ Works /\ WriteJournal(j) /\ Run(p, "publish", j)
       \/ Fails /\ UNCHANGED <<journal, djournal>> /\ Run(p, "rollback_staging", j)
  /\ UNCHANGED <<directories, proof, callers>>

\* A Staged record that was not committed is rolled back as Prepared.
WriteStaged(p) ==
  /\ pc[p] = "write_staged"
  /\ LET j == [loc[p] EXCEPT !.phase = "Staged"] IN
       \/ Works /\ WriteJournal(j) /\ Run(p, "publish", j)
       \/ Fails /\ UNCHANGED <<journal, djournal, loc>> /\ Goto(p, "rollback_staging")
       \/ Fails /\ journal' = j /\ UNCHANGED djournal /\ ReturnError(p)
  /\ UNCHANGED <<directories, proof, callers>>

\* Mutant: the parent is not synced after the rename.
PublishUnsynced(p) ==
  /\ pc[p] = "publish" /\ Works
  /\ LET c == loc[p].dst IN
       /\ home' = [home EXCEPT ![c] = stage[c]]
       /\ stage' = [stage EXCEPT ![c] = NoDir]
  /\ Goto(p, "write_published")
  /\ UNCHANGED <<journal, djournal, dhome, dstage, loc, proof, callers>>

\* rename_no_replace of the staging directory, then the parent's sync.
Publish(p) ==
  /\ pc[p] = "publish"
  /\ LET c == loc[p].dst IN
       \/ /\ IF home[c].kind = "none" THEN Fails ELSE Works   \* the rename
          /\ Goto(p, "rollback_staging")
          /\ UNCHANGED <<directories, loc>>
       \/ /\ home[c].kind = "none"
          /\ home' = [home EXCEPT ![c] = stage[c]]
          /\ stage' = [stage EXCEPT ![c] = NoDir]
          /\ \/ /\ Works
                /\ dhome' = [dhome EXCEPT ![c] = stage[c]]
                /\ dstage' = [dstage EXCEPT ![c] = NoDir]
                /\ Goto(p, "write_published") /\ UNCHANGED loc
             \/ Fails /\ UNCHANGED <<dhome, dstage>> /\ ReturnError(p)
  /\ UNCHANGED <<journal, djournal, proof, callers>>

\* The caller gets a StagedRelocation only when the record is written.
WritePublished(p) ==
  /\ pc[p] = "write_published"
  /\ LET j == [loc[p] EXCEPT !.phase = "TargetPublished"] IN
       \/ /\ Works /\ WriteJournal(j)
          /\ handle' = [handle EXCEPT ![p] = j.nonce]
          /\ undoing' = [undoing EXCEPT ![p] = FALSE]
          /\ Run(p, "held", NoJournal)
       \/ /\ Fails /\ WriteJournalFails(j) /\ ReturnError(p)
          /\ UNCHANGED <<handle, undoing>>
  /\ UNCHANGED <<directories, lease, auto, proof, nonces>>

(***************************************************************************)
(* mark_ready_and_commit and finish_commit                                 *)
(***************************************************************************)
Matches(p) == journal.phase # "none" /\ handle[p] = journal.nonce

\* A caller that has begun to take its relocation back does not commit it.
MarkReady(p) ==
  /\ pc[p] = "held" /\ Matches(p) /\ ~undoing[p]
  /\ \/ /\ journal.phase = "TargetPublished" /\ validate_target(journal)
        /\ LET j == [journal EXCEPT !.phase = "Ready"] IN
             \/ Works /\ WriteJournal(j) /\ Run(p, "commit_sync", j)
             \/ Fails /\ WriteJournalFails(j) /\ ReturnError(p)
     \/ /\ has_target_authority(journal)
        /\ Run(p, "commit_sync", journal)
        /\ UNCHANGED <<journal, djournal, faults>>
  /\ UNCHANGED <<directories, proof, callers>>

\* Mutant: the barrier is left out.
CommitUnsynced(p) ==
  /\ pc[p] = "commit_sync" /\ validate_target(loc[p])
  /\ Goto(p, "commit_source")
  /\ UNCHANGED <<store, loc, proof, callers, faults>>

\* The namespace barrier before anything is removed.
CommitSync(p) ==
  /\ pc[p] = "commit_sync"
  /\ \/ /\ Works /\ SyncNamespace
        /\ IF validate_target(loc[p])
           THEN Goto(p, "commit_source") /\ UNCHANGED loc
           ELSE ReturnError(p)
     \/ Fails /\ UNCHANGED <<journal, djournal>> /\ ReturnError(p)
  /\ UNCHANGED <<directories, proof, callers>>

CommitSource(p) ==
  /\ pc[p] = "commit_source"
  /\ \/ Works /\ RemoveHome(loc[p].src) /\ Goto(p, "commit_staging") /\ UNCHANGED loc
     \/ Fails /\ RemoveHomeFails(loc[p].src) /\ ReturnError(p)
  /\ UNCHANGED <<journal, djournal, proof, callers>>

CommitStaging(p) ==
  /\ pc[p] = "commit_staging"
  /\ \/ Works /\ RemoveStaging(loc[p].dst) /\ Goto(p, "commit_write") /\ UNCHANGED loc
     \/ Fails /\ RemoveStagingFails(loc[p].dst) /\ ReturnError(p)
  /\ UNCHANGED <<journal, djournal, proof, callers>>

\* The terminal record, written unless the journal already is that record.
WriteTerminal(p, phase) ==
  LET j == [loc[p] EXCEPT !.phase = phase] IN
  \/ /\ loc[p].phase = phase
     /\ Works /\ UNCHANGED <<journal, djournal>> /\ ReturnProof(p, j)
  \/ /\ loc[p].phase # phase
     /\ Works /\ WriteJournal(j) /\ ReturnProof(p, j)
  \/ /\ loc[p].phase # phase
     /\ Fails /\ WriteJournalFails(j) /\ ReturnError(p) /\ UNCHANGED proof

CommitWrite(p) ==
  /\ pc[p] = "commit_write"
  /\ WriteTerminal(p, "Committed")
  /\ UNCHANGED <<directories, callers>>

(***************************************************************************)
(* rollback and finish_rollback                                            *)
(***************************************************************************)
Rollback(p) ==
  /\ pc[p] = "held" /\ Matches(p) /\ ~has_target_authority(journal)
  /\ Run(p, "rollback_staging", journal)
  /\ undoing' = [undoing EXCEPT ![p] = TRUE]
  /\ UNCHANGED <<store, lease, auto, handle, proof, nonces, faults>>

RollbackStaging(p) ==
  /\ pc[p] = "rollback_staging"
  /\ IF validate_source_summary(loc[p])
     THEN \/ /\ Works /\ RemoveStaging(loc[p].dst)
             /\ Goto(p, "rollback_target") /\ UNCHANGED loc
          \/ Fails /\ RemoveStagingFails(loc[p].dst) /\ ReturnError(p)
     ELSE Works /\ UNCHANGED directories /\ ReturnError(p)
  /\ UNCHANGED <<journal, djournal, proof, callers>>

\* Mutant: the target is validated whether or not it exists.
RollbackTargetMustExist(p) ==
  /\ pc[p] = "rollback_target" /\ Works
  /\ IF validate_target(loc[p])
     THEN RemoveHome(loc[p].dst) /\ Goto(p, "rollback_write") /\ UNCHANGED loc
     ELSE UNCHANGED directories /\ ReturnError(p)
  /\ UNCHANGED <<journal, djournal, proof, callers>>

\* The target is removed only if it is this transaction's; a target that
\* exists without its summary is refused.
RollbackTarget(p) ==
  /\ pc[p] = "rollback_target"
  /\ LET c == loc[p].dst IN
     IF home[c].kind = "none" \/ validate_target(loc[p])
     THEN \/ /\ Works /\ RemoveHome(c)
             /\ Goto(p, "rollback_write") /\ UNCHANGED loc
          \/ Fails /\ RemoveHomeFails(c) /\ ReturnError(p)
     ELSE Works /\ UNCHANGED directories /\ ReturnError(p)
  /\ UNCHANGED <<journal, djournal, proof, callers>>

RollbackWrite(p) ==
  /\ pc[p] = "rollback_write"
  /\ WriteTerminal(p, "RolledBack")
  /\ UNCHANGED <<directories, callers>>

(***************************************************************************)
(* recover, recover_all and finalize_terminal                              *)
(***************************************************************************)
\* recover_all lists the journals first and takes the leases one by one.
ListJournals(p) ==
  /\ pc[p] = "idle" /\ journal.phase # "none"
  /\ Goto(p, "listed")
  /\ UNCHANGED <<store, loc, proof, callers, faults>>

\* A busy lease is skipped.
AcquireListed(p) ==
  /\ pc[p] = "listed"
  /\ IF lease = NoProc
     THEN lease' = p /\ auto' = auto \cup {p} /\ Goto(p, "recover")
     ELSE Goto(p, "idle") /\ UNCHANGED <<lease, auto>>
  /\ UNCHANGED <<store, loc, handle, undoing, proof, nonces, faults>>

Recover(p) ==
  /\ pc[p] \in {"held", "recover"}
  /\ \/ /\ journal.phase = "none" /\ pc[p] = "recover"      \* JournalMissing
        /\ ReturnError(p)
        /\ UNCHANGED <<journal, djournal, undoing, faults>>
     \/ /\ journal.phase # "none"
        /\ Fails /\ ReturnError(p)
        /\ UNCHANGED <<journal, djournal, undoing>>
     \/ /\ journal.phase # "none"
        /\ Works /\ SyncNamespace
        /\ undoing' = [undoing EXCEPT ![p] = TRUE]
        /\ Run(p, IF has_target_authority(journal) THEN "commit_sync"
                                                   ELSE "rollback_staging",
               journal)
  /\ UNCHANGED <<directories, lease, auto, handle, proof, nonces>>

\* Only the journal the proof is about is removed; a missing one is synced
\* again.
Finalize(p) ==
  /\ pc[p] \in {"held", "finalize"} /\ proof[p].phase \in Terminal
  /\ \/ /\ journal \in {proof[p], NoJournal}
        /\ \/ /\ Works
              /\ journal' = NoJournal /\ djournal' = NoJournal
              /\ proof' = [proof EXCEPT ![p] = NoJournal]
           \/ /\ Fails
              /\ journal' \in {journal, NoJournal}
              /\ UNCHANGED <<djournal, proof>>
     \/ /\ journal \notin {proof[p], NoJournal}
        /\ UNCHANGED <<journal, djournal, proof, faults>>
  /\ Goto(p, IF p \in auto THEN "leave" ELSE "held")
  /\ UNCHANGED <<directories, loc, callers>>

(***************************************************************************)
(* Faults between steps                                                    *)
(***************************************************************************)
\* The process dies: the kernel drops its lock, its memory is gone.
Crash(p) ==
  /\ pc[p] # "idle"
  /\ Fails
  /\ lease' = IF lease = p THEN NoProc ELSE lease
  /\ pc' = [pc EXCEPT ![p] = "idle"]
  /\ auto' = auto \ {p}
  /\ handle' = [handle EXCEPT ![p] = 0]
  /\ undoing' = [undoing EXCEPT ![p] = FALSE]
  /\ proof' = [proof EXCEPT ![p] = NoJournal]
  /\ loc' = [loc EXCEPT ![p] = NoJournal]
  /\ UNCHANGED <<store, nonces>>

\* The machine dies: what was not synced may or may not have reached the disk.
PowerLoss ==
  /\ Fails
  /\ lease' = NoProc
  /\ pc' = [p \in Procs |-> "idle"]
  /\ auto' = {}
  /\ handle' = [p \in Procs |-> 0]
  /\ undoing' = [p \in Procs |-> FALSE]
  /\ proof' = [p \in Procs |-> NoJournal]
  /\ loc' = [p \in Procs |-> NoJournal]
  /\ journal' \in {journal, djournal} /\ djournal' = journal'
  /\ home' \in Surviving(home, dhome) /\ dhome' = home'
  /\ stage' \in Surviving(stage, dstage) /\ dstage' = stage'
  /\ UNCHANGED nonces

\* A call in progress takes its next step.
Step(p) ==
  \/ Copy(p) \/ WriteStaged(p) \/ Publish(p) \/ WritePublished(p)
  \/ CommitSync(p) \/ CommitSource(p) \/ CommitStaging(p) \/ CommitWrite(p)
  \/ RollbackStaging(p) \/ RollbackTarget(p) \/ RollbackWrite(p)

\* recover_all's own steps.
RecoverAll(p) ==
  \/ ListJournals(p) \/ AcquireListed(p)
  \/ pc[p] = "recover" /\ Recover(p)
  \/ pc[p] = "finalize" /\ Finalize(p)

Next ==
  \/ \E p \in Procs :
       \/ Acquire(p) \/ Release(p) \/ Prepare(p) \/ MarkReady(p) \/ Rollback(p)
       \/ ListJournals(p) \/ AcquireListed(p) \/ Recover(p) \/ Finalize(p)
       \/ Step(p) \/ Crash(p)
  \/ PowerLoss

Spec == Init /\ [][Next]_vars

\* A call that started runs on, a caller makes finitely many calls under one
\* lease, and the session list is opened again and again.
Fairness ==
  \A p \in Procs :
    /\ WF_vars(Step(p))
    /\ WF_vars(RecoverAll(p))
    /\ SF_vars(Release(p))

FairSpec == Spec /\ Fairness

(***************************************************************************)
(* Properties                                                              *)
(***************************************************************************)
Whole(d, g) == d.kind = "whole" /\ d.gen = g

\* The directory j gives authority to is complete and is the generation j
\* says it is.
Intact(j, h) ==
  IF has_target_authority(j) THEN Whole(h[j.dst], j.gen) /\ h[j.dst].prev = j.src
                             ELSE Whole(h[j.src], j.gen - 1)

OnlyHome(h) ==
  \E c \in Cwds : /\ h[c].kind = "whole"
                  /\ \A d \in Cwds \ {c} : h[d] = NoDir

\* The copy the journal gives authority to is complete, whatever step failed,
\* whoever crashed and whatever a power loss took, and a session without a
\* journal has exactly one directory and no staging left (finish_commit,
\* finish_rollback, finalize_terminal).
AuthoritativeIsWhole ==
  IF journal.phase = "none"
  THEN OnlyHome(home) /\ \A c \in Cwds : stage[c] = NoDir
  ELSE Intact(journal, home)

\* The record a running call works from is the record on disk: no other
\* process moves the journal under a call (the lease), and every early return
\* drops the value before it is stale.
LocalIsCurrent ==
  \A p \in Procs : pc[p] \in Calls => lease = p /\ loc[p] = journal

\* Rollback refuses a target that has lost its summary to an interrupted
\* removal.
Wedged == ~has_target_authority(journal) /\ home[journal.dst].kind = "stub"

\* Recovery finds what it validates: of a journal it could only ever refuse
\* the one whose target is such a stub (validate_source_summary,
\* validate_target).
RefusedOnlyWhenWedged ==
  journal.phase # "none" =>
    IF has_target_authority(journal)
    THEN validate_target(journal)
    ELSE /\ validate_source_summary(journal)
         /\ home[journal.dst].kind = "none" \/ validate_target(journal) \/ Wedged

\* A relocation that any process left behind is settled by the next listings,
\* unless it is wedged.
RecoverySettles ==
  journal.phase # "none" ~> (journal.phase = "none" \/ Wedged)

\* What is on the disk, as opposed to in the page cache, goes from home to
\* home by moves only: no failure, crash or power loss loses the session,
\* doubles it or brings an earlier generation back (stage_and_publish to
\* finalize_terminal implement SessionHome).
durable_cwd ==
  IF djournal.phase = "none" THEN CHOOSE c \in Cwds : dhome[c].kind # "none"
                             ELSE authoritative_cwd(djournal)

Home == INSTANCE SessionHome
          WITH place <- durable_cwd, generation <- dhome[durable_cwd].gen

ImplementsSessionHome == Home!Spec

(***************************************************************************)
(* The inductive invariant.  A journal, the one read now and the one on    *)
(* disk alike, pins down what every directory may hold, in the page cache  *)
(* and on disk alike; the two journals are the same, or two records of one *)
(* transaction, or the directories are settled and it does not matter.     *)
(***************************************************************************)
Target(j) == [kind |-> "whole", gen |-> j.gen, prev |-> j.src]

Settled(h, dh, s, ds) ==
  /\ h = dh /\ s = ds
  /\ OnlyHome(h)
  /\ \A c \in Cwds : s[c] = NoDir

SettledNow == Settled(home, dhome, stage, dstage)

\* What rollback may find at the target: nothing, a stub, or this
\* transaction's copy with or without all of its files.
TargetLike(j, d) ==
  d \in {NoDir, Stub} \/ (HasSummary(d) /\ d.gen = j.gen /\ d.prev = j.src)

Consistent(j, h, dh, s, ds) ==
  /\ j.phase # "none"
  /\ j.src \in Cwds /\ j.dst \in Cwds /\ j.src # j.dst
  /\ j.gen # 0 /\ j.nonce # 0
  /\ \A c \in Cwds \ {j.src, j.dst} : h[c] = NoDir /\ dh[c] = NoDir
  /\ \A c \in Cwds \ {j.dst} : s[c] = NoDir /\ ds[c] = NoDir
  /\ has_target_authority(j) => h[j.dst] = Target(j) /\ dh[j.dst] = Target(j)
  /\ ~has_target_authority(j) =>
       /\ Whole(h[j.src], j.gen - 1) /\ dh[j.src] = h[j.src]
       /\ TargetLike(j, h[j.dst]) /\ TargetLike(j, dh[j.dst])
  /\ j.phase \in Terminal => Settled(h, dh, s, ds)

\* k continues the transaction of j.
Continues(j, k) ==
  /\ k.nonce = j.nonce /\ k.gen = j.gen /\ k.src = j.src /\ k.dst = j.dst
  /\ j.phase # "none" /\ k.phase # "none"
  /\ has_target_authority(j) => has_target_authority(k)

JournalsInv ==
  /\ journal # NoJournal => Consistent(journal, home, dhome, stage, dstage)
  /\ djournal # NoJournal => Consistent(djournal, home, dhome, stage, dstage)
  /\ journal = NoJournal => SettledNow
  /\ journal.nonce <= nonces /\ djournal.nonce <= nonces
  /\ \/ journal = djournal
     \/ Continues(djournal, journal) /\ djournal.phase \notin Terminal
     \/ /\ SettledNow
        /\ \/ journal = NoJournal
           \/ journal.phase = "Prepared" /\ djournal.nonce < journal.nonce

\* What a process relies on where it is in its call.
CallInv(p) ==
  LET j == journal
      copied == stage[j.dst] = Target(j) /\ dstage[j.dst] = Target(j)
      unstaged == stage[j.dst] = NoDir /\ dstage[j.dst] = NoDir
  IN /\ pc[p] \notin {"idle", "listed"} => lease = p
     /\ pc[p] \in Calls => loc[p] = j /\ Continues(djournal, j)
     /\ pc[p] \in {"copy", "write_staged"} => j.phase = "Prepared" /\ djournal = j
     /\ pc[p] \in {"publish", "write_published"} => j.phase = "Staged" /\ djournal = j
     /\ pc[p] \in {"write_staged", "publish"} => copied
     /\ pc[p] = "write_published" =>
          home[j.dst] = Target(j) /\ dhome[j.dst] = Target(j)
     /\ pc[p] \in {"commit_sync", "commit_source", "commit_staging", "commit_write"} =>
          has_target_authority(j)
     /\ pc[p] \in {"commit_source", "commit_staging", "commit_write"} => djournal = j
     /\ pc[p] \in {"commit_staging", "commit_write"} =>
          home[j.src] = NoDir /\ dhome[j.src] = NoDir
     /\ pc[p] \in {"rollback_staging", "rollback_target", "rollback_write"} =>
          /\ ~has_target_authority(j)
          /\ j.phase = "TargetPublished" => undoing[p]
     /\ pc[p] \in {"commit_write", "rollback_target", "rollback_write"} => unstaged
     /\ pc[p] = "rollback_write" => home[j.dst] = NoDir /\ dhome[j.dst] = NoDir

\* A handle is about a published target, which is whole until it is taken back.
HandleInv(p) ==
  handle[p] # 0 =>
    /\ lease = p /\ handle[p] <= nonces
    /\ Matches(p) =>
         /\ journal.phase \notin {"Prepared", "Staged"}
         /\ Continues(djournal, journal)
         /\ journal.phase = "TargetPublished" /\ ~undoing[p] =>
              home[journal.dst] = Target(journal) /\ dhome[journal.dst] = Target(journal)

Inv ==
  /\ TypeOK
  /\ JournalsInv
  /\ \A p \in Procs : CallInv(p) /\ HandleInv(p)

================================================================================
