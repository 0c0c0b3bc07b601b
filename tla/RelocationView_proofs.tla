------------------------- MODULE RelocationView_proofs -------------------------
(***************************************************************************)
(* What a reader without a lease may rely on, for every set of processes   *)
(* and working directories and every number of transactions and faults:    *)
(* the invariant of a read, that the reader returns only a path that was   *)
(* the session's home during the read unless two relocations ran during    *)
(* it, and that it misses the session only if one did.                     *)
(***************************************************************************)
EXTENDS RelocationView, Relocation_proofs, FiniteSetTheorems

(***************************************************************************)
(* What a step of the store may do under a reader                          *)
(***************************************************************************)
\* The session's directories are still while there is no journal, up to the
\* step that writes one and from the step that removes one.
LEMMA HomeStill ==
  ASSUME Inv, [Next]_vars, journal = NoJournal \/ journal' = NoJournal
  PROVE  home' = home
<1>1. CASE UNCHANGED vars
  BY <1>1 DEF vars
<1>2. ASSUME NEW p \in Procs, Step(p) PROVE home' = home
  <2>1. pc[p] \in Calls
    BY <1>2 DEF Step, Copy, WriteStaged, Publish, WritePublished, CommitSync, CommitSource,
         CommitStaging, CommitWrite, RollbackStaging, RollbackTarget, RollbackWrite, Calls
  <2>2. journal' = NoJournal /\ journal # NoJournal
    BY <2>1, InCall
  <2>3. CASE Publish(p) \/ CommitSource(p) \/ RollbackTarget(p)
    BY <2>2, <2>3 DEF Publish, CommitSource, RollbackTarget
  <2>4. CASE Copy(p) \/ WriteStaged(p) \/ WritePublished(p) \/ CommitSync(p)
             \/ CommitStaging(p) \/ CommitWrite(p) \/ RollbackStaging(p) \/ RollbackWrite(p)
    BY <2>4 DEF Copy, WriteStaged, WritePublished, CommitSync, CommitStaging, CommitWrite,
         RollbackStaging, RollbackWrite, RemoveStaging, RemoveStagingFails, directories
  <2> QED
    BY <1>2, <2>3, <2>4 DEF Step
<1>3. ASSUME NEW p \in Procs,
             Acquire(p) \/ Release(p) \/ Prepare(p) \/ MarkReady(p) \/ Rollback(p)
               \/ ListJournals(p) \/ AcquireListed(p) \/ Recover(p) \/ Finalize(p) \/ Crash(p)
      PROVE  home' = home
  BY <1>3 DEF Acquire, Release, Prepare, MarkReady, Rollback, ListJournals, AcquireListed,
       Recover, Finalize, Crash, store, directories
<1>4. ASSUME PowerLoss PROVE home' = home
  <2>1. journal = NoJournal \/ djournal = NoJournal
    BY <1>4 DEF PowerLoss
  <2>2. SettledNow
    BY <2>1, Constants DEF Inv, JournalsInv, Continues
  <2> QED
    BY <1>4, <2>2, SurvivingSynced, StoreTypes DEF PowerLoss, SettledNow, Settled
<1> QED
  BY <1>1, <1>2, <1>3, <1>4 DEF Next

\* A record is of no transaction, of a new one, or of one that had a record.
Known(k) ==
  \/ k.nonce = 0 \/ k.nonce = nonces + 1
  \/ \E j \in {journal, djournal} :
       k.nonce = j.nonce /\ k.src = j.src /\ k.dst = j.dst

\* The next record of the current transaction is known.
LEMMA NextKnown ==
  ASSUME Inv, NEW ph \in Phases PROVE Known([journal EXCEPT !.phase = ph])
BY PhaseType, StoreTypes DEF Known

\* The records there are, and no record, are known.
LEMMA OldKnown == ASSUME Inv PROVE Known(journal) /\ Known(djournal) /\ Known(NoJournal)
BY Constants DEF Known

\* No step brings back a record of an earlier transaction.
LEMMA Records ==
  ASSUME Inv, [Next]_vars PROVE Known(journal') /\ Known(djournal')
<1> DEFINE Old == {journal, djournal, NoJournal}
<1>1. ASSUME journal' \in Old, djournal' \in Old PROVE Known(journal') /\ Known(djournal')
  BY <1>1, OldKnown
<1>2. ASSUME NEW ph \in Phases, NEW j, j = [journal EXCEPT !.phase = ph],
             WriteJournal(j) \/ WriteJournalFails(j)
      PROVE  Known(journal') /\ Known(djournal')
  BY <1>2, NextKnown, OldKnown DEF WriteJournal, WriteJournalFails
<1>3. CASE UNCHANGED vars
  BY <1>1, <1>3 DEF vars
<1>4. ASSUME NEW p \in Procs,
             Acquire(p) \/ Release(p) \/ Rollback(p) \/ ListJournals(p)
               \/ AcquireListed(p) \/ Recover(p) \/ Finalize(p) \/ Crash(p)
      PROVE  journal' \in Old /\ djournal' \in Old
  BY <1>4 DEF Acquire, Release, Rollback, ListJournals, AcquireListed, Recover, Finalize,
       Crash, store, SyncNamespace
<1>5. ASSUME PowerLoss PROVE journal' \in Old /\ djournal' \in Old
  BY <1>5 DEF PowerLoss
<1>6. ASSUME NEW p \in Procs, Prepare(p) PROVE Known(journal') /\ Known(djournal')
  <2>1. PICK src, dst \in Cwds :
          LET j == NewJournal(src, dst, nonces + 1)
          IN WriteJournal(j) \/ WriteJournalFails(j)
    BY <1>6 DEF Prepare
  <2>2. Known(NewJournal(src, dst, nonces + 1))
    BY DEF NewJournal, Known
  <2> QED
    BY <2>1, <2>2, OldKnown DEF WriteJournal, WriteJournalFails
<1>7. /\ "Staged" \in Phases /\ "TargetPublished" \in Phases /\ "Committed" \in Phases
      /\ "RolledBack" \in Phases /\ "Ready" \in Phases
  BY DEF Phases, SourceAuthority, TargetAuthority
<1>8. ASSUME NEW p \in Procs, MarkReady(p) PROVE Known(journal') /\ Known(djournal')
  BY <1>1, <1>2, <1>7, <1>8 DEF MarkReady
<1>9. ASSUME NEW p \in Procs, Step(p) PROVE Known(journal') /\ Known(djournal')
  <2>1. pc[p] \in Calls
    BY <1>9 DEF Step, Copy, WriteStaged, Publish, WritePublished, CommitSync, CommitSource,
         CommitStaging, CommitWrite, RollbackStaging, RollbackTarget, RollbackWrite, Calls
  <2>2. loc[p] = journal
    BY <2>1, InCall
  <2>3. CASE Copy(p) \/ Publish(p) \/ CommitSync(p) \/ CommitSource(p) \/ CommitStaging(p)
             \/ RollbackStaging(p) \/ RollbackTarget(p)
    <3>1. journal' \in Old /\ djournal' \in Old
      BY <2>3 DEF Copy, Publish, CommitSync, CommitSource, CommitStaging, RollbackStaging,
           RollbackTarget, SyncNamespace
    <3> QED
      BY <1>1, <3>1
  <2>4. CASE WriteStaged(p)
    BY <1>7, <2>2, <2>4, NextKnown, OldKnown DEF WriteStaged, WriteJournal
  <2>5. CASE WritePublished(p)
    BY <1>2, <1>7, <2>2, <2>5 DEF WritePublished
  <2>6. CASE CommitWrite(p)
    BY <1>1, <1>2, <1>7, <2>2, <2>6 DEF CommitWrite, WriteTerminal
  <2>7. CASE RollbackWrite(p)
    BY <1>1, <1>2, <1>7, <2>2, <2>7 DEF RollbackWrite, WriteTerminal
  <2> QED
    BY <1>9, <2>3, <2>4, <2>5, <2>6, <2>7 DEF Step
<1> QED
  BY <1>1, <1>3, <1>4, <1>5, <1>6, <1>8, <1>9 DEF Next

\* Nonces are handed out in order.
LEMMA NoncesGrow ==
  ASSUME Inv, [Next]_vars PROVE nonces' \in {nonces, nonces + 1}
BY DEF Next, vars, Step, callers, Acquire, Release, Prepare, MarkReady, Rollback,
     ListJournals, AcquireListed, Recover, Finalize, Crash, PowerLoss, Copy, WriteStaged,
     Publish, WritePublished, CommitSync, CommitSource, CommitStaging, CommitWrite,
     RollbackStaging, RollbackTarget, RollbackWrite


(***************************************************************************)
(* Where the session is                                                    *)
(***************************************************************************)
CurrentFacts ==
  /\ current_cwd \in Cwds /\ home[current_cwd].kind = "whole"
  /\ journal # NoJournal =>
       /\ current_cwd = authoritative_cwd(journal)
       /\ current_cwd \in {journal.src, journal.dst}
       /\ journal.src \in Cwds /\ journal.dst \in Cwds
       /\ InFlight = {journal.nonce} /\ journal.nonce \in 1..nonces
       /\ journal.phase # "none"
       /\ \A c \in Cwds \ {journal.src, journal.dst} : home[c] = NoDir
  /\ journal = NoJournal =>
       InFlight = {} /\ \A c \in Cwds \ {current_cwd} : home[c] = NoDir
  /\ journal.nonce # 0 /\ djournal.nonce = journal.nonce =>
       djournal.src = journal.src /\ djournal.dst = journal.dst

\* The session's directory is complete, and it is the only one, or the source
\* or the target of the journal.
LEMMA CurrentIs == Inv => CurrentFacts
<1> SUFFICES ASSUME Inv PROVE CurrentFacts
  OBVIOUS
<1>1. CASE journal = NoJournal
  <2>1. PICK c \in Cwds : home[c].kind = "whole" /\ \A d \in Cwds \ {c} : home[d] = NoDir
    BY <1>1 DEF Inv, JournalsInv, SettledNow, Settled, OnlyHome
  <2>2. \A d \in Cwds : home[d].kind # "none" <=> d = c
    BY <2>1, Constants
  <2>3. current_cwd = CHOOSE d \in Cwds : home[d].kind # "none"
    BY <1>1, Constants DEF current_cwd
  <2>4. current_cwd = c
    BY <2>2, <2>3
  <2>5. InFlight = {} /\ journal.nonce = 0
    BY <1>1, Constants DEF InFlight
  <2> QED
    BY <1>1, <2>1, <2>4, <2>5 DEF CurrentFacts
<1>2. CASE journal # NoJournal
  <2>1. Consistent(journal, home, dhome, stage, dstage) /\ journal \in Journals
    BY <1>2, StoreTypes DEF Inv, JournalsInv
  <2>2. current_cwd = authoritative_cwd(journal) /\ InFlight = {journal.nonce}
    BY <2>1 DEF Consistent, current_cwd, InFlight
  <2>3. current_cwd \in Cwds /\ home[current_cwd].kind = "whole"
        /\ current_cwd \in {journal.src, journal.dst}
    BY <2>1, <2>2, TargetType DEF Consistent, authoritative_cwd, Whole
  <2>4. journal.nonce \in 1..nonces
    BY <2>1, BoundAssumption DEF Inv, TypeOK, JournalsInv, Consistent, Journals
  <2>5. djournal.nonce = journal.nonce =>
          djournal.src = journal.src /\ djournal.dst = journal.dst
    BY <1>2, <2>4, BoundAssumption DEF Inv, JournalsInv, TypeOK, Continues
  <2> QED
    BY <1>2, <2>1, <2>2, <2>3, <2>4, <2>5 DEF CurrentFacts, Consistent
<1> QED
  BY <1>1, <1>2

\* The same after a step.
LEMMA CurrentNext == Inv' => CurrentFacts'
BY CurrentIs, PTL

\* A journal that appears or goes away does not move the session.
LEMMA CurrentStill ==
  ASSUME Inv, Inv', [Next]_vars, journal = NoJournal \/ journal' = NoJournal
  PROVE  current_cwd' = current_cwd
<1>1. home' = home
  BY HomeStill
<1>2. current_cwd \in Cwds /\ home[current_cwd].kind = "whole"
  BY CurrentIs DEF CurrentFacts
<1>3. current_cwd' \in Cwds /\ home[current_cwd'].kind = "whole"
  BY <1>1, CurrentNext DEF CurrentFacts
<1>4. CASE journal = NoJournal
  BY <1>2, <1>3, <1>4, CurrentIs, Constants DEF CurrentFacts
<1>5. CASE journal' = NoJournal
  <2>1. \A c \in Cwds \ {current_cwd'} : home[c] = NoDir
    BY <1>1, <1>5, CurrentNext DEF CurrentFacts
  <2> QED
    BY <1>2, <1>3, <2>1, Constants
<1> QED
  BY <1>4, <1>5

(***************************************************************************)
(* The reader's steps                                                      *)
(***************************************************************************)
\* Loading the journals.
LEMMA LoadInv == ASSUME ViewInv, load_journals PROVE ViewInv'
<1> USE DEF ViewInv
<1>1. UNCHANGED vars
  BY DEF load_journals
<1>2. Inv'
  BY <1>1, NextInv
<1>3. /\ reading' = TRUE /\ view' = journal /\ todo' = Cwds
      /\ during' = [cwds |-> {current_cwd}, txs |-> InFlight]
      /\ all' = {} /\ persisted' = {}
  BY DEF load_journals
<1>4. /\ during'.cwds = {current_cwd} /\ during'.txs = InFlight
  BY <1>3
<1>5. current_cwd' = current_cwd /\ InFlight' = InFlight /\ nonces' = nonces
  BY <1>1 DEF vars, current_cwd, InFlight
<1>6. current_cwd \in Cwds /\ InFlight \subseteq 1..nonces
  BY CurrentIs DEF CurrentFacts
<1>7. ViewTypeOK'
  <2>1. nonces \in 0..MaxTx /\ journal \in Journals
    BY DEF Inv, TypeOK
  <2>2. InFlight \subseteq 1..MaxTx
    BY <1>6, <2>1, BoundAssumption
  <2> QED
    BY <1>2, <1>3, <1>6, <2>1, <2>2 DEF ViewTypeOK, Inv
<1>8. view'.phase # "none" =>
        view'.nonce \in during'.txs /\ authoritative_cwd(view') \in during'.cwds
  BY <1>3, <1>4, CurrentIs, Constants DEF CurrentFacts
<1>9. ASSUME view'.phase = "none" PROVE \E s, d \in Cwds : Traced(s, d)'
  <2>1. journal = NoJournal
    BY <1>3, <1>9, CurrentIs DEF CurrentFacts
  <2>2. InFlight = {} /\ \A c \in Cwds \ {current_cwd} : home[c] = NoDir
    BY <2>1, CurrentIs DEF CurrentFacts
  <2>3. PICK s \in Cwds : s = current_cwd
    BY <1>6
  <2>4. during'.cwds = {s} /\ during'.txs = {}
    BY <1>4, <2>2, <2>3
  <2>5. home' = home /\ s \in todo'
    BY <1>1, <1>3 DEF vars
  <2>6. Traced(s, s)'
    BY <1>3, <2>2, <2>3, <2>4, <2>5 DEF Traced
  <2> QED
    BY <2>6
<1>10. ReadInv'
  <2>1. current_cwd' \in during'.cwds /\ InFlight' \subseteq during'.txs
        /\ during'.txs \subseteq 1..nonces'
    BY <1>4, <1>5, <1>6
  <2>2. view'.phase = "none" => \E s, d \in Cwds : Traced(s, d)'
    BY <1>9
  <2> QED
    BY <1>8, <2>1, <2>2 DEF ReadInv
<1> QED
  BY <1>2, <1>3, <1>7, <1>10

\* Scanning a directory.
LEMMA ScanInv ==
  ASSUME ViewInv, NEW c \in Cwds, load_candidates(c) PROVE ViewInv'
<1> USE DEF ViewInv
<1>1. /\ UNCHANGED vars /\ reading = TRUE /\ reading' = TRUE
      /\ view' = view /\ during' = during
      /\ c \in todo /\ todo' = todo \ {c}
      /\ all' = IF home[c].kind = "none" THEN all ELSE all \cup {c}
      /\ persisted' = IF HasSummary(home[c]) THEN persisted \cup {c} ELSE persisted
  BY DEF load_candidates, ViewTypeOK
<1>2. Inv'
  BY <1>1, NextInv
<1>3. ViewTypeOK'
  <2>1. HasSummary(home[c]) => home[c].kind # "none"
    BY DEF HasSummary
  <2> QED
    BY <1>1, <1>2, <2>1 DEF ViewTypeOK, Inv
<1>4. current_cwd' = current_cwd /\ InFlight' = InFlight
  BY <1>1 DEF vars, current_cwd, InFlight
<1>5. UNCHANGED <<nonces, home, journal, djournal>>
  BY <1>1 DEF vars
<1>6. ReadInv
  BY <1>1
<1>7. ASSUME view'.phase = "none", AtMostOne(during'.txs)
      PROVE  \E s, d \in Cwds : Traced(s, d)'
  <2>1. PICK s \in Cwds, d \in Cwds : Traced(s, d)
    BY <1>1, <1>6, <1>7 DEF ReadInv
  <2>2. persisted' \subseteq {s, d}
    BY <1>1, <2>1, Constants DEF Traced
  <2>3. ASSUME during.cwds = {s} PROVE s \in todo' \cup persisted'
    <3>1. home[s].kind = "whole"
      BY <1>6, <2>3, CurrentIs DEF ReadInv, CurrentFacts
    <3>2. s = c => s \in persisted'
      BY <1>1, <3>1 DEF HasSummary
    <3>3. s \in todo \cup persisted
      BY <2>1, <2>3 DEF Traced
    <3> QED
      BY <1>1, <3>2, <3>3
  <2>4. Traced(s, d)'
    BY <1>1, <1>5, <2>1, <2>2, <2>3 DEF Traced
  <2> QED
    BY <2>4
<1>8. ReadInv'
  BY <1>1, <1>4, <1>5, <1>6, <1>7 DEF ReadInv
<1> QED
  BY <1>1, <1>2, <1>3, <1>8

\* Selecting a path ends the read.
LEMMA SelectInv == ASSUME ViewInv, select PROVE ViewInv'
<1> USE DEF ViewInv
<1>1. /\ UNCHANGED vars /\ reading' = FALSE /\ view' = NoJournal
      /\ todo' = todo /\ all' = {} /\ persisted' = {}
      /\ during' = [cwds |-> {}, txs |-> {}]
  BY DEF select
<1>2. Inv'
  BY <1>1, NextInv
<1>3. ViewTypeOK'
  BY <1>1, <1>2, Constants DEF ViewTypeOK, Inv
<1> QED
  BY <1>1, <1>2, <1>3

\* A step of the store keeps what a read found by then.
LEMMA BesideTraced ==
  ASSUME ViewInv, Inv', Beside, reading, view.phase = "none", AtMostOne(during'.txs)
  PROVE  \E s, d \in Cwds : Traced(s, d)'
<1> USE DEF ViewInv
<1>1. /\ Next /\ during'.cwds = during.cwds \cup {current_cwd'}
      /\ during'.txs = during.txs \cup InFlight'
      /\ UNCHANGED <<view, todo, persisted>>
  BY DEF Beside
<1>2. /\ current_cwd \in during.cwds
      /\ InFlight \subseteq during.txs /\ during.txs \subseteq 1..nonces
  BY DEF ReadInv
<1>3. AtMostOne(during.txs)
  BY <1>1 DEF AtMostOne
<1>4. PICK s \in Cwds, d \in Cwds : Traced(s, d)
  BY <1>3 DEF ReadInv
<1>5. CurrentFacts /\ CurrentFacts'
  BY CurrentIs, CurrentNext
<1>6. ASSUME NEW k \in {journal', djournal'}, k.nonce \in during.txs
      PROVE  {k.src, k.dst} = {s, d}
  <2>1. nonces \in Nat
    BY BoundAssumption DEF Inv, TypeOK
  <2>2. k.nonce # 0 /\ k.nonce # nonces + 1
    BY <1>2, <1>6, <2>1
  <2>3. PICK j \in {journal, djournal} :
          k.nonce = j.nonce /\ k.src = j.src /\ k.dst = j.dst
    BY <1>1, <2>2, Records DEF Known
  <2> QED
    BY <1>4, <1>6, <2>3 DEF Traced
<1>7. CASE journal' = NoJournal
  <2>1. InFlight' = {} /\ current_cwd' = current_cwd /\ home' = home
    BY <1>1, <1>5, <1>7, CurrentStill, HomeStill DEF CurrentFacts
  <2>2. during'.cwds = during.cwds /\ during'.txs = during.txs
    BY <1>1, <1>2, <2>1
  <2>3. Traced(s, d)'
    BY <1>1, <1>4, <1>6, <2>1, <2>2 DEF Traced
  <2> QED
    BY <2>3
<1>8. CASE journal' # NoJournal /\ during.txs = {}
  <2>1. d = s /\ during.cwds = {s} /\ persisted \subseteq {s}
    BY <1>4, <1>8 DEF Traced
  <2>2. journal = NoJournal
    BY <1>2, <1>5, <1>8 DEF CurrentFacts
  <2>3. current_cwd' = current_cwd /\ current_cwd = s /\ during'.cwds = {s}
    BY <1>1, <1>2, <2>1, <2>2, CurrentStill
  <2>4. /\ s \in {journal'.src, journal'.dst}
        /\ journal'.src \in Cwds /\ journal'.dst \in Cwds
        /\ during'.txs = {journal'.nonce} /\ journal'.nonce # 0
        /\ \A c \in Cwds \ {journal'.src, journal'.dst} : home'[c] = NoDir
    BY <1>1, <1>5, <1>8, <2>3 DEF CurrentFacts
  <2>5. PICK e \in Cwds : {journal'.src, journal'.dst} = {s, e}
    BY <2>4
  <2>6. djournal'.nonce = journal'.nonce =>
          djournal'.src = journal'.src /\ djournal'.dst = journal'.dst
    BY <1>5, <2>4 DEF CurrentFacts
  <2>7. s \in todo' \cup persisted'
    BY <1>1, <1>4, <2>1 DEF Traced
  <2>8. Traced(s, e)'
    BY <1>1, <2>1, <2>3, <2>4, <2>5, <2>6, <2>7 DEF Traced
  <2> QED
    BY <2>8
<1>9. CASE journal' # NoJournal /\ during.txs # {}
  <2>1. during'.txs = during.txs /\ journal'.nonce \in during.txs
    BY <1>1, <1>5, <1>9 DEF CurrentFacts, AtMostOne
  <2>2. {journal'.src, journal'.dst} = {s, d}
    BY <1>6, <2>1
  <2>3. current_cwd' \in {s, d} /\ \A c \in Cwds \ {s, d} : home'[c] = NoDir
    BY <1>5, <1>9, <2>2 DEF CurrentFacts
  <2>4. during'.cwds = {s} => during.cwds = {s}
    BY <1>1, <1>2
  <2>5. Traced(s, d)'
    BY <1>1, <1>4, <1>6, <1>9, <2>1, <2>3, <2>4 DEF Traced
  <2> QED
    BY <2>5
<1> QED
  BY <1>7, <1>8, <1>9

\* A step of the store preserves the invariant of a read.
LEMMA BesideInv == ASSUME ViewInv, Beside PROVE ViewInv'
<1> USE DEF ViewInv
<1>1. Next /\ UNCHANGED <<reading, view, todo, all, persisted>>
  BY DEF Beside
<1>2. Inv'
  BY <1>1, NextInv
<1>3. CurrentFacts'
  BY <1>2, CurrentNext
<1>4. current_cwd' \in Cwds /\ InFlight' \subseteq 1..nonces'
  BY <1>3 DEF CurrentFacts
<1>5. nonces \in Nat /\ nonces' \in {nonces, nonces + 1} /\ nonces' \in 0..MaxTx
  BY <1>1, <1>2, NoncesGrow, BoundAssumption DEF Inv, TypeOK
<1>6. CASE reading
  <2>1. /\ during' = [cwds |-> during.cwds \cup {current_cwd'},
                      txs |-> during.txs \cup InFlight']
        /\ during'.cwds = during.cwds \cup {current_cwd'}
        /\ during'.txs = during.txs \cup InFlight'
    BY <1>6 DEF Beside
  <2>2. ViewTypeOK'
    <3>1. /\ during.cwds \in SUBSET Cwds /\ during.txs \in SUBSET (1..MaxTx)
      BY DEF ViewTypeOK
    <3>2. InFlight' \subseteq 1..MaxTx
      BY <1>4, <1>5, BoundAssumption
    <3> QED
      BY <1>1, <1>2, <1>4, <2>1, <3>1, <3>2 DEF ViewTypeOK, Inv
  <2>3. during'.txs \subseteq 1..nonces'
    <3>1. 1..nonces \subseteq 1..nonces'
      BY <1>5
    <3>2. during.txs \subseteq 1..nonces
      BY <1>6 DEF ReadInv
    <3> QED
      BY <1>4, <2>1, <3>1, <3>2
  <2>4. view'.phase # "none" =>
          view'.nonce \in during'.txs /\ authoritative_cwd(view') \in during'.cwds
    BY <1>1, <1>6, <2>1 DEF ReadInv
  <2>5. view'.phase = "none" /\ AtMostOne(during'.txs) =>
          \E s, d \in Cwds : Traced(s, d)'
    BY <1>1, <1>2, <1>6, BesideTraced
  <2>6. ReadInv'
    BY <2>1, <2>3, <2>4, <2>5 DEF ReadInv
  <2> QED
    BY <1>1, <1>2, <1>6, <2>2, <2>6
<1>7. CASE ~reading
  <2>1. during' = during
    BY <1>7 DEF Beside
  <2> QED
    BY <1>1, <1>2, <1>7, <2>1 DEF ViewTypeOK, Inv
<1> QED
  BY <1>6, <1>7

(***************************************************************************)
(* Theorems                                                                *)
(***************************************************************************)
\* The invariant of a read is inductive.
LEMMA ViewNextInv == ASSUME ViewInv, [ViewNext]_vvars PROVE ViewInv'
<1>1. CASE ViewNext
  BY <1>1, BesideInv, LoadInv, ScanInv, SelectInv DEF ViewNext
<1>2. CASE UNCHANGED vvars
  <2>1. UNCHANGED vars /\ UNCHANGED reader
    BY <1>2 DEF vvars
  <2>2. Inv'
    BY <2>1, NextInv DEF ViewInv
  <2> QED
    BY <2>1, <2>2 DEF vars, reader, ViewInv, ViewTypeOK, Inv, ReadInv, Traced,
         current_cwd, InFlight
<1> QED
  BY <1>1, <1>2

\* The invariant of a read holds in every state of the store and its reader.
THEOREM ViewInvariance == ViewSpec => []ViewInv
<1>1. ViewInit => ViewInv
  <2> SUFFICES ASSUME ViewInit PROVE ViewInv
    OBVIOUS
  <2>1. Inv
    BY InitInv DEF ViewInit
  <2> QED
    BY <2>1, Constants DEF ViewInit, ViewInv, ViewTypeOK, Inv
<1>2. ViewInv /\ [ViewNext]_vvars => ViewInv'
  BY ViewNextInv
<1> QED
  BY <1>1, <1>2, PTL DEF ViewSpec

\* The store and its reader keep their types, whatever steps of running
\* relocations fall between two steps of the reader (load_journals, select).
THEOREM ViewTypeCorrect == ViewSpec => []ViewTypeOK
<1>1. ViewInv => ViewTypeOK
  BY DEF ViewInv
<1> QED
  BY ViewInvariance, <1>1, PTL

\* A set of nonces with at most one member in it is what it says.
LEMMA TwoRelocations ==
  ASSUME NEW S, S \subseteq 1..MaxTx, ~(Cardinality(S) > 1) PROVE AtMostOne(S)
<1>1. IsFiniteSet(S)
  <2>1. 1 \in Int /\ MaxTx \in Int
    BY BoundAssumption
  <2>2. IsFiniteSet(1..MaxTx)
    BY <2>1, FS_Interval
  <2> QED
    BY <2>2, FS_Subset
<1>2. SUFFICES ASSUME NEW m \in S, NEW n \in S, m # n PROVE FALSE
  BY DEF AtMostOne
<1>3. IsFiniteSet({m, n}) /\ Cardinality({m, n}) = 2
  <2>1. IsFiniteSet({m}) /\ Cardinality({m}) = 1
    BY FS_Singleton
  <2>2. {m, n} = {m} \cup {n}
    OBVIOUS
  <2> QED
    BY <1>2, <2>1, <2>2, FS_AddElement
<1>4. Cardinality({m, n}) <= Cardinality(S)
  BY <1>1, FS_Subset
<1>5. Cardinality(S) \in Nat
  BY <1>1, FS_CardinalityType
<1> QED
  BY <1>3, <1>4, <1>5

\* What select returns, in a state of the invariant.
LEMMA SelectedIsHome ==
  ASSUME ViewInv, reading, todo = {}, AtMostOne(during.txs)
  PROVE  selected \subseteq during.cwds
<1>1. CASE view.phase # "none"
  BY <1>1 DEF ViewInv, ReadInv, selected
<1>2. CASE view.phase = "none"
  <2>1. PICK s \in Cwds, d \in Cwds : Traced(s, d)
    BY <1>2 DEF ViewInv, ReadInv
  <2>2. SUFFICES ASSUME NEW c \in persisted, persisted = {c} PROVE c \in during.cwds
    BY <1>2 DEF selected
  <2> QED
    BY <2>1, <2>2 DEF Traced
<1> QED
  BY <1>1, <1>2

\* A path select returns was the session's home at some moment of the read,
\* unless two relocations ran during that one read.
THEOREM ReaderSound == ViewSpec => ReaderNotMisled
<1>1. ASSUME ViewInv, select
      PROVE  selected \subseteq during.cwds \/ Cardinality(during.txs) > 1
  <2>1. during.txs \subseteq 1..MaxTx /\ reading /\ todo = {}
    BY <1>1 DEF ViewInv, ViewTypeOK, select
  <2> QED
    BY <1>1, <2>1, TwoRelocations, SelectedIsHome
<1>2. ViewInv /\ [ViewNext]_vvars =>
        [select => selected \subseteq during.cwds \/ Cardinality(during.txs) > 1]_vvars
  BY <1>1
<1> QED
  BY ViewInvariance, <1>2, PTL DEF ViewSpec, ReaderNotMisled

\* select returns no path only if a relocation was under way at some moment of
\* the read: without one the scan, however long, finds the session.
THEOREM ReaderFinds == ViewSpec => MissedOnlyDuringRelocation
<1>1. ASSUME ViewInv, select, during.txs = {} PROVE selected # {}
  <2>1. reading /\ todo = {}
    BY <1>1 DEF select
  <2>2. ReadInv /\ view.phase = "none" /\ AtMostOne(during.txs)
    BY <1>1, <2>1 DEF ViewInv, ReadInv, AtMostOne
  <2>3. PICK s \in Cwds, d \in Cwds : Traced(s, d)
    BY <2>2 DEF ReadInv
  <2>4. persisted = {s}
    BY <1>1, <2>1, <2>3 DEF Traced
  <2> QED
    BY <2>2, <2>4 DEF selected
<1>2. ViewInv /\ [ViewNext]_vvars =>
        [select /\ selected = {} => during.txs # {}]_vvars
  BY <1>1
<1> QED
  BY ViewInvariance, <1>2, PTL DEF ViewSpec, MissedOnlyDuringRelocation

\* The reader takes no lease and writes nothing: a store that is read behaves
\* as one that is not, so that what is proved of Spec holds beside readers.
THEOREM ReaderDisturbsNothing == ViewSpec => Spec
<1>1. ViewInit => Init
  BY DEF ViewInit
<1>2. [ViewNext]_vvars => [Next]_vars
  BY DEF ViewNext, Beside, load_journals, load_candidates, select, vvars
<1> QED
  BY <1>1, <1>2, PTL DEF ViewSpec, Spec
=============================================================================
