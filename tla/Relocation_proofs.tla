--------------------------- MODULE Relocation_proofs ---------------------------
(***************************************************************************)
(* Safety of relocation for every set of processes and working directories *)
(* and every number of transactions and faults: the inductive invariant,   *)
(* what follows from it about the session's copies and about recovery, and *)
(* that the durable state implements SessionHome.                          *)
(***************************************************************************)
EXTENDS Relocation, TLAPS

Stores == [Cwds -> Dirs]

(***************************************************************************)
(* Directories                                                             *)
(***************************************************************************)
\* The constants the model builds its state from have their types.
LEMMA Constants ==
  /\ NoDir \in Dirs /\ Stub \in Dirs /\ NoJournal \in Journals
  /\ NoJournal.phase = "none" /\ NoJournal.nonce = 0
  /\ NoDir.kind = "none" /\ ~HasSummary(NoDir) /\ ~HasSummary(Stub)
BY BoundAssumption DEF NoDir, Stub, NoJournal, Dirs, Kinds, Journals, HasSummary

\* A journal's target copy is a directory.
LEMMA TargetType ==
  ASSUME NEW j \in Journals
  PROVE  /\ Target(j) \in Dirs /\ Target(j).kind = "whole" /\ HasSummary(Target(j))
         /\ Target(j).gen = j.gen /\ Target(j).prev = j.src /\ Target(j) # NoDir
BY DEF Target, Dirs, Kinds, Journals, HasSummary, NoDir

\* What an interrupted removal leaves is a directory.
LEMMA LeftoverType ==
  ASSUME NEW d \in Dirs, NEW x \in Leftover(d)
  PROVE  x \in Dirs
BY Constants DEF Leftover, Dirs, Kinds

\* There is nothing to leave of nothing.
LEMMA LeftoverNone == ASSUME NEW x \in Leftover(NoDir) PROVE x = NoDir
BY Constants DEF Leftover

\* An interrupted removal leaves something rollback can find at the target.
LEMMA LeftoverLike ==
  ASSUME NEW j \in Journals, NEW d \in Dirs, TargetLike(j, d), NEW x \in Leftover(d)
  PROVE  TargetLike(j, x)
BY Constants DEF Leftover, TargetLike, HasSummary, Dirs, NoDir, Stub

\* A power loss leaves a directory, and leaves alone what was synced.
LEMMA SurvivorsType ==
  ASSUME NEW cur \in Dirs, NEW dur \in Dirs, NEW x \in Survivors(cur, dur)
  PROVE  x \in Dirs /\ (cur = dur => x = cur)
BY LeftoverType DEF Survivors

\* A power loss leaves something rollback can find at the target.
LEMMA SurvivorsLike ==
  ASSUME NEW j \in Journals, NEW cur \in Dirs, NEW dur \in Dirs,
         TargetLike(j, cur), TargetLike(j, dur), NEW x \in Survivors(cur, dur)
  PROVE  TargetLike(j, x)
BY LeftoverLike DEF Survivors

\* A power loss leaves a store whose entries are survivors.
LEMMA SurvivingType ==
  ASSUME NEW cur \in Stores, NEW dur \in Stores, NEW f \in Surviving(cur, dur)
  PROVE  f \in Stores /\ \A c \in Cwds : f[c] \in Survivors(cur[c], dur[c])
<1>1. \A c \in Cwds : f[c] \in Survivors(cur[c], dur[c])
  BY DEF Surviving
<1>2. \A c \in Cwds : f[c] \in Dirs
  BY <1>1, SurvivorsType DEF Stores
<1>3. DOMAIN f = Cwds /\ f = [c \in Cwds |-> f[c]]
  BY DEF Surviving
<1> QED
  BY <1>1, <1>2, <1>3 DEF Stores

\* A store that was synced everywhere survives unchanged.
LEMMA SurvivingSynced ==
  ASSUME NEW cur \in Stores, NEW f \in Surviving(cur, cur)
  PROVE  f = cur
<1>1. f \in Stores /\ \A c \in Cwds : f[c] \in Survivors(cur[c], cur[c])
  BY SurvivingType
<1>2. \A c \in Cwds : f[c] = cur[c]
  BY <1>1, SurvivorsType DEF Stores
<1> QED
  BY <1>1, <1>2 DEF Stores

(***************************************************************************)
(* Removals and power losses keep a journal consistent                     *)
(***************************************************************************)
\* In a settled store the session's directory is the only one, so that every
\* journal consistent with it gives authority to the same directory.
LEMMA SettledHome ==
  ASSUME NEW j \in Journals, NEW h \in Stores, NEW dh \in Stores,
         NEW s \in Stores, NEW ds \in Stores,
         Consistent(j, h, dh, s, ds), Settled(h, dh, s, ds)
  PROVE  /\ \A c \in Cwds : h[c].kind # "none" <=> c = authoritative_cwd(j)
         /\ \A c \in Cwds \ {authoritative_cwd(j)} : h[c] = NoDir
         /\ authoritative_cwd(j) \in Cwds
<1>1. authoritative_cwd(j) \in Cwds /\ h[authoritative_cwd(j)].kind = "whole"
  BY TargetType DEF Consistent, authoritative_cwd, Whole
<1>2. PICK c \in Cwds : h[c].kind = "whole" /\ \A d \in Cwds \ {c} : h[d] = NoDir
  BY DEF Settled, OnlyHome
<1>3. c = authoritative_cwd(j)
  BY <1>1, <1>2, Constants
<1> QED
  BY <1>1, <1>2, <1>3, Constants

\* Removing the staging directory.
LEMMA RemoveStagingKeeps ==
  ASSUME NEW j \in Journals, NEW h \in Stores, NEW dh \in Stores,
         NEW s \in Stores, NEW ds \in Stores, Consistent(j, h, dh, s, ds)
  PROVE  Consistent(j, h, [dh EXCEPT ![j.dst] = h[j.dst]],
                    [s EXCEPT ![j.dst] = NoDir], [ds EXCEPT ![j.dst] = NoDir])
<1> DEFINE dh2 == [dh EXCEPT ![j.dst] = h[j.dst]]
           s2 == [s EXCEPT ![j.dst] = NoDir]
           ds2 == [ds EXCEPT ![j.dst] = NoDir]
<1>1. ASSUME Settled(h, dh, s, ds) PROVE dh2 = dh /\ s2 = s /\ ds2 = ds
  BY <1>1 DEF Settled, Consistent, Stores
<1>2. j.phase \in Terminal => Settled(h, dh2, s2, ds2)
  BY <1>1 DEF Consistent
<1> QED
  BY <1>2 DEF Consistent, Stores

\* Removing the staging directory part way.
LEMMA RemoveStagingFailsKeeps ==
  ASSUME NEW j \in Journals, NEW h \in Stores, NEW dh \in Stores,
         NEW s \in Stores, NEW ds \in Stores, Consistent(j, h, dh, s, ds),
         NEW x \in Leftover(s[j.dst])
  PROVE  Consistent(j, h, dh, [s EXCEPT ![j.dst] = x], ds)
<1>1. ASSUME Settled(h, dh, s, ds) PROVE [s EXCEPT ![j.dst] = x] = s
  BY <1>1, LeftoverNone DEF Settled, Consistent, Stores
<1>2. j.phase \in Terminal => Settled(h, dh, [s EXCEPT ![j.dst] = x], ds)
  BY <1>1 DEF Consistent
<1> QED
  BY <1>2 DEF Consistent, Stores

\* Removing the target while the source has authority.
LEMMA RemoveTargetKeeps ==
  ASSUME NEW j \in Journals, NEW h \in Stores, NEW dh \in Stores,
         NEW s \in Stores, NEW ds \in Stores, Consistent(j, h, dh, s, ds),
         ~has_target_authority(j)
  PROVE  Consistent(j, [h EXCEPT ![j.dst] = NoDir], [dh EXCEPT ![j.dst] = NoDir],
                    s, [ds EXCEPT ![j.dst] = s[j.dst]])
<1>1. ASSUME Settled(h, dh, s, ds)
      PROVE  /\ [h EXCEPT ![j.dst] = NoDir] = h /\ [dh EXCEPT ![j.dst] = NoDir] = dh
             /\ [ds EXCEPT ![j.dst] = s[j.dst]] = ds
  <2>1. h[j.dst] = NoDir /\ dh[j.dst] = NoDir
    BY <1>1, SettledHome DEF Settled, Consistent, authoritative_cwd
  <2> QED
    BY <1>1, <2>1 DEF Settled, Stores
<1>2. j.phase \in Terminal =>
        Settled([h EXCEPT ![j.dst] = NoDir], [dh EXCEPT ![j.dst] = NoDir],
                s, [ds EXCEPT ![j.dst] = s[j.dst]])
  BY <1>1 DEF Consistent
<1>3. TargetLike(j, NoDir)
  BY DEF TargetLike
<1> QED
  BY <1>2, <1>3 DEF Consistent, Stores

\* Removing the target part way.
LEMMA RemoveTargetFailsKeeps ==
  ASSUME NEW j \in Journals, NEW h \in Stores, NEW dh \in Stores,
         NEW s \in Stores, NEW ds \in Stores, Consistent(j, h, dh, s, ds),
         ~has_target_authority(j), NEW x \in Leftover(h[j.dst])
  PROVE  Consistent(j, [h EXCEPT ![j.dst] = x], dh, s, ds)
<1>1. ASSUME Settled(h, dh, s, ds) PROVE [h EXCEPT ![j.dst] = x] = h
  <2>1. h[j.dst] = NoDir
    BY <1>1, SettledHome DEF Settled, Consistent, authoritative_cwd
  <2> QED
    BY <1>1, <2>1, LeftoverNone DEF Settled, Stores
<1>2. j.phase \in Terminal => Settled([h EXCEPT ![j.dst] = x], dh, s, ds)
  BY <1>1 DEF Consistent
<1>3. TargetLike(j, x)
  BY LeftoverLike DEF Consistent, Stores
<1> QED
  BY <1>2, <1>3 DEF Consistent, Stores

\* Removing the source once the target has authority.
LEMMA RemoveSourceKeeps ==
  ASSUME NEW j \in Journals, NEW h \in Stores, NEW dh \in Stores,
         NEW s \in Stores, NEW ds \in Stores, Consistent(j, h, dh, s, ds),
         has_target_authority(j)
  PROVE  Consistent(j, [h EXCEPT ![j.src] = NoDir], [dh EXCEPT ![j.src] = NoDir],
                    s, [ds EXCEPT ![j.src] = s[j.src]])
<1>1. ASSUME Settled(h, dh, s, ds)
      PROVE  /\ [h EXCEPT ![j.src] = NoDir] = h /\ [dh EXCEPT ![j.src] = NoDir] = dh
             /\ [ds EXCEPT ![j.src] = s[j.src]] = ds
  <2>1. h[j.src] = NoDir /\ dh[j.src] = NoDir
    BY <1>1, SettledHome DEF Settled, Consistent, authoritative_cwd
  <2> QED
    BY <1>1, <2>1 DEF Settled, Stores
<1>2. j.phase \in Terminal =>
        Settled([h EXCEPT ![j.src] = NoDir], [dh EXCEPT ![j.src] = NoDir],
                s, [ds EXCEPT ![j.src] = s[j.src]])
  BY <1>1 DEF Consistent
<1> QED
  BY <1>2 DEF Consistent, Stores

\* Removing the source part way.
LEMMA RemoveSourceFailsKeeps ==
  ASSUME NEW j \in Journals, NEW h \in Stores, NEW dh \in Stores,
         NEW s \in Stores, NEW ds \in Stores, Consistent(j, h, dh, s, ds),
         has_target_authority(j), NEW x \in Leftover(h[j.src])
  PROVE  Consistent(j, [h EXCEPT ![j.src] = x], dh, s, ds)
<1>1. ASSUME Settled(h, dh, s, ds) PROVE [h EXCEPT ![j.src] = x] = h
  <2>1. h[j.src] = NoDir
    BY <1>1, SettledHome DEF Settled, Consistent, authoritative_cwd
  <2> QED
    BY <1>1, <2>1, LeftoverNone DEF Settled, Stores
<1>2. j.phase \in Terminal => Settled([h EXCEPT ![j.src] = x], dh, s, ds)
  BY <1>1 DEF Consistent
<1> QED
  BY <1>2 DEF Consistent, Stores

\* Losing power.
LEMMA PowerLossKeeps ==
  ASSUME NEW j \in Journals, NEW h \in Stores, NEW dh \in Stores,
         NEW s \in Stores, NEW ds \in Stores, Consistent(j, h, dh, s, ds),
         NEW h2 \in Surviving(h, dh), NEW s2 \in Surviving(s, ds)
  PROVE  Consistent(j, h2, h2, s2, s2)
<1>1. /\ h2 \in Stores /\ s2 \in Stores
      /\ \A c \in Cwds : h2[c] \in Survivors(h[c], dh[c]) /\ (h[c] = dh[c] => h2[c] = h[c])
      /\ \A c \in Cwds : s[c] = ds[c] => s2[c] = s[c]
  BY SurvivingType, SurvivorsType DEF Stores
<1>2. j.phase \in Terminal => Settled(h2, h2, s2, s2)
  BY SurvivingSynced DEF Consistent, Settled
<1>3. ~has_target_authority(j) => TargetLike(j, h2[j.dst])
  BY <1>1, SurvivorsLike DEF Consistent, Stores
<1> QED
  BY <1>1, <1>2, <1>3 DEF Consistent, Whole

(***************************************************************************)
(* Facts the action proofs share                                           *)
(***************************************************************************)
\* Advancing a journal's phase changes nothing else of it.
LEMMA PhaseType ==
  ASSUME NEW j \in Journals, NEW ph \in Phases, NEW k, k = [j EXCEPT !.phase = ph]
  PROVE  /\ k \in Journals /\ k.phase = ph /\ ph # "none" /\ k # NoJournal
         /\ k.nonce = j.nonce /\ k.gen = j.gen /\ k.src = j.src /\ k.dst = j.dst
         /\ Target(k) = Target(j)
BY DEF Journals, Phases, SourceAuthority, TargetAuthority, NoJournal, Target

\* Who holds the lease is alone.
LEMMA Alone ==
  ASSUME Inv, NEW p \in Procs, lease \in {p, NoProc},
         NEW q \in Procs, q # p
  PROVE  pc[q] \in {"idle", "listed"} /\ handle[q] = 0
BY ProcAssumption DEF Inv, TypeOK, CallInv, HandleInv

\* A step of the holder of the lease does not concern the others.
LEMMA Bystanders ==
  ASSUME Inv, NEW p \in Procs, lease \in {p, NoProc},
         \A q \in Procs \ {p} : pc'[q] = pc[q] /\ handle'[q] = handle[q]
  PROVE  \A q \in Procs \ {p} : CallInv(q)' /\ HandleInv(q)'
<1> TAKE q \in Procs \ {p}
<1>1. pc'[q] \in {"idle", "listed"} /\ handle'[q] = 0
  BY Alone
<1> QED
  BY <1>1 DEF CallInv, HandleInv, Calls

\* A process in a call holds the lease and works on the current journal.
LEMMA InCall ==
  ASSUME Inv, NEW p \in Procs, pc[p] \in Calls
  PROVE  /\ lease = p /\ loc[p] = journal /\ Continues(djournal, journal)
         /\ journal # NoJournal /\ djournal # NoJournal
         /\ Consistent(journal, home, dhome, stage, dstage)
         /\ Consistent(djournal, home, dhome, stage, dstage)
         /\ journal = djournal \/ djournal.phase \notin Terminal
         /\ djournal.src = journal.src /\ djournal.dst = journal.dst
<1>1. lease = p /\ loc[p] = journal /\ Continues(djournal, journal)
  BY DEF Inv, CallInv, Calls
<1>2. journal # NoJournal /\ djournal # NoJournal
  BY <1>1, Constants DEF Continues
<1>3. /\ Consistent(journal, home, dhome, stage, dstage)
      /\ Consistent(djournal, home, dhome, stage, dstage)
  BY <1>2 DEF Inv, JournalsInv
<1>4. journal = djournal \/ djournal.phase \notin Terminal
  <2>1. djournal.nonce = journal.nonce /\ djournal.nonce \in Nat
    BY <1>1, BoundAssumption DEF Continues, Inv, TypeOK, Journals
  <2> QED
    BY <1>2, <2>1 DEF Inv, JournalsInv
<1> QED
  BY <1>1, <1>2, <1>3, <1>4 DEF Continues

\* The stores have their type.
LEMMA StoreTypes ==
  ASSUME Inv
  PROVE  /\ journal \in Journals /\ djournal \in Journals
         /\ home \in Stores /\ dhome \in Stores /\ stage \in Stores /\ dstage \in Stores
BY DEF Inv, TypeOK, Stores

(***************************************************************************)
(* Leases                                                                  *)
(***************************************************************************)
\* Taking the lease for a caller.
LEMMA AcquireInv == ASSUME Inv, NEW p \in Procs, Acquire(p) PROVE Inv'
<1> USE DEF Acquire, Goto, store
<1>1. TypeOK'
  BY BoundAssumption DEF Inv, TypeOK
<1>2. JournalsInv'
  BY BoundAssumption DEF Inv, TypeOK, JournalsInv, SettledNow, Journals
<1>3. \A q \in Procs \ {p} : CallInv(q)' /\ HandleInv(q)'
  BY Bystanders DEF Inv, TypeOK
<1>4. CallInv(p)' /\ HandleInv(p)'
  <2>1. pc'[p] = "held" /\ lease' = p
    BY DEF Inv, TypeOK
  <2>2. handle'[p] = 0
    BY ProcAssumption DEF Inv, HandleInv
  <2> QED
    BY <2>1, <2>2 DEF CallInv, HandleInv, Calls
<1> QED
  BY <1>1, <1>2, <1>3, <1>4 DEF Inv

\* Dropping it.
LEMMA ReleaseInv == ASSUME Inv, NEW p \in Procs, Release(p) PROVE Inv'
<1> USE DEF Release, Goto, store
<1>0. lease = p
  BY DEF Inv, CallInv
<1>1. TypeOK'
  BY BoundAssumption, Constants DEF Inv, TypeOK
<1>2. JournalsInv'
  BY DEF Inv, JournalsInv, SettledNow
<1>3. \A q \in Procs \ {p} : CallInv(q)' /\ HandleInv(q)'
  BY <1>0, Bystanders DEF Inv, TypeOK
<1>4. CallInv(p)' /\ HandleInv(p)'
  <2>1. pc'[p] = "idle" /\ handle'[p] = 0
    BY DEF Inv, TypeOK
  <2> QED
    BY <2>1 DEF CallInv, HandleInv, Calls
<1> QED
  BY <1>1, <1>2, <1>3, <1>4 DEF Inv

(***************************************************************************)
(* stage_and_publish                                                       *)
(***************************************************************************)
\* The Prepared record is consistent with the settled store it starts from.
LEMMA PreparedConsistent ==
  ASSUME Inv, journal.phase = "none", nonces < MaxTx,
         NEW src \in Cwds, NEW dst \in Cwds, src # dst, HasSummary(home[src]),
         NEW j, j = NewJournal(src, dst, nonces + 1)
  PROVE  /\ j \in Journals /\ j # NoJournal /\ j.phase = "Prepared"
         /\ j.nonce = nonces + 1 /\ SettledNow
         /\ Consistent(j, home, dhome, stage, dstage)
<1>1. journal = NoJournal
  BY DEF Inv, JournalsInv, Consistent
<1>2. SettledNow
  BY <1>1 DEF Inv, JournalsInv
<1>3. home[src] \in Dirs /\ home[src].gen \in Nat
  BY StoreTypes DEF Stores, Dirs
<1>4. j \in Journals /\ j # NoJournal
  BY <1>3, BoundAssumption
     DEF NewJournal, Journals, Phases, SourceAuthority, NoJournal, Inv, TypeOK
<1>5. /\ j.phase = "Prepared" /\ j.src = src /\ j.dst = dst /\ j.gen = home[src].gen + 1
      /\ j.nonce = nonces + 1
  BY DEF NewJournal
<1>6. /\ home[src].kind = "whole" /\ \A c \in Cwds \ {src} : home[c] = NoDir
      /\ home = dhome /\ \A c \in Cwds : stage[c] = NoDir /\ dstage[c] = NoDir
  BY <1>2, Constants DEF SettledNow, Settled, OnlyHome
<1>7. ~has_target_authority(j) /\ j.phase \notin Terminal
  BY <1>5 DEF has_target_authority, TargetAuthority, Terminal
<1>8. Whole(home[src], j.gen - 1) /\ j.gen # 0 /\ j.nonce # 0
  BY <1>3, <1>5, <1>6, BoundAssumption DEF Whole, Inv, TypeOK
<1>9. TargetLike(j, home[dst])
  BY <1>6 DEF TargetLike
<1> QED
  BY <1>2, <1>4, <1>5, <1>6, <1>7, <1>8, <1>9 DEF Consistent

\* Writing the Prepared record.
LEMMA PrepareInv == ASSUME Inv, NEW p \in Procs, Prepare(p) PROVE Inv'
<1> USE DEF Goto, Run, ReturnError, directories
<1>0. lease = p /\ pc[p] = "held" /\ nonces' = nonces + 1 /\ nonces \in Nat
  BY BoundAssumption DEF Prepare, Inv, CallInv, TypeOK
<1>1. PICK src \in Cwds, dst \in Cwds :
        /\ src # dst /\ HasSummary(home[src])
        /\ \/ /\ Works /\ WriteJournal(NewJournal(src, dst, nonces + 1))
              /\ Run(p, "copy", NewJournal(src, dst, nonces + 1))
           \/ /\ Fails /\ WriteJournalFails(NewJournal(src, dst, nonces + 1))
              /\ ReturnError(p)
  BY Zenon DEF Prepare
<1> DEFINE j == NewJournal(src, dst, nonces + 1)
<1> HIDE DEF j
<1>2. /\ j \in Journals /\ j # NoJournal /\ j.phase = "Prepared"
      /\ j.nonce = nonces + 1 /\ SettledNow
      /\ Consistent(j, home, dhome, stage, dstage)
  BY <1>1, PreparedConsistent DEF j, Prepare
<1>3. \/ Works /\ WriteJournal(j) /\ Run(p, "copy", j)
      \/ Fails /\ WriteJournalFails(j) /\ ReturnError(p)
  BY <1>1 DEF j
<1>4. UNCHANGED <<home, dhome, stage, dstage, lease, auto, handle, undoing, proof>>
  BY DEF Prepare
<1>5. TypeOK'
  <2>1. journal' \in Journals /\ djournal' \in Journals
    BY <1>2, <1>3, StoreTypes DEF WriteJournal, WriteJournalFails
  <2>2. loc' \in [Procs -> Journals]
    BY <1>2, <1>3, Constants DEF Inv, TypeOK
  <2>3. pc' \in [Procs -> Calls \cup {"idle", "listed", "held", "recover", "finalize", "leave"}]
    BY <1>3 DEF Inv, TypeOK, Calls
  <2>4. nonces' \in 0..MaxTx /\ faults' \in 0..MaxFaults
    BY <1>0, <1>3, BoundAssumption DEF Works, Fails, Inv, TypeOK, Prepare
  <2> QED
    BY <1>4, <2>1, <2>2, <2>3, <2>4 DEF Inv, TypeOK
<1>6. JournalsInv'
  <2>1. SettledNow'
    BY <1>2, <1>4 DEF SettledNow
  <2>2. journal = NoJournal
    BY DEF Prepare, Inv, JournalsInv, Consistent
  <2>3. journal' \in {journal, j} /\ djournal' \in {djournal, j}
    BY <1>3 DEF WriteJournal, WriteJournalFails
  <2>4. journal' = j \/ (journal' = journal /\ djournal' = djournal)
    BY <1>3 DEF WriteJournal, WriteJournalFails
  <2>5. djournal.nonce \in Nat /\ djournal.nonce <= nonces /\ journal.nonce = 0
    BY <2>2, Constants, StoreTypes DEF Inv, JournalsInv, Journals
  <2>6. /\ journal' # NoJournal => Consistent(journal', home', dhome', stage', dstage')
        /\ djournal' # NoJournal => Consistent(djournal', home', dhome', stage', dstage')
    BY <1>2, <1>4, <2>2, <2>3 DEF Inv, JournalsInv
  <2>7. \/ journal' = NoJournal
        \/ journal' = djournal'
        \/ journal'.phase = "Prepared" /\ djournal'.nonce < journal'.nonce
    BY <1>0, <1>2, <2>2, <2>3, <2>4, <2>5
  <2>8. journal'.nonce <= nonces' /\ djournal'.nonce <= nonces'
    BY <1>0, <1>2, <2>3, <2>5
  <2> QED
    BY <2>1, <2>6, <2>7, <2>8 DEF JournalsInv
<1>7. \A q \in Procs \ {p} : CallInv(q)' /\ HandleInv(q)'
  BY <1>0, <1>3, <1>4, Bystanders DEF Inv, TypeOK
<1>8. CallInv(p)'
  <2>1. CASE pc'[p] = "copy"
    <3>1. loc'[p] = j /\ journal' = j /\ djournal' = j
      BY <1>3, <2>1 DEF WriteJournal, Inv, TypeOK
    <3>2. Continues(j, j)
      BY <1>2 DEF Continues
    <3> QED
      BY <1>0, <1>2, <1>4, <2>1, <3>1, <3>2 DEF CallInv
  <2>2. CASE pc'[p] \in {"held", "leave"}
    BY <1>0, <1>4, <2>2 DEF CallInv, Calls
  <2> QED
    BY <1>3, <2>1, <2>2 DEF Inv, TypeOK
<1>9. HandleInv(p)'
  <2>1. handle[p] # 0 => handle[p] <= nonces /\ handle[p] \in Nat
    BY BoundAssumption DEF Inv, HandleInv, TypeOK
  <2>2. handle[p] # 0 => journal'.phase = "none" \/ journal'.nonce = nonces + 1
    BY <1>2, <1>3 DEF WriteJournal, WriteJournalFails, Prepare
  <2>3. handle[p] # 0 => ~Matches(p)'
    BY <1>0, <1>4, <2>1, <2>2 DEF Matches
  <2> QED
    BY <1>0, <1>4, <2>1, <2>3 DEF HandleInv
<1> QED
  BY <1>5, <1>6, <1>7, <1>8, <1>9 DEF Inv

(***************************************************************************)
(* Steps of a call                                                         *)
(***************************************************************************)
Places == Calls \cup {"idle", "listed", "held", "recover", "finalize", "leave"}

\* The fault count stays within its bound.
LEMMA FaultType == ASSUME TypeOK, Works \/ Fails PROVE faults' \in 0..MaxFaults
BY BoundAssumption DEF TypeOK, Works, Fails

\* Where a step leaves its process.
LEMMA GotoType ==
  ASSUME TypeOK, NEW p \in Procs, NEW l \in Places, Goto(p, l)
  PROVE  pc' \in [Procs -> Places] /\ pc'[p] = l /\ \A q \in Procs \ {p} : pc'[q] = pc[q]
BY DEF TypeOK, Goto, Places

\* Where a step that sets the call's record leaves its process.
LEMMA RunType ==
  ASSUME TypeOK, NEW p \in Procs, NEW l \in Places, NEW j \in Journals, Run(p, l, j)
  PROVE  /\ pc' \in [Procs -> Places] /\ pc'[p] = l
         /\ \A q \in Procs \ {p} : pc'[q] = pc[q]
         /\ loc' \in [Procs -> Journals] /\ loc'[p] = j
BY GotoType DEF TypeOK, Run

\* Where an error leaves its process.
LEMMA ErrorType ==
  ASSUME TypeOK, NEW p \in Procs, ReturnError(p)
  PROVE  /\ pc' \in [Procs -> Places] /\ pc'[p] \in {"held", "leave"}
         /\ \A q \in Procs \ {p} : pc'[q] = pc[q]
         /\ loc' \in [Procs -> Journals]
BY RunType, Constants DEF ReturnError, Places

\* Where a proof leaves its process.
LEMMA ProofType ==
  ASSUME TypeOK, NEW p \in Procs, NEW j \in Journals, ReturnProof(p, j)
  PROVE  /\ pc' \in [Procs -> Places] /\ pc'[p] \in {"held", "finalize"}
         /\ \A q \in Procs \ {p} : pc'[q] = pc[q]
         /\ loc' \in [Procs -> Journals] /\ proof' \in [Procs -> Journals]
BY RunType, Constants DEF ReturnProof, Places, TypeOK

\* Outside a call a process relies on nothing but its lease.
LEMMA NotInCall ==
  ASSUME NEW p \in Procs, lease' = p, pc'[p] \notin Calls
  PROVE  CallInv(p)'
BY DEF CallInv, Calls

\* What a step inside a call owes to the journals.
LEMMA JournalsStep ==
  ASSUME NEW j, NEW d, journal' = j, djournal' = d,
         Consistent(j, home', dhome', stage', dstage'),
         Consistent(d, home', dhome', stage', dstage'),
         Continues(d, j), j = d \/ d.phase \notin Terminal,
         j.nonce <= nonces', j # NoJournal, d # NoJournal
  PROVE  JournalsInv'
BY DEF JournalsInv, Continues

\* What a step inside a call owes to the handle its process holds.
LEMMA HandleStep ==
  ASSUME Inv, NEW p \in Procs, UNCHANGED <<lease, handle, undoing, nonces>>,
         NEW j, NEW d, journal' = j, djournal' = d,
         journal.phase # "none", j.nonce = journal.nonce, Continues(d, j),
         journal.phase \notin {"Prepared", "Staged"} =>
           /\ j.phase \notin {"Prepared", "Staged"}
           /\ j.phase = "TargetPublished" /\ ~undoing[p] =>
                home'[j.dst] = Target(j) /\ dhome'[j.dst] = Target(j)
  PROVE  HandleInv(p)'
<1>1. CASE handle[p] = 0
  BY <1>1 DEF HandleInv
<1>2. CASE handle[p] # 0 /\ ~Matches(p)
  BY <1>2 DEF HandleInv, Matches, Inv
<1>3. CASE handle[p] # 0 /\ Matches(p)
  BY <1>3 DEF HandleInv, Matches, Inv
<1> QED
  BY <1>1, <1>2, <1>3

\* A transaction that is not over may change its staging directory.
LEMMA StageChange ==
  ASSUME NEW j \in Journals, NEW h \in Stores, NEW dh \in Stores,
         NEW s \in Stores, NEW ds \in Stores, Consistent(j, h, dh, s, ds),
         j.phase \notin Terminal, NEW x \in Dirs, NEW y \in Dirs
  PROVE  Consistent(j, h, dh, [s EXCEPT ![j.dst] = x], [ds EXCEPT ![j.dst] = y])
BY DEF Consistent, Stores

\* Before the target has authority it may change its target directory.
LEMMA TargetChange ==
  ASSUME NEW j \in Journals, NEW h \in Stores, NEW dh \in Stores,
         NEW s \in Stores, NEW ds \in Stores, Consistent(j, h, dh, s, ds),
         j.phase \notin Terminal, ~has_target_authority(j),
         NEW x, NEW y, TargetLike(j, x), TargetLike(j, y)
  PROVE  Consistent(j, [h EXCEPT ![j.dst] = x], [dh EXCEPT ![j.dst] = y], s, ds)
BY DEF Consistent, Stores

\* A later record of the same transaction with the same authority is
\* consistent with the same store.
LEMMA SameAuthority ==
  ASSUME NEW j \in Journals, NEW h \in Stores, NEW dh \in Stores,
         NEW s \in Stores, NEW ds \in Stores, Consistent(j, h, dh, s, ds),
         NEW ph \in Phases, ph \in Terminal => Settled(h, dh, s, ds),
         NEW k, k = [j EXCEPT !.phase = ph],
         has_target_authority(j) <=> ph \in TargetAuthority
  PROVE  Consistent(k, h, dh, s, ds) /\ Continues(j, k)
<1>1. /\ k \in Journals /\ k.phase = ph /\ ph # "none" /\ k.nonce = j.nonce
      /\ k.gen = j.gen /\ k.src = j.src /\ k.dst = j.dst /\ Target(k) = Target(j)
  BY PhaseType
<1>2. \A d : TargetLike(j, d) <=> TargetLike(k, d)
  BY <1>1 DEF TargetLike
<1>3. has_target_authority(k) <=> has_target_authority(j)
  BY <1>1 DEF has_target_authority
<1> QED
  BY <1>1, <1>2, <1>3 DEF Consistent, Continues

\* Copying to the staging directory.
LEMMA CopyInv == ASSUME Inv, NEW p \in Procs, Copy(p) PROVE Inv'
<1> USE DEF callers
<1>0. /\ pc[p] = "copy" /\ pc[p] \in Calls
      /\ UNCHANGED <<journal, djournal, home, dhome, loc, proof, lease, auto,
                     handle, undoing, nonces>>
  BY DEF Copy, Calls
<1>1. /\ lease = p /\ loc[p] = journal /\ Continues(djournal, journal)
      /\ journal # NoJournal /\ journal = djournal /\ journal.phase = "Prepared"
      /\ Consistent(journal, home, dhome, stage, dstage)
  BY <1>0, InCall DEF Inv, CallInv
<1>2. journal.phase \notin Terminal /\ ~has_target_authority(journal) /\ journal.dst \in Cwds
  BY <1>1 DEF Terminal, has_target_authority, TargetAuthority, Consistent
<1> DEFINE copied == [kind |-> home[journal.src].kind, gen |-> journal.gen, prev |-> journal.src]
<1>3. copied = Target(journal)
  BY <1>1, <1>2 DEF Consistent, Whole, Target
<1>4. PICK x \in Dirs, y \in Dirs :
        /\ stage' = [stage EXCEPT ![journal.dst] = x]
        /\ dstage' = [dstage EXCEPT ![journal.dst] = y]
        /\ \/ Works /\ x = Target(journal) /\ y = Target(journal) /\ Goto(p, "write_staged")
           \/ Fails /\ Goto(p, "rollback_staging")
  <2>1. Target(journal) \in Dirs
    BY TargetType, StoreTypes
  <2>2. CASE /\ Works
             /\ stage' = [stage EXCEPT ![journal.dst] = copied]
             /\ dstage' = [dstage EXCEPT ![journal.dst] = copied]
             /\ Goto(p, "write_staged")
    BY <1>3, <2>1, <2>2, Zenon
  <2>3. CASE /\ Fails
             /\ \E d \in Leftover(copied) : stage' = [stage EXCEPT ![journal.dst] = d]
             /\ UNCHANGED dstage
             /\ Goto(p, "rollback_staging")
    <3>1. PICK d \in Leftover(Target(journal)) : stage' = [stage EXCEPT ![journal.dst] = d]
      BY <1>3, <2>3
    <3>2. d \in Dirs
      BY <2>1, LeftoverType
    <3>3. dstage' = [dstage EXCEPT ![journal.dst] = dstage[journal.dst]] /\ dstage[journal.dst] \in Dirs
      BY <1>2, <2>3, StoreTypes DEF Stores
    <3> QED
      BY <2>3, <3>1, <3>2, <3>3, Zenon
  <2> QED
    BY <1>1, <2>2, <2>3 DEF Copy
<1>5. Consistent(journal, home, dhome, stage', dstage')
  BY <1>1, <1>2, <1>4, StageChange, StoreTypes
<1>6. TypeOK'
  <2>1. stage' \in Stores /\ dstage' \in Stores
    BY <1>4, StoreTypes DEF Stores
  <2>2. faults' \in 0..MaxFaults
    BY <1>4, FaultType DEF Inv
  <2>3. pc' \in [Procs -> Places]
    BY <1>4, GotoType DEF Inv, Places, Calls
  <2> QED
    BY <1>0, <2>1, <2>2, <2>3 DEF Inv, TypeOK, Stores, Places
<1>7. JournalsInv'
  <2>1. journal.nonce <= nonces
    BY DEF Inv, JournalsInv
  <2> QED
    BY <1>0, <1>1, <1>5, <2>1, JournalsStep
<1>8. \A q \in Procs \ {p} : CallInv(q)' /\ HandleInv(q)'
  BY <1>0, <1>1, <1>4, Bystanders DEF Goto, Inv, TypeOK
<1>9. CallInv(p)'
  <2>1. CASE pc'[p] = "write_staged"
    <3>1. stage'[journal.dst] = Target(journal) /\ dstage'[journal.dst] = Target(journal)
      BY <1>2, <1>4, <2>1, StoreTypes DEF Goto, Stores, Inv, TypeOK
    <3> QED
      BY <1>0, <1>1, <2>1, <3>1 DEF CallInv
  <2>2. CASE pc'[p] = "rollback_staging"
    BY <1>0, <1>1, <1>2, <2>2 DEF CallInv
  <2> QED
    BY <1>4, <2>1, <2>2 DEF Goto, Inv, TypeOK
<1>10. HandleInv(p)'
  BY <1>0, <1>1, HandleStep, Constants DEF Continues
<1> QED
  BY <1>6, <1>7, <1>8, <1>9, <1>10 DEF Inv

\* Writing the Staged record.
LEMMA WriteStagedInv == ASSUME Inv, NEW p \in Procs, WriteStaged(p) PROVE Inv'
<1> DEFINE j == [loc[p] EXCEPT !.phase = "Staged"]
<1>0. /\ pc[p] = "write_staged" /\ pc[p] \in Calls
      /\ UNCHANGED <<home, dhome, stage, dstage, proof, lease, auto, handle, undoing, nonces>>
  BY DEF WriteStaged, Calls, callers, directories
<1>1. /\ lease = p /\ loc[p] = journal /\ Continues(djournal, journal)
      /\ journal # NoJournal /\ journal = djournal /\ journal.phase = "Prepared"
      /\ Consistent(journal, home, dhome, stage, dstage)
      /\ stage[journal.dst] = Target(journal) /\ dstage[journal.dst] = Target(journal)
  BY <1>0, InCall DEF Inv, CallInv
<1>2. journal.phase \notin Terminal /\ ~has_target_authority(journal)
  BY <1>1 DEF Terminal, has_target_authority, TargetAuthority
<1>3. "Staged" \in Phases \ Terminal /\ "Staged" \notin TargetAuthority
  BY DEF Phases, SourceAuthority, TargetAuthority, Terminal
<1>4. /\ j \in Journals /\ j.phase = "Staged" /\ j # NoJournal /\ j.dst = journal.dst
      /\ j.nonce = journal.nonce /\ Target(j) = Target(journal)
  BY <1>1, <1>3, PhaseType, StoreTypes
<1>5. Consistent(j, home, dhome, stage, dstage) /\ Continues(journal, j)
  BY <1>1, <1>2, <1>3, SameAuthority, StoreTypes
<1>6. Continues(j, j) /\ journal.nonce <= nonces
  BY <1>5 DEF Continues, Inv, JournalsInv
<1> HIDE DEF j
<1>7. \/ Works /\ WriteJournal(j) /\ Run(p, "publish", j)
      \/ Fails /\ UNCHANGED <<journal, djournal, loc>> /\ Goto(p, "rollback_staging")
      \/ Fails /\ journal' = j /\ UNCHANGED djournal /\ ReturnError(p)
  BY DEF WriteStaged, j
<1>8. /\ journal' \in {journal, j} /\ djournal' \in {journal, j}
      /\ djournal' = j => journal' = j
  BY <1>1, <1>7 DEF WriteJournal
<1>9. /\ pc' \in [Procs -> Places] /\ \A q \in Procs \ {p} : pc'[q] = pc[q]
      /\ loc' \in [Procs -> Journals]
      /\ \/ pc'[p] = "publish" /\ loc'[p] = j /\ journal' = j /\ djournal' = j
         \/ pc'[p] = "rollback_staging" /\ loc'[p] = journal /\ UNCHANGED <<journal, djournal>>
         \/ pc'[p] \in {"held", "leave"}
  <2>1. TypeOK /\ "publish" \in Places /\ "rollback_staging" \in Places /\ loc \in [Procs -> Journals]
    BY DEF Inv, TypeOK, Places, Calls
  <2>2. CASE Works /\ WriteJournal(j) /\ Run(p, "publish", j)
    BY <1>4, <2>1, <2>2, RunType DEF WriteJournal
  <2>3. CASE Fails /\ UNCHANGED <<journal, djournal, loc>> /\ Goto(p, "rollback_staging")
    BY <1>1, <2>1, <2>3, GotoType
  <2>4. CASE Fails /\ journal' = j /\ UNCHANGED djournal /\ ReturnError(p)
    BY <2>1, <2>4, ErrorType
  <2> QED
    BY <1>7, <2>2, <2>3, <2>4
<1>10. TypeOK'
  <2>1. faults' \in 0..MaxFaults
    BY <1>7, FaultType DEF Inv
  <2> QED
    BY <1>0, <1>4, <1>8, <1>9, <2>1 DEF Inv, TypeOK, Places
<1>11. JournalsInv'
  BY <1>0, <1>1, <1>2, <1>4, <1>5, <1>6, <1>8, JournalsStep
<1>12. \A q \in Procs \ {p} : CallInv(q)' /\ HandleInv(q)'
  BY <1>0, <1>1, <1>9, Bystanders
<1>13. CallInv(p)'
  <2>1. CASE pc'[p] = "publish"
    BY <1>0, <1>1, <1>4, <1>6, <1>9, <2>1 DEF CallInv
  <2>2. CASE pc'[p] = "rollback_staging"
    BY <1>0, <1>1, <1>2, <1>9, <2>2 DEF CallInv
  <2>3. CASE pc'[p] \in {"held", "leave"}
    BY <1>0, <1>1, <2>3, NotInCall DEF Calls
  <2> QED
    BY <1>9, <2>1, <2>2, <2>3
<1>14. HandleInv(p)'
  BY <1>0, <1>1, <1>4, <1>5, <1>6, <1>8, HandleStep DEF Continues
<1> QED
  BY <1>10, <1>11, <1>12, <1>13, <1>14 DEF Inv

\* Publishing the target.
LEMMA PublishInv == ASSUME Inv, NEW p \in Procs, Publish(p) PROVE Inv'
<1>0. /\ pc[p] = "publish" /\ pc[p] \in Calls
      /\ UNCHANGED <<journal, djournal, proof, lease, auto, handle, undoing, nonces>>
  BY DEF Publish, Calls, callers
<1>1. /\ lease = p /\ loc[p] = journal /\ Continues(djournal, journal)
      /\ journal # NoJournal /\ journal = djournal /\ journal.phase = "Staged"
      /\ Consistent(journal, home, dhome, stage, dstage)
      /\ stage[journal.dst] = Target(journal) /\ dstage[journal.dst] = Target(journal)
  BY <1>0, InCall DEF Inv, CallInv
<1>2. journal.phase \notin Terminal /\ ~has_target_authority(journal) /\ journal.dst \in Cwds
  BY <1>1 DEF Terminal, has_target_authority, TargetAuthority, Consistent
<1> DEFINE c == journal.dst
           Renamed == /\ home' = [home EXCEPT ![c] = Target(journal)]
                      /\ stage' = [stage EXCEPT ![c] = NoDir]
           Synced == /\ dhome' = [dhome EXCEPT ![c] = Target(journal)]
                     /\ dstage' = [dstage EXCEPT ![c] = NoDir]
<1>3. /\ Works \/ Fails
      /\ \/ /\ UNCHANGED <<home, dhome, stage, dstage, loc>>
            /\ Goto(p, "rollback_staging")
         \/ /\ Renamed /\ Synced
            /\ Goto(p, "write_published") /\ UNCHANGED loc
         \/ Renamed /\ UNCHANGED <<dhome, dstage>> /\ ReturnError(p)
  BY <1>1, Zenon DEF Publish, directories
<1>4. TargetLike(journal, Target(journal)) /\ Target(journal) \in Dirs
  BY StoreTypes, TargetType DEF TargetLike
<1>5. Consistent(journal, home', dhome', stage', dstage') /\ home' \in Stores
      /\ dhome' \in Stores /\ stage' \in Stores /\ dstage' \in Stores
  <2>1. CASE UNCHANGED <<home, dhome, stage, dstage>>
    BY <1>1, <2>1, StoreTypes
  <2>2. CASE Renamed /\ Synced
    <3>1. /\ home' \in Stores /\ dhome' \in Stores
          /\ Consistent(journal, home', dhome', stage, dstage)
      BY <1>1, <1>2, <1>4, <2>2, TargetChange, StoreTypes DEF Stores
    <3> QED
      BY <1>2, <2>2, <3>1, StageChange, StoreTypes, Constants DEF Stores
  <2>3. CASE Renamed /\ UNCHANGED <<dhome, dstage>>
    <3>1. /\ dhome = [dhome EXCEPT ![c] = dhome[c]] /\ dstage = [dstage EXCEPT ![c] = dstage[c]]
          /\ dstage[c] \in Dirs /\ TargetLike(journal, dhome[c])
      BY <1>1, <1>2, StoreTypes DEF Stores, Consistent
    <3>2. Consistent(journal, [home EXCEPT ![c] = Target(journal)],
                     [dhome EXCEPT ![c] = dhome[c]], stage, dstage)
      BY <1>1, <1>2, <1>4, <3>1, TargetChange, StoreTypes
    <3>3. home' \in Stores /\ stage' \in Stores /\ Consistent(journal, home', dhome, stage, dstage)
      BY <1>2, <1>4, <2>3, <3>1, <3>2, StoreTypes, Constants DEF Stores
    <3>4. Consistent(journal, home', dhome, [stage EXCEPT ![c] = NoDir],
                     [dstage EXCEPT ![c] = dstage[c]])
      BY <1>2, <3>1, <3>3, StageChange, StoreTypes, Constants
    <3>5. Consistent(journal, home', dhome', stage', dstage')
      BY <2>3, <3>1, <3>4
    <3> QED
      BY <2>3, <3>3, <3>5, StoreTypes
  <2> QED
    BY <1>3, <2>1, <2>2, <2>3
<1>6. /\ pc' \in [Procs -> Places] /\ \A q \in Procs \ {p} : pc'[q] = pc[q]
      /\ loc' \in [Procs -> Journals]
      /\ \/ pc'[p] = "rollback_staging" /\ UNCHANGED loc
         \/ pc'[p] = "write_published" /\ UNCHANGED loc /\ Renamed /\ Synced
         \/ pc'[p] \in {"held", "leave"}
  <2>1. TypeOK /\ "write_published" \in Places /\ "rollback_staging" \in Places
        /\ loc \in [Procs -> Journals]
    BY DEF Inv, TypeOK, Places, Calls
  <2> QED
    BY <1>3, <2>1, GotoType, ErrorType
<1>7. TypeOK'
  <2>1. faults' \in 0..MaxFaults
    BY <1>3, FaultType DEF Inv
  <2> QED
    BY <1>0, <1>5, <1>6, <2>1 DEF Inv, TypeOK, Places, Stores
<1>8. JournalsInv'
  <2>1. journal.nonce <= nonces
    BY DEF Inv, JournalsInv
  <2> QED
    BY <1>0, <1>1, <1>5, <2>1, JournalsStep
<1>9. \A q \in Procs \ {p} : CallInv(q)' /\ HandleInv(q)'
  BY <1>0, <1>1, <1>6, Bystanders
<1>10. CallInv(p)'
  <2>1. CASE pc'[p] = "write_published"
    <3>1. home'[c] = Target(journal) /\ dhome'[c] = Target(journal) /\ UNCHANGED loc
      BY <1>2, <1>6, <2>1, StoreTypes DEF Stores
    <3> QED
      BY <1>0, <1>1, <2>1, <3>1 DEF CallInv
  <2>2. CASE pc'[p] = "rollback_staging"
    BY <1>0, <1>1, <1>2, <1>6, <2>2 DEF CallInv
  <2>3. CASE pc'[p] \in {"held", "leave"}
    BY <1>0, <1>1, <2>3, NotInCall DEF Calls
  <2> QED
    BY <1>6, <2>1, <2>2, <2>3
<1>11. HandleInv(p)'
  BY <1>0, <1>1, HandleStep DEF Continues
<1> QED
  BY <1>7, <1>8, <1>9, <1>10, <1>11 DEF Inv

\* Continuing a transaction is transitive.
LEMMA ContinuesTrans ==
  ASSUME NEW i, NEW j, NEW k, Continues(i, j), Continues(j, k)
  PROVE  Continues(i, k)
BY DEF Continues

\* Writing the TargetPublished record.
LEMMA WritePublishedInv == ASSUME Inv, NEW p \in Procs, WritePublished(p) PROVE Inv'
<1> DEFINE j == [loc[p] EXCEPT !.phase = "TargetPublished"]
<1>0. /\ pc[p] = "write_published" /\ pc[p] \in Calls
      /\ UNCHANGED <<home, dhome, stage, dstage, proof, lease, auto, nonces>>
  BY DEF WritePublished, Calls, directories
<1>1. /\ lease = p /\ loc[p] = journal /\ Continues(djournal, journal)
      /\ journal # NoJournal /\ journal = djournal /\ journal.phase = "Staged"
      /\ Consistent(journal, home, dhome, stage, dstage)
      /\ home[journal.dst] = Target(journal) /\ dhome[journal.dst] = Target(journal)
  BY <1>0, InCall DEF Inv, CallInv
<1>2. journal.phase \notin Terminal /\ ~has_target_authority(journal)
  BY <1>1 DEF Terminal, has_target_authority, TargetAuthority
<1>3. /\ "TargetPublished" \in Phases /\ "TargetPublished" \notin Terminal
      /\ "TargetPublished" \notin TargetAuthority
  BY DEF Phases, SourceAuthority, TargetAuthority, Terminal
<1>4. /\ j \in Journals /\ j.phase = "TargetPublished" /\ j # NoJournal /\ j.dst = journal.dst
      /\ j.nonce = journal.nonce /\ Target(j) = Target(journal)
  BY <1>1, <1>3, PhaseType, StoreTypes
<1>5. Consistent(j, home, dhome, stage, dstage) /\ Continues(journal, j)
  BY <1>1, <1>2, <1>3, SameAuthority, StoreTypes
<1>6. Continues(j, j) /\ journal.nonce <= nonces
  BY <1>5 DEF Continues, Inv, JournalsInv
<1> HIDE DEF j
<1>7. \/ /\ Works /\ WriteJournal(j)
         /\ handle' = [handle EXCEPT ![p] = j.nonce]
         /\ undoing' = [undoing EXCEPT ![p] = FALSE]
         /\ Run(p, "held", NoJournal)
      \/ Fails /\ WriteJournalFails(j) /\ ReturnError(p) /\ UNCHANGED <<handle, undoing>>
  BY DEF WritePublished, j
<1>8. /\ journal' \in {journal, j} /\ djournal' \in {journal, j}
      /\ djournal' = j => journal' = j
  BY <1>1, <1>7 DEF WriteJournal, WriteJournalFails
<1>9. /\ pc' \in [Procs -> Places] /\ \A q \in Procs \ {p} : pc'[q] = pc[q]
      /\ loc' \in [Procs -> Journals] /\ pc'[p] \in {"held", "leave"}
  <2>1. TypeOK /\ "held" \in Places
    BY DEF Inv, Places
  <2> QED
    BY <1>7, <2>1, RunType, ErrorType, Constants
<1>10. TypeOK'
  <2>1. faults' \in 0..MaxFaults
    BY <1>7, FaultType DEF Inv
  <2>2. j.nonce \in 0..MaxTx
    BY <1>4 DEF Journals
  <2>3. handle' \in [Procs -> 0..MaxTx]
    BY <1>7, <2>2 DEF Inv, TypeOK
  <2>4. undoing' \in [Procs -> BOOLEAN]
    BY <1>7 DEF Inv, TypeOK
  <2> QED
    BY <1>0, <1>4, <1>8, <1>9, <2>1, <2>3, <2>4 DEF Inv, TypeOK, Places
<1>11. JournalsInv'
  BY <1>0, <1>1, <1>2, <1>4, <1>5, <1>6, <1>8, JournalsStep
<1>12. \A q \in Procs \ {p} : CallInv(q)' /\ HandleInv(q)'
  <2>1. \A q \in Procs \ {p} : handle'[q] = handle[q]
    BY <1>7 DEF Inv, TypeOK
  <2> QED
    BY <1>1, <1>9, <2>1, Bystanders
<1>13. CallInv(p)'
  BY <1>0, <1>1, <1>9, NotInCall DEF Calls
<1>14. HandleInv(p)'
  <2>1. CASE Works /\ WriteJournal(j) /\ handle' = [handle EXCEPT ![p] = j.nonce]
    <3>1. journal' = j /\ djournal' = j /\ handle'[p] = j.nonce
      BY <2>1 DEF WriteJournal, Inv, TypeOK
    <3> QED
      BY <1>0, <1>1, <1>4, <1>6, <3>1 DEF HandleInv
  <2>2. CASE Fails /\ WriteJournalFails(j) /\ UNCHANGED <<handle, undoing>>
    BY <1>0, <1>1, <1>4, <1>5, <1>6, <1>8, <2>2, HandleStep DEF Continues
  <2> QED
    BY <1>7, <2>1, <2>2
<1> QED
  BY <1>10, <1>11, <1>12, <1>13, <1>14 DEF Inv

(***************************************************************************)
(* mark_ready_and_commit and finish_commit                                 *)
(***************************************************************************)
\* A target that is whole on disk may be given authority.
LEMMA ReadyConsistent ==
  ASSUME NEW j \in Journals, NEW h \in Stores, NEW dh \in Stores,
         NEW s \in Stores, NEW ds \in Stores, Consistent(j, h, dh, s, ds),
         h[j.dst] = Target(j), dh[j.dst] = Target(j),
         NEW k, k = [j EXCEPT !.phase = "Ready"]
  PROVE  /\ k \in Journals /\ k.phase = "Ready" /\ k # NoJournal /\ k.nonce = j.nonce
         /\ has_target_authority(k) /\ k.phase \notin Terminal
         /\ Consistent(k, h, dh, s, ds) /\ Continues(j, k)
<1>1. "Ready" \in Phases /\ "Ready" \in TargetAuthority /\ "Ready" \notin Terminal
  BY DEF Phases, TargetAuthority, Terminal
<1>2. /\ k \in Journals /\ k.phase = "Ready" /\ k # NoJournal /\ k.nonce = j.nonce
      /\ k.gen = j.gen /\ k.src = j.src /\ k.dst = j.dst /\ Target(k) = Target(j)
  BY <1>1, PhaseType
<1>3. has_target_authority(k)
  BY <1>1, <1>2 DEF has_target_authority
<1> QED
  BY <1>1, <1>2, <1>3 DEF Consistent, Continues

\* What a caller's handle says when it is the current transaction's.
LEMMA Matched ==
  ASSUME Inv, NEW p \in Procs, Matches(p)
  PROVE  /\ lease = p /\ handle[p] # 0 /\ journal # NoJournal /\ djournal # NoJournal
         /\ journal.phase \notin {"Prepared", "Staged"} /\ Continues(djournal, journal)
         /\ Consistent(journal, home, dhome, stage, dstage)
         /\ Consistent(djournal, home, dhome, stage, dstage)
         /\ journal = djournal \/ djournal.phase \notin Terminal
         /\ journal.phase = "TargetPublished" /\ ~undoing[p] =>
              home[journal.dst] = Target(journal) /\ dhome[journal.dst] = Target(journal)
<1>1. journal # NoJournal
  BY Constants DEF Matches
<1>2. Consistent(journal, home, dhome, stage, dstage)
  BY <1>1 DEF Inv, JournalsInv
<1>3. handle[p] # 0
  BY <1>2 DEF Matches, Consistent
<1>4. /\ lease = p /\ journal.phase \notin {"Prepared", "Staged"} /\ Continues(djournal, journal)
      /\ journal.phase = "TargetPublished" /\ ~undoing[p] =>
           home[journal.dst] = Target(journal) /\ dhome[journal.dst] = Target(journal)
  BY <1>3 DEF Inv, HandleInv
<1>5. djournal # NoJournal
  BY <1>4, Constants DEF Continues
<1>6. /\ Consistent(djournal, home, dhome, stage, dstage)
      /\ journal = djournal \/ djournal.phase \notin Terminal
  BY <1>1, <1>4, <1>5 DEF Inv, JournalsInv
<1> QED
  BY <1>1, <1>2, <1>3, <1>4, <1>5, <1>6

\* Deciding for the target.
LEMMA MarkReadyInv == ASSUME Inv, NEW p \in Procs, MarkReady(p) PROVE Inv'
<1> DEFINE r == [journal EXCEPT !.phase = "Ready"]
<1>0. /\ pc[p] = "held" /\ Matches(p) /\ ~undoing[p]
      /\ UNCHANGED <<home, dhome, stage, dstage, proof, lease, auto, handle, undoing, nonces>>
  BY DEF MarkReady, directories, callers
<1>1. /\ lease = p /\ handle[p] # 0 /\ journal # NoJournal /\ djournal # NoJournal
      /\ journal.phase \notin {"Prepared", "Staged"} /\ Continues(djournal, journal)
      /\ Consistent(journal, home, dhome, stage, dstage)
      /\ Consistent(djournal, home, dhome, stage, dstage)
      /\ journal = djournal \/ djournal.phase \notin Terminal
      /\ journal.phase = "TargetPublished" =>
           home[journal.dst] = Target(journal) /\ dhome[journal.dst] = Target(journal)
  BY <1>0, Matched
<1>2. journal.nonce <= nonces /\ TypeOK /\ "commit_sync" \in Places
  BY DEF Inv, JournalsInv, Places, Calls
<1>3. CASE journal.phase = "TargetPublished"
  <2>1. /\ r \in Journals /\ r.phase = "Ready" /\ r # NoJournal /\ r.nonce = journal.nonce
        /\ has_target_authority(r) /\ r.phase \notin Terminal
        /\ Consistent(r, home, dhome, stage, dstage) /\ Continues(journal, r)
    BY <1>1, <1>3, ReadyConsistent, StoreTypes
  <2>2. Continues(djournal, r) /\ Continues(r, r) /\ journal.phase \notin Terminal
    BY <1>1, <1>3, <2>1, ContinuesTrans DEF Continues, Terminal
  <2> HIDE DEF r
  <2>3. \/ Works /\ WriteJournal(r) /\ Run(p, "commit_sync", r)
        \/ Fails /\ WriteJournalFails(r) /\ ReturnError(p)
    BY <1>3 DEF MarkReady, r, has_target_authority, TargetAuthority
  <2>4. /\ journal' \in {journal, r} /\ djournal' \in {djournal, r}
        /\ djournal' = djournal \/ journal' = r
    BY <2>3 DEF WriteJournal, WriteJournalFails
  <2>5. /\ pc' \in [Procs -> Places] /\ \A q \in Procs \ {p} : pc'[q] = pc[q]
        /\ loc' \in [Procs -> Journals]
        /\ \/ pc'[p] = "commit_sync" /\ loc'[p] = r /\ journal' = r /\ djournal' = r
           \/ pc'[p] \in {"held", "leave"}
    BY <1>2, <2>1, <2>3, RunType, ErrorType DEF WriteJournal
  <2>6. TypeOK'
    <3>1. faults' \in 0..MaxFaults
      BY <1>2, <2>3, FaultType
    <3> QED
      BY <1>0, <2>1, <2>4, <2>5, <3>1 DEF Inv, TypeOK, Places
  <2>7. JournalsInv'
    BY <1>0, <1>1, <1>2, <2>1, <2>2, <2>4, JournalsStep
  <2>8. \A q \in Procs \ {p} : CallInv(q)' /\ HandleInv(q)'
    BY <1>0, <1>1, <2>5, Bystanders
  <2>9. CallInv(p)'
    <3>1. CASE pc'[p] = "commit_sync"
      BY <1>0, <1>1, <2>1, <2>2, <2>5, <3>1 DEF CallInv
    <3>2. CASE pc'[p] \in {"held", "leave"}
      BY <1>0, <1>1, <3>2, NotInCall DEF Calls
    <3> QED
      BY <2>5, <3>1, <3>2
  <2>10. HandleInv(p)'
    BY <1>0, <1>1, <2>1, <2>2, <2>4, HandleStep DEF Continues
  <2> QED
    BY <2>6, <2>7, <2>8, <2>9, <2>10 DEF Inv
<1>4. CASE has_target_authority(journal) /\ journal.phase # "TargetPublished"
  <2>1. Run(p, "commit_sync", journal) /\ UNCHANGED <<journal, djournal, faults>>
    BY <1>4 DEF MarkReady
  <2>2. /\ pc' \in [Procs -> Places] /\ \A q \in Procs \ {p} : pc'[q] = pc[q]
        /\ loc' \in [Procs -> Journals] /\ pc'[p] = "commit_sync" /\ loc'[p] = journal
    BY <1>2, <2>1, RunType, StoreTypes
  <2>3. TypeOK'
    BY <1>0, <2>1, <2>2 DEF Inv, TypeOK, Places
  <2>4. JournalsInv'
    BY <1>0, <1>1, <1>2, <2>1, JournalsStep
  <2>5. \A q \in Procs \ {p} : CallInv(q)' /\ HandleInv(q)'
    BY <1>0, <1>1, <2>2, Bystanders
  <2>6. CallInv(p)'
    BY <1>0, <1>1, <1>4, <2>1, <2>2 DEF CallInv
  <2>7. HandleInv(p)'
    BY <1>0, <1>1, <1>4, <2>1, HandleStep DEF Continues
  <2> QED
    BY <2>3, <2>4, <2>5, <2>6, <2>7 DEF Inv
<1> QED
  BY <1>3, <1>4 DEF MarkReady

\* What a step of a call owes to the invariant.
LEMMA CallStep ==
  ASSUME Inv, NEW p \in Procs, pc[p] \in Calls, Works \/ Fails,
         UNCHANGED <<lease, auto, handle, undoing, nonces>>,
         NEW j \in Journals, NEW d \in Journals, journal' = j, djournal' = d,
         j # NoJournal, d # NoJournal, j.nonce = journal.nonce, Continues(d, j),
         j = d \/ d.phase \notin Terminal,
         home' \in Stores, dhome' \in Stores, stage' \in Stores, dstage' \in Stores,
         Consistent(j, home', dhome', stage', dstage'),
         Consistent(d, home', dhome', stage', dstage'),
         pc' \in [Procs -> Places], \A q \in Procs \ {p} : pc'[q] = pc[q],
         loc' \in [Procs -> Journals], proof' \in [Procs -> Journals],
         CallInv(p)',
         j.phase \in TargetAuthority \cup Terminal
           \/ (j.phase = journal.phase /\ (j.phase = "TargetPublished" => undoing[p]))
  PROVE  Inv'
<1>1. lease = p /\ journal # NoJournal /\ Consistent(journal, home, dhome, stage, dstage)
  BY InCall
<1>2. TypeOK'
  <2>1. faults' \in 0..MaxFaults
    BY FaultType DEF Inv
  <2> QED
    BY <2>1 DEF Inv, TypeOK, Places, Stores
<1>3. JournalsInv'
  <2>1. journal.nonce <= nonces
    BY DEF Inv, JournalsInv
  <2> QED
    BY <2>1, JournalsStep
<1>4. \A q \in Procs \ {p} : CallInv(q)' /\ HandleInv(q)'
  BY <1>1, Bystanders
<1>5. HandleInv(p)'
  <2>1. journal.phase # "none"
    BY <1>1 DEF Consistent
  <2>2. journal.phase \notin {"Prepared", "Staged"} =>
          /\ j.phase \notin {"Prepared", "Staged"}
          /\ ~(j.phase = "TargetPublished" /\ ~undoing[p])
    BY DEF TargetAuthority, Terminal
  <2> QED
    BY <2>1, <2>2, HandleStep
<1> QED
  BY <1>2, <1>3, <1>4, <1>5 DEF Inv

\* The namespace barrier.
LEMMA CommitSyncInv == ASSUME Inv, NEW p \in Procs, CommitSync(p) PROVE Inv'
<1>0. /\ pc[p] = "commit_sync" /\ pc[p] \in Calls
      /\ UNCHANGED <<home, dhome, stage, dstage, proof, lease, auto, handle, undoing, nonces>>
  BY DEF CommitSync, Calls, callers, directories
<1>1. /\ lease = p /\ loc[p] = journal /\ Continues(djournal, journal)
      /\ journal # NoJournal /\ djournal # NoJournal
      /\ Consistent(journal, home, dhome, stage, dstage)
      /\ Consistent(djournal, home, dhome, stage, dstage)
      /\ journal = djournal \/ djournal.phase \notin Terminal
      /\ has_target_authority(journal)
  BY <1>0, InCall DEF Inv, CallInv
<1>2. \/ /\ Works /\ SyncNamespace
         /\ Goto(p, "commit_source") /\ UNCHANGED loc
      \/ Works /\ SyncNamespace /\ ReturnError(p)
      \/ Fails /\ UNCHANGED <<journal, djournal>> /\ ReturnError(p)
  BY DEF CommitSync
<1>3. /\ pc' \in [Procs -> Places] /\ \A q \in Procs \ {p} : pc'[q] = pc[q]
      /\ loc' \in [Procs -> Journals]
      /\ \/ pc'[p] = "commit_source" /\ UNCHANGED loc /\ djournal' = journal
         \/ pc'[p] \in {"held", "leave"}
  <2>1. TypeOK /\ "commit_source" \in Places /\ loc \in [Procs -> Journals]
    BY DEF Inv, TypeOK, Places, Calls
  <2> QED
    BY <1>2, <2>1, GotoType, ErrorType DEF SyncNamespace
<1>4. journal' = journal /\ djournal' \in {journal, djournal}
  BY <1>2 DEF SyncNamespace
<1>5. Continues(journal, journal)
  BY <1>1 DEF Continues
<1>6. CallInv(p)'
  <2>1. CASE pc'[p] = "commit_source"
    BY <1>0, <1>1, <1>3, <1>4, <1>5, <2>1 DEF CallInv
  <2>2. CASE pc'[p] \in {"held", "leave"}
    BY <1>0, <1>1, <2>2, NotInCall DEF Calls
  <2> QED
    BY <1>3, <2>1, <2>2
<1>7. proof' \in [Procs -> Journals]
  BY <1>0 DEF Inv, TypeOK
<1>8. /\ Works \/ Fails
      /\ home' \in Stores /\ dhome' \in Stores /\ stage' \in Stores /\ dstage' \in Stores
      /\ journal \in Journals /\ djournal' \in Journals
      /\ journal.phase \in TargetAuthority
  BY <1>0, <1>1, <1>2, <1>4, StoreTypes DEF has_target_authority
<1>9. /\ djournal' # NoJournal /\ Continues(djournal', journal)
      /\ journal = djournal' \/ djournal'.phase \notin Terminal
      /\ Consistent(journal, home', dhome', stage', dstage')
      /\ Consistent(djournal', home', dhome', stage', dstage')
  BY <1>0, <1>1, <1>4, <1>5
<1> QED
  BY <1>0, <1>1, <1>3, <1>4, <1>6, <1>7, <1>8, <1>9, CallStep

\* The directories change under a call whose journals stay.
LEMMA DirStep ==
  ASSUME Inv, NEW p \in Procs, pc[p] \in Calls, Works \/ Fails,
         UNCHANGED <<journal, djournal, proof, lease, auto, handle, undoing, nonces>>,
         home' \in Stores, dhome' \in Stores, stage' \in Stores, dstage' \in Stores,
         Consistent(journal, home', dhome', stage', dstage'),
         Consistent(djournal, home', dhome', stage', dstage'),
         pc' \in [Procs -> Places], \A q \in Procs \ {p} : pc'[q] = pc[q],
         loc' \in [Procs -> Journals], CallInv(p)',
         has_target_authority(journal) \/ (journal.phase = "TargetPublished" => undoing[p])
  PROVE  Inv'
<1>1. /\ Continues(djournal, journal) /\ journal # NoJournal /\ djournal # NoJournal
      /\ journal = djournal \/ djournal.phase \notin Terminal
  BY InCall
<1>2. proof' \in [Procs -> Journals] /\ journal \in Journals /\ djournal \in Journals
  BY DEF Inv, TypeOK
<1> QED
  BY <1>1, <1>2, CallStep DEF has_target_authority

\* Where a step leaves its process when it goes on or fails.
LEMMA OnOrError ==
  ASSUME Inv, NEW p \in Procs, NEW l \in Places,
         (Goto(p, l) /\ UNCHANGED loc) \/ ReturnError(p)
  PROVE  /\ pc' \in [Procs -> Places] /\ \A q \in Procs \ {p} : pc'[q] = pc[q]
         /\ loc' \in [Procs -> Journals]
         /\ (pc'[p] = l /\ UNCHANGED loc) \/ pc'[p] \in {"held", "leave"}
<1>1. TypeOK /\ loc \in [Procs -> Journals]
  BY DEF Inv, TypeOK
<1>2. CASE Goto(p, l) /\ UNCHANGED loc
  BY <1>1, <1>2, GotoType
<1>3. CASE ReturnError(p)
  BY <1>1, <1>3, ErrorType
<1> QED
  BY <1>2, <1>3

\* Removing the source.
LEMMA CommitSourceInv == ASSUME Inv, NEW p \in Procs, CommitSource(p) PROVE Inv'
<1> DEFINE c == journal.src
<1>0. /\ pc[p] = "commit_source" /\ pc[p] \in Calls /\ "commit_staging" \in Places
      /\ UNCHANGED <<journal, djournal, proof, lease, auto, handle, undoing, nonces>>
  BY DEF CommitSource, Calls, callers, Places
<1>1. /\ lease = p /\ loc[p] = journal /\ Continues(journal, journal)
      /\ Consistent(journal, home, dhome, stage, dstage)
      /\ has_target_authority(journal) /\ djournal = journal /\ c \in Cwds
      /\ journal.src # journal.dst
  BY <1>0, InCall DEF Inv, CallInv, Consistent
<1>2. \/ Works /\ RemoveHome(c) /\ Goto(p, "commit_staging") /\ UNCHANGED loc
      \/ Fails /\ RemoveHomeFails(c) /\ ReturnError(p)
  BY <1>1 DEF CommitSource
<1>3. /\ pc' \in [Procs -> Places] /\ \A q \in Procs \ {p} : pc'[q] = pc[q]
      /\ loc' \in [Procs -> Journals]
      /\ (pc'[p] = "commit_staging" /\ UNCHANGED loc) \/ pc'[p] \in {"held", "leave"}
  BY <1>0, <1>2, OnOrError
<1>4. /\ home' \in Stores /\ dhome' \in Stores /\ stage' \in Stores /\ dstage' \in Stores
      /\ Consistent(journal, home', dhome', stage', dstage')
  <2>1. CASE RemoveHome(c)
    BY <1>1, <2>1, RemoveSourceKeeps, StoreTypes, Constants DEF RemoveHome, Stores
  <2>2. CASE RemoveHomeFails(c)
    <3>1. PICK x \in Leftover(home[c]) : home' = [home EXCEPT ![c] = x]
      BY <2>2 DEF RemoveHomeFails
    <3>2. x \in Dirs
      BY <1>1, LeftoverType, StoreTypes DEF Stores
    <3> QED
      BY <1>1, <2>2, <3>1, <3>2, RemoveSourceFailsKeeps, StoreTypes DEF RemoveHomeFails, Stores
  <2> QED
    BY <1>2, <2>1, <2>2
<1>5. CallInv(p)'
  <2>1. CASE pc'[p] = "commit_staging"
    <3>1. pc'[p] \notin {"held", "leave"}
      BY <2>1
    <3>2. RemoveHome(c)
      BY <1>2, <3>1, ErrorType DEF Inv
    <3>3. home'[c] = NoDir /\ dhome'[c] = NoDir /\ UNCHANGED loc
      BY <1>1, <1>3, <3>1, <3>2, StoreTypes DEF RemoveHome, Stores
    <3> QED
      BY <1>0, <1>1, <2>1, <3>3 DEF CallInv
  <2>2. CASE pc'[p] \in {"held", "leave"}
    BY <1>0, <1>1, <2>2, NotInCall DEF Calls
  <2> QED
    BY <1>3, <2>1, <2>2
<1> QED
  BY <1>0, <1>1, <1>2, <1>3, <1>4, <1>5, DirStep

\* What RemoveStaging and its failure do to the invariant's parts.
LEMMA StagingRemoved ==
  ASSUME Inv, NEW p \in Procs, pc[p] \in Calls,
         RemoveStaging(journal.dst) \/ RemoveStagingFails(journal.dst)
  PROVE  /\ home' \in Stores /\ dhome' \in Stores /\ stage' \in Stores /\ dstage' \in Stores
         /\ Consistent(journal, home', dhome', stage', dstage')
         /\ Consistent(djournal, home', dhome', stage', dstage')
         /\ home' = home
<1> DEFINE c == journal.dst
<1>1. /\ Consistent(journal, home, dhome, stage, dstage)
      /\ Consistent(djournal, home, dhome, stage, dstage)
      /\ djournal.dst = c /\ c \in Cwds
  BY InCall DEF Consistent
<1>2. CASE RemoveStaging(c)
  BY <1>1, <1>2, RemoveStagingKeeps, StoreTypes, Constants DEF RemoveStaging, Stores
<1>3. CASE RemoveStagingFails(c)
  <2>1. PICK x \in Leftover(stage[c]) : stage' = [stage EXCEPT ![c] = x]
    BY <1>3 DEF RemoveStagingFails
  <2>2. x \in Dirs
    BY <1>1, LeftoverType, StoreTypes DEF Stores
  <2> QED
    BY <1>1, <1>3, <2>1, <2>2, RemoveStagingFailsKeeps, StoreTypes DEF RemoveStagingFails, Stores
<1> QED
  BY <1>2, <1>3

\* Removing the staging directory of a commit.
LEMMA CommitStagingInv == ASSUME Inv, NEW p \in Procs, CommitStaging(p) PROVE Inv'
<1> DEFINE c == journal.dst
<1>0. /\ pc[p] = "commit_staging" /\ pc[p] \in Calls /\ "commit_write" \in Places
      /\ UNCHANGED <<journal, djournal, proof, lease, auto, handle, undoing, nonces>>
  BY DEF CommitStaging, Calls, callers, Places
<1>1. /\ lease = p /\ loc[p] = journal /\ Continues(djournal, journal)
      /\ Consistent(journal, home, dhome, stage, dstage)
      /\ has_target_authority(journal) /\ djournal = journal /\ c \in Cwds
      /\ journal.src # c /\ journal.src \in Cwds
      /\ home[journal.src] = NoDir /\ dhome[journal.src] = NoDir
  BY <1>0, InCall DEF Inv, CallInv, Consistent
<1>2. \/ Works /\ RemoveStaging(c) /\ Goto(p, "commit_write") /\ UNCHANGED loc
      \/ Fails /\ RemoveStagingFails(c) /\ ReturnError(p)
  BY <1>1 DEF CommitStaging
<1>3. /\ pc' \in [Procs -> Places] /\ \A q \in Procs \ {p} : pc'[q] = pc[q]
      /\ loc' \in [Procs -> Journals]
      /\ (pc'[p] = "commit_write" /\ UNCHANGED loc) \/ pc'[p] \in {"held", "leave"}
  BY <1>0, <1>2, OnOrError
<1>4. /\ home' \in Stores /\ dhome' \in Stores /\ stage' \in Stores /\ dstage' \in Stores
      /\ Consistent(journal, home', dhome', stage', dstage')
      /\ Consistent(djournal, home', dhome', stage', dstage')
  BY <1>0, <1>2, StagingRemoved
<1>5. CallInv(p)'
  <2>1. CASE pc'[p] = "commit_write"
    <3>1. pc'[p] \notin {"held", "leave"}
      BY <2>1
    <3>2. RemoveStaging(c) /\ UNCHANGED loc
      BY <1>2, <3>1, ErrorType DEF Inv
    <3>3. /\ stage'[c] = NoDir /\ dstage'[c] = NoDir
          /\ home'[journal.src] = NoDir /\ dhome'[journal.src] = NoDir
      BY <1>1, <3>2, StoreTypes DEF RemoveStaging, Stores
    <3> QED
      BY <1>0, <1>1, <2>1, <3>2, <3>3 DEF CallInv
  <2>2. CASE pc'[p] \in {"held", "leave"}
    BY <1>0, <1>1, <2>2, NotInCall DEF Calls
  <2> QED
    BY <1>3, <2>1, <2>2
<1> QED
  BY <1>0, <1>1, <1>2, <1>3, <1>4, <1>5, DirStep

\* A settled store may be given its terminal record.
LEMMA TerminalStep ==
  ASSUME Inv, NEW p \in Procs, pc[p] \in Calls, NEW ph \in Terminal,
         WriteTerminal(p, ph), SettledNow,
         has_target_authority(journal) <=> ph \in TargetAuthority,
         UNCHANGED <<home, dhome, stage, dstage, lease, auto, handle, undoing, nonces>>,
         journal.phase = "TargetPublished" => undoing[p]
  PROVE  Inv'
<1> DEFINE j == [loc[p] EXCEPT !.phase = ph]
<1>1. /\ lease = p /\ loc[p] = journal /\ Continues(djournal, journal)
      /\ journal # NoJournal /\ djournal # NoJournal
      /\ Consistent(journal, home, dhome, stage, dstage)
      /\ Consistent(djournal, home, dhome, stage, dstage)
      /\ journal = djournal \/ djournal.phase \notin Terminal
  BY InCall
<1>2. ph \in Phases
  BY DEF Terminal, Phases, SourceAuthority, TargetAuthority
<1>3. j \in Journals /\ j.phase = ph /\ j # NoJournal /\ j.nonce = journal.nonce
  BY <1>1, <1>2, PhaseType, StoreTypes
<1>4. Consistent(j, home, dhome, stage, dstage) /\ Continues(journal, j)
  BY <1>1, <1>2, SameAuthority, StoreTypes DEF SettledNow
<1>5. Continues(djournal, j) /\ Continues(j, j)
  BY <1>1, <1>4, ContinuesTrans DEF Continues
<1>6. journal.phase = ph => j = journal
  BY <1>1, StoreTypes DEF Journals
<1> HIDE DEF j
<1>7. \/ /\ journal.phase = ph
         /\ Works /\ UNCHANGED <<journal, djournal>> /\ ReturnProof(p, j)
      \/ journal.phase # ph /\ Works /\ WriteJournal(j) /\ ReturnProof(p, j)
      \/ /\ journal.phase # ph
         /\ Fails /\ WriteJournalFails(j) /\ ReturnError(p) /\ UNCHANGED proof
  BY <1>1 DEF WriteTerminal, j
<1>8. /\ pc' \in [Procs -> Places] /\ \A q \in Procs \ {p} : pc'[q] = pc[q]
      /\ loc' \in [Procs -> Journals] /\ proof' \in [Procs -> Journals]
      /\ pc'[p] \notin Calls
  <2>1. TypeOK /\ proof \in [Procs -> Journals]
    BY DEF Inv, TypeOK
  <2>2. CASE ReturnProof(p, j)
    BY <1>3, <2>1, <2>2, ProofType DEF Calls
  <2>3. CASE ReturnError(p) /\ UNCHANGED proof
    BY <2>1, <2>3, ErrorType DEF Calls
  <2> QED
    BY <1>7, <2>2, <2>3
<1>9. CallInv(p)'
  BY <1>1, <1>8, NotInCall
<1>10. /\ Works \/ Fails
       /\ home' \in Stores /\ dhome' \in Stores /\ stage' \in Stores /\ dstage' \in Stores
       /\ journal \in Journals /\ djournal \in Journals
  BY <1>7, StoreTypes
<1>11. \/ journal' = journal /\ djournal' = djournal
       \/ journal' = j /\ journal.phase # ph /\ djournal' \in {j, djournal}
  BY <1>7 DEF WriteJournal, WriteJournalFails
<1>12. CASE journal' = journal /\ djournal' = djournal
  BY <1>1, <1>8, <1>9, <1>10, <1>12, CallStep
<1>13. CASE journal' = j /\ djournal' = j
  BY <1>3, <1>4, <1>5, <1>8, <1>9, <1>10, <1>13, CallStep
<1>14. CASE journal' = j /\ journal.phase # ph /\ djournal' = djournal
  <2>1. CASE djournal.phase \notin Terminal
    BY <1>1, <1>3, <1>4, <1>5, <1>8, <1>9, <1>10, <1>14, <2>1, CallStep
  <2>2. CASE djournal.phase \in Terminal
    <3>1. journal.phase \in Terminal
      BY <1>1, <2>2
    <3> QED
      BY <1>14, <3>1 DEF has_target_authority, Terminal, TargetAuthority
  <2> QED
    BY <2>1, <2>2
<1> QED
  BY <1>11, <1>12, <1>13, <1>14

\* Writing the Committed record.
LEMMA CommitWriteInv == ASSUME Inv, NEW p \in Procs, CommitWrite(p) PROVE Inv'
<1>0. /\ pc[p] = "commit_write" /\ pc[p] \in Calls /\ WriteTerminal(p, "Committed")
      /\ UNCHANGED <<home, dhome, stage, dstage, lease, auto, handle, undoing, nonces>>
  BY DEF CommitWrite, Calls, callers, directories
<1>1. /\ Consistent(journal, home, dhome, stage, dstage)
      /\ has_target_authority(journal)
      /\ home[journal.src] = NoDir /\ dhome[journal.src] = NoDir
      /\ stage[journal.dst] = NoDir /\ dstage[journal.dst] = NoDir
  BY <1>0, InCall DEF Inv, CallInv
<1>2. SettledNow
  <2>1. /\ \A c \in Cwds \ {journal.dst} : home[c] = NoDir /\ dhome[c] = NoDir
        /\ \A c \in Cwds : stage[c] = NoDir /\ dstage[c] = NoDir
        /\ home[journal.dst] = Target(journal) /\ dhome[journal.dst] = Target(journal)
        /\ journal.dst \in Cwds
    BY <1>1 DEF Consistent
  <2>2. home = dhome /\ stage = dstage
    BY <2>1, StoreTypes DEF Stores
  <2> QED
    BY <2>1, <2>2, TargetType, StoreTypes DEF SettledNow, Settled, OnlyHome
<1>3. "Committed" \in Terminal /\ "Committed" \in TargetAuthority
      /\ journal.phase # "TargetPublished"
  BY <1>1 DEF Terminal, TargetAuthority, has_target_authority
<1> QED
  BY <1>0, <1>1, <1>2, <1>3, TerminalStep

(***************************************************************************)
(* rollback and finish_rollback                                            *)
(***************************************************************************)
\* A process at rest may start a call on the current journal.
LEMMA EnterCall ==
  ASSUME Inv, NEW p \in Procs, lease = p, Works \/ Fails,
         NEW l \in Calls, Run(p, l, journal),
         UNCHANGED <<home, dhome, stage, dstage, proof, lease, auto, handle, nonces>>,
         journal' = journal, djournal' \in {journal, djournal},
         Continues(djournal', journal), journal # NoJournal,
         undoing' \in [Procs -> BOOLEAN], undoing'[p],
         CallInv(p)'
  PROVE  Inv'
<1>1. /\ TypeOK /\ l \in Places /\ Continues(journal, journal) /\ journal.nonce <= nonces
      /\ djournal' # NoJournal
  BY Constants DEF Inv, Places, JournalsInv, Continues
<1>2. /\ Consistent(journal, home, dhome, stage, dstage)
      /\ Consistent(djournal', home, dhome, stage, dstage)
      /\ journal = djournal' \/ djournal'.phase \notin Terminal
  <2>1. djournal'.nonce = journal.nonce /\ djournal'.nonce \in Nat
    BY <1>1, BoundAssumption, StoreTypes DEF Continues, Journals
  <2> QED
    BY <1>1, <2>1 DEF Inv, JournalsInv
<1>3. /\ pc' \in [Procs -> Places] /\ \A q \in Procs \ {p} : pc'[q] = pc[q]
      /\ loc' \in [Procs -> Journals]
  BY <1>1, RunType, StoreTypes
<1>4. TypeOK'
  <2>1. faults' \in 0..MaxFaults
    BY <1>1, FaultType
  <2> QED
    BY <1>1, <1>3, <2>1 DEF TypeOK, Places
<1>5. JournalsInv'
  BY <1>1, <1>2, JournalsStep
<1>6. \A q \in Procs \ {p} : CallInv(q)' /\ HandleInv(q)'
  BY <1>3, Bystanders
<1>7. HandleInv(p)'
  <2>1. CASE handle[p] # 0 /\ Matches(p)
    BY <2>1 DEF HandleInv, Matches, Inv
  <2>2. CASE handle[p] # 0 /\ ~Matches(p)
    BY <2>2 DEF HandleInv, Matches, Inv
  <2>3. CASE handle[p] = 0
    BY <2>3 DEF HandleInv
  <2> QED
    BY <2>1, <2>2, <2>3
<1> QED
  BY <1>4, <1>5, <1>6, <1>7 DEF Inv

\* Starting a rollback.
LEMMA RollbackInv == ASSUME Inv, NEW p \in Procs, Rollback(p) PROVE Inv'
<1>0. /\ Matches(p) /\ ~has_target_authority(journal)
      /\ Run(p, "rollback_staging", journal)
      /\ undoing' = [undoing EXCEPT ![p] = TRUE]
      /\ UNCHANGED <<journal, djournal, home, dhome, stage, dstage, proof,
                     lease, auto, handle, nonces, faults>>
  BY DEF Rollback, store
<1>1. lease = p /\ Continues(djournal, journal) /\ journal # NoJournal
  BY <1>0, Matched
<1>2. /\ undoing' \in [Procs -> BOOLEAN] /\ undoing'[p] /\ TypeOK
      /\ "rollback_staging" \in Calls /\ "rollback_staging" \in Places /\ Works
  BY <1>0 DEF Inv, TypeOK, Calls, Places, Works
<1>3. pc'[p] = "rollback_staging" /\ loc'[p] = journal
  BY <1>0, <1>2, RunType, StoreTypes
<1>4. CallInv(p)'
  BY <1>0, <1>1, <1>2, <1>3 DEF CallInv
<1> QED
  BY <1>0, <1>1, <1>2, <1>4, EnterCall

\* Removing the staging directory of a rollback.
LEMMA RollbackStagingInv == ASSUME Inv, NEW p \in Procs, RollbackStaging(p) PROVE Inv'
<1> DEFINE c == journal.dst
<1>0. /\ pc[p] = "rollback_staging" /\ pc[p] \in Calls /\ "rollback_target" \in Places
      /\ UNCHANGED <<journal, djournal, proof, lease, auto, handle, undoing, nonces>>
  BY DEF RollbackStaging, Calls, callers, Places
<1>1. /\ lease = p /\ loc[p] = journal /\ Continues(djournal, journal)
      /\ Consistent(journal, home, dhome, stage, dstage)
      /\ Consistent(djournal, home, dhome, stage, dstage)
      /\ ~has_target_authority(journal) /\ c \in Cwds
      /\ journal.phase = "TargetPublished" => undoing[p]
  BY <1>0, InCall DEF Inv, CallInv, Consistent
<1>2. \/ Works /\ RemoveStaging(c) /\ Goto(p, "rollback_target") /\ UNCHANGED loc
      \/ Fails /\ RemoveStagingFails(c) /\ ReturnError(p)
      \/ Works /\ UNCHANGED <<home, dhome, stage, dstage>> /\ ReturnError(p)
  BY <1>1 DEF RollbackStaging, directories
<1>3. /\ pc' \in [Procs -> Places] /\ \A q \in Procs \ {p} : pc'[q] = pc[q]
      /\ loc' \in [Procs -> Journals]
      /\ (pc'[p] = "rollback_target" /\ UNCHANGED loc) \/ pc'[p] \in {"held", "leave"}
  BY <1>0, <1>2, OnOrError
<1>4. /\ home' \in Stores /\ dhome' \in Stores /\ stage' \in Stores /\ dstage' \in Stores
      /\ Consistent(journal, home', dhome', stage', dstage')
      /\ Consistent(djournal, home', dhome', stage', dstage')
  <2>1. CASE UNCHANGED <<home, dhome, stage, dstage>>
    BY <1>1, <2>1, StoreTypes
  <2> QED
    BY <1>0, <1>2, <2>1, StagingRemoved
<1>5. CallInv(p)'
  <2>1. CASE pc'[p] = "rollback_target"
    <3>1. pc'[p] \notin {"held", "leave"}
      BY <2>1
    <3>2. RemoveStaging(c) /\ UNCHANGED loc
      BY <1>2, <3>1, ErrorType DEF Inv
    <3>3. stage'[c] = NoDir /\ dstage'[c] = NoDir
      BY <1>1, <3>2, StoreTypes DEF RemoveStaging, Stores
    <3> QED
      BY <1>0, <1>1, <2>1, <3>2, <3>3 DEF CallInv
  <2>2. CASE pc'[p] \in {"held", "leave"}
    BY <1>0, <1>1, <2>2, NotInCall DEF Calls
  <2> QED
    BY <1>3, <2>1, <2>2
<1> QED
  BY <1>0, <1>1, <1>2, <1>3, <1>4, <1>5, DirStep

\* Removing the target of a rollback.
LEMMA RollbackTargetInv == ASSUME Inv, NEW p \in Procs, RollbackTarget(p) PROVE Inv'
<1> DEFINE c == journal.dst
<1>0. /\ pc[p] = "rollback_target" /\ pc[p] \in Calls /\ "rollback_write" \in Places
      /\ UNCHANGED <<journal, djournal, proof, lease, auto, handle, undoing, nonces>>
  BY DEF RollbackTarget, Calls, callers, Places
<1>1. /\ lease = p /\ loc[p] = journal /\ Continues(djournal, journal)
      /\ Consistent(journal, home, dhome, stage, dstage)
      /\ Consistent(djournal, home, dhome, stage, dstage)
      /\ ~has_target_authority(journal) /\ c \in Cwds /\ djournal.dst = c
      /\ journal.phase = "TargetPublished" => undoing[p]
      /\ stage[c] = NoDir /\ dstage[c] = NoDir
  BY <1>0, InCall DEF Inv, CallInv, Consistent
<1>2. ~has_target_authority(djournal)
  BY <1>1 DEF Continues
<1>3. \/ Works /\ RemoveHome(c) /\ Goto(p, "rollback_write") /\ UNCHANGED loc
      \/ Fails /\ RemoveHomeFails(c) /\ ReturnError(p)
      \/ Works /\ UNCHANGED <<home, dhome, stage, dstage>> /\ ReturnError(p)
  BY <1>1 DEF RollbackTarget, directories
<1>4. /\ pc' \in [Procs -> Places] /\ \A q \in Procs \ {p} : pc'[q] = pc[q]
      /\ loc' \in [Procs -> Journals]
      /\ (pc'[p] = "rollback_write" /\ UNCHANGED loc) \/ pc'[p] \in {"held", "leave"}
  BY <1>0, <1>3, OnOrError
<1>5. /\ home' \in Stores /\ dhome' \in Stores /\ stage' \in Stores /\ dstage' \in Stores
      /\ Consistent(journal, home', dhome', stage', dstage')
      /\ Consistent(djournal, home', dhome', stage', dstage')
  <2>1. CASE UNCHANGED <<home, dhome, stage, dstage>>
    BY <1>1, <2>1, StoreTypes
  <2>2. CASE RemoveHome(c)
    BY <1>1, <1>2, <2>2, RemoveTargetKeeps, StoreTypes, Constants DEF RemoveHome, Stores
  <2>3. CASE RemoveHomeFails(c)
    <3>1. PICK x \in Leftover(home[c]) : home' = [home EXCEPT ![c] = x]
      BY <2>3 DEF RemoveHomeFails
    <3>2. x \in Dirs
      BY <1>1, LeftoverType, StoreTypes DEF Stores
    <3> QED
      BY <1>1, <1>2, <2>3, <3>1, <3>2, RemoveTargetFailsKeeps, StoreTypes
         DEF RemoveHomeFails, Stores
  <2> QED
    BY <1>3, <2>1, <2>2, <2>3
<1>6. CallInv(p)'
  <2>1. CASE pc'[p] = "rollback_write"
    <3>1. pc'[p] \notin {"held", "leave"}
      BY <2>1
    <3>2. RemoveHome(c) /\ UNCHANGED loc
      BY <1>3, <3>1, ErrorType DEF Inv
    <3>3. /\ home'[c] = NoDir /\ dhome'[c] = NoDir
          /\ stage'[c] = NoDir /\ dstage'[c] = NoDir
      BY <1>1, <3>2, StoreTypes DEF RemoveHome, Stores
    <3> QED
      BY <1>0, <1>1, <2>1, <3>2, <3>3 DEF CallInv
  <2>2. CASE pc'[p] \in {"held", "leave"}
    BY <1>0, <1>1, <2>2, NotInCall DEF Calls
  <2> QED
    BY <1>4, <2>1, <2>2
<1> QED
  BY <1>0, <1>1, <1>3, <1>4, <1>5, <1>6, DirStep

\* Writing the RolledBack record.
LEMMA RollbackWriteInv == ASSUME Inv, NEW p \in Procs, RollbackWrite(p) PROVE Inv'
<1>0. /\ pc[p] = "rollback_write" /\ pc[p] \in Calls /\ WriteTerminal(p, "RolledBack")
      /\ UNCHANGED <<home, dhome, stage, dstage, lease, auto, handle, undoing, nonces>>
  BY DEF RollbackWrite, Calls, callers, directories
<1>1. /\ Consistent(journal, home, dhome, stage, dstage)
      /\ ~has_target_authority(journal)
      /\ home[journal.dst] = NoDir /\ dhome[journal.dst] = NoDir
      /\ stage[journal.dst] = NoDir /\ dstage[journal.dst] = NoDir
      /\ journal.phase = "TargetPublished" => undoing[p]
  BY <1>0, InCall DEF Inv, CallInv
<1>2. SettledNow
  <2>1. /\ \A c \in Cwds \ {journal.src} : home[c] = NoDir /\ dhome[c] = NoDir
        /\ \A c \in Cwds : stage[c] = NoDir /\ dstage[c] = NoDir
        /\ home[journal.src].kind = "whole" /\ dhome[journal.src] = home[journal.src]
        /\ journal.src \in Cwds
    BY <1>1 DEF Consistent, Whole
  <2>2. home = dhome /\ stage = dstage
    BY <2>1, StoreTypes DEF Stores
  <2> QED
    BY <2>1, <2>2 DEF SettledNow, Settled, OnlyHome
<1>3. "RolledBack" \in Terminal /\ "RolledBack" \notin TargetAuthority
  BY DEF Terminal, TargetAuthority
<1> QED
  BY <1>0, <1>1, <1>2, <1>3, TerminalStep

(***************************************************************************)
(* recover, recover_all and finalize_terminal                              *)
(***************************************************************************)
\* A step outside a call that touches neither the disk nor a handle.
LEMMA QuietStep ==
  ASSUME Inv, TypeOK', NEW p \in Procs,
         UNCHANGED <<journal, djournal, home, dhome, stage, dstage, handle,
                     undoing, nonces>>,
         \A q \in Procs \ {p} : loc'[q] = loc[q],
         lease' = lease \/ (lease = NoProc /\ lease' = p),
         \A q \in Procs \ {p} : pc'[q] = pc[q],
         pc'[p] \in {"idle", "listed"} \/ (pc'[p] \notin Calls /\ lease' = p)
  PROVE  Inv'
<1>1. JournalsInv'
  BY DEF Inv, JournalsInv, SettledNow
<1>2. \A q \in Procs : HandleInv(q)'
  <2> TAKE q \in Procs
  <2>1. handle[q] # 0 => lease' = lease
    BY ProcAssumption DEF Inv, HandleInv
  <2> QED
    BY <2>1 DEF Inv, HandleInv, Matches
<1>3. CallInv(p)'
  BY NotInCall DEF CallInv, Calls
<1>4. \A q \in Procs \ {p} : CallInv(q)'
  <2> TAKE q \in Procs \ {p}
  <2>1. CASE pc[q] \in {"idle", "listed"}
    BY <2>1 DEF CallInv, Calls
  <2>2. CASE pc[q] \notin {"idle", "listed"}
    <3>1. lease' = q /\ loc'[q] = loc[q]
      BY <2>2, ProcAssumption DEF Inv, CallInv
    <3> QED
      BY <2>2, <3>1 DEF Inv, CallInv, Calls
  <2> QED
    BY <2>1, <2>2
<1> QED
  BY <1>1, <1>2, <1>3, <1>4 DEF Inv

\* Listing the journals.
LEMMA ListJournalsInv == ASSUME Inv, NEW p \in Procs, ListJournals(p) PROVE Inv'
<1>1. /\ Goto(p, "listed") /\ TypeOK /\ "listed" \in Places
      /\ UNCHANGED <<journal, djournal, home, dhome, stage, dstage, loc, proof,
                     lease, auto, handle, undoing, nonces, faults>>
  BY DEF ListJournals, store, callers, Inv, Places
<1>2. pc' \in [Procs -> Places] /\ pc'[p] = "listed" /\ \A q \in Procs \ {p} : pc'[q] = pc[q]
  BY <1>1, GotoType
<1>3. TypeOK'
  BY <1>1, <1>2 DEF TypeOK, Places
<1> QED
  BY <1>1, <1>2, <1>3, QuietStep

\* Taking the lease of a listed journal, or skipping it.
LEMMA AcquireListedInv == ASSUME Inv, NEW p \in Procs, AcquireListed(p) PROVE Inv'
<1>1. /\ TypeOK /\ "recover" \in Places /\ "idle" \in Places
      /\ UNCHANGED <<journal, djournal, home, dhome, stage, dstage, loc, proof,
                     handle, undoing, nonces, faults>>
      /\ \/ lease = NoProc /\ lease' = p /\ auto' = auto \cup {p} /\ Goto(p, "recover")
         \/ Goto(p, "idle") /\ UNCHANGED <<lease, auto>>
  BY DEF AcquireListed, store, Inv, Places
<1>2. /\ pc' \in [Procs -> Places] /\ \A q \in Procs \ {p} : pc'[q] = pc[q]
      /\ \/ lease = NoProc /\ lease' = p /\ pc'[p] = "recover"
         \/ lease' = lease /\ pc'[p] = "idle"
      /\ auto' \subseteq Procs
  <2>1. auto \subseteq Procs
    BY DEF Inv, TypeOK
  <2> QED
    BY <1>1, <2>1, GotoType
<1>3. TypeOK'
  BY <1>1, <1>2 DEF TypeOK, Places
<1>4. "recover" \notin Calls
  BY DEF Calls
<1> QED
  BY <1>1, <1>2, <1>3, <1>4, QuietStep

\* An error outside a call.
LEMMA QuietError ==
  ASSUME Inv, NEW p \in Procs, lease = p, ReturnError(p), Works \/ Fails,
         UNCHANGED <<journal, djournal, home, dhome, stage, dstage, proof,
                     lease, auto, handle, undoing, nonces>>
  PROVE  Inv'
<1>1. /\ pc' \in [Procs -> Places] /\ pc'[p] \in {"held", "leave"}
      /\ \A q \in Procs \ {p} : pc'[q] = pc[q]
      /\ loc' \in [Procs -> Journals] /\ faults' \in 0..MaxFaults /\ TypeOK
  BY ErrorType, FaultType DEF Inv
<1>2. TypeOK'
  BY <1>1 DEF TypeOK, Places
<1>3. \A q \in Procs \ {p} : loc'[q] = loc[q]
  BY DEF ReturnError, Run, Inv, TypeOK
<1> QED
  BY <1>1, <1>2, <1>3, QuietStep DEF Calls

\* Starting a recovery.
LEMMA RecoverInv == ASSUME Inv, NEW p \in Procs, Recover(p) PROVE Inv'
<1>0. /\ lease = p
      /\ UNCHANGED <<home, dhome, stage, dstage, proof, lease, auto, handle, nonces>>
  BY DEF Recover, directories, Inv, CallInv
<1>1. CASE /\ ReturnError(p)
           /\ Works \/ Fails
           /\ UNCHANGED <<journal, djournal, undoing>>
  BY <1>0, <1>1, QuietError
<1>2. CASE /\ journal.phase # "none" /\ Works /\ SyncNamespace
           /\ undoing' = [undoing EXCEPT ![p] = TRUE]
           /\ Run(p, IF has_target_authority(journal) THEN "commit_sync"
                                                      ELSE "rollback_staging", journal)
  <2>1. journal # NoJournal /\ Continues(journal, journal) /\ TypeOK
    BY <1>2, Constants DEF Continues, Inv
  <2>2. PICK l \in Calls :
          /\ Run(p, l, journal)
          /\ \/ l = "commit_sync" /\ has_target_authority(journal)
             \/ l = "rollback_staging" /\ ~has_target_authority(journal)
    <3>1. CASE has_target_authority(journal)
      BY <1>2, <3>1 DEF Calls
    <3>2. CASE ~has_target_authority(journal)
      BY <1>2, <3>2 DEF Calls
    <3> QED
      BY <3>1, <3>2
  <2>3. journal' = journal /\ djournal' = journal
    BY <1>2 DEF SyncNamespace
  <2>4. undoing' \in [Procs -> BOOLEAN] /\ undoing'[p]
    BY <1>2 DEF Inv, TypeOK
  <2>5. pc'[p] = l /\ loc'[p] = journal
    BY <2>1, <2>2, RunType, StoreTypes DEF Places
  <2>6. CallInv(p)'
    BY <1>0, <2>1, <2>2, <2>3, <2>4, <2>5 DEF CallInv
  <2> QED
    BY <1>0, <1>2, <2>1, <2>2, <2>3, <2>4, <2>6, EnterCall
<1> QED
  BY <1>1, <1>2 DEF Recover, Works

\* A process that holds a proof and finds its record on disk may remove it.
LEMMA FinalizeInv == ASSUME Inv, NEW p \in Procs, Finalize(p) PROVE Inv'
<1> DEFINE l == IF p \in auto THEN "leave" ELSE "held"
<1>0. /\ lease = p /\ proof[p].phase \in Terminal /\ Goto(p, l)
      /\ UNCHANGED <<home, dhome, stage, dstage, loc, lease, auto, handle, undoing, nonces>>
  BY DEF Finalize, directories, callers, Inv, CallInv
<1>1. l \in Places /\ l \notin Calls /\ TypeOK /\ proof \in [Procs -> Journals]
  BY DEF Places, Calls, Inv, TypeOK
<1> HIDE DEF l
<1>2. pc' \in [Procs -> Places] /\ pc'[p] = l /\ \A q \in Procs \ {p} : pc'[q] = pc[q]
  BY <1>0, <1>1, GotoType
<1>3. CASE /\ journal \in {proof[p], NoJournal}
           /\ Works \/ Fails
           /\ journal' \in {journal, NoJournal}
           /\ djournal' = djournal \/ (djournal' = NoJournal /\ journal' = NoJournal)
           /\ proof' \in [Procs -> Journals]
  <2>1. SettledNow
    <3>1. CASE journal = NoJournal
      BY <3>1 DEF Inv, JournalsInv
    <3>2. CASE journal # NoJournal
      BY <1>0, <1>3, <3>2 DEF Inv, JournalsInv, Consistent, SettledNow
    <3> QED
      BY <3>1, <3>2
  <2>2. TypeOK'
    <3>1. faults' \in 0..MaxFaults
      BY <1>1, <1>3, FaultType
    <3>2. journal' \in Journals /\ djournal' \in Journals
      BY <1>3, StoreTypes, Constants
    <3> QED
      BY <1>0, <1>1, <1>2, <1>3, <3>1, <3>2 DEF TypeOK, Places
  <2>3. SettledNow'
    BY <1>0, <2>1 DEF SettledNow
  <2>4. JournalsInv'
    <3>1. NoJournal.nonce <= nonces
      BY Constants, BoundAssumption DEF Inv, TypeOK
    <3> QED
      BY <1>0, <1>3, <2>3, <3>1 DEF Inv, JournalsInv
  <2>5. \A q \in Procs \ {p} : CallInv(q)' /\ HandleInv(q)'
    BY <1>0, <1>2, Bystanders
  <2>6. CallInv(p)'
    BY <1>0, <1>1, <1>2, NotInCall
  <2>7. HandleInv(p)'
    <3>1. CASE journal' = NoJournal
      <4>1. ~Matches(p)'
        BY <3>1, Constants DEF Matches
      <4> QED
        BY <1>0, <4>1 DEF HandleInv, Inv
    <3>2. CASE journal' = journal /\ djournal' = djournal
      BY <1>0, <3>2 DEF HandleInv, Inv, Matches
    <3> QED
      BY <1>3, <3>1, <3>2
  <2> QED
    BY <2>2, <2>4, <2>5, <2>6, <2>7 DEF Inv
<1>4. CASE UNCHANGED <<journal, djournal, proof, faults>>
  <2>1. TypeOK'
    BY <1>0, <1>1, <1>2, <1>4 DEF TypeOK, Places
  <2> QED
    BY <1>0, <1>1, <1>2, <1>4, <2>1, QuietStep
<1>5. \/ /\ journal \in {proof[p], NoJournal}
         /\ \/ /\ Works /\ journal' = NoJournal /\ djournal' = NoJournal
               /\ proof' = [proof EXCEPT ![p] = NoJournal]
            \/ Fails /\ journal' \in {journal, NoJournal} /\ UNCHANGED <<djournal, proof>>
      \/ UNCHANGED <<journal, djournal, proof, faults>>
  BY DEF Finalize
<1>6. [proof EXCEPT ![p] = NoJournal] \in [Procs -> Journals]
  BY <1>1, Constants
<1> QED
  BY <1>1, <1>3, <1>4, <1>5, <1>6

(***************************************************************************)
(* Faults                                                                  *)
(***************************************************************************)
\* A process dies.
LEMMA CrashInv == ASSUME Inv, NEW p \in Procs, Crash(p) PROVE Inv'
<1> USE DEF Crash, store
<1>1. TypeOK'
  <2>1. faults' \in 0..MaxFaults
    BY FaultType DEF Inv
  <2> QED
    BY <2>1, BoundAssumption, Constants DEF Inv, TypeOK
<1>2. JournalsInv'
  BY DEF Inv, JournalsInv, SettledNow
<1>3. /\ pc'[p] = "idle" /\ handle'[p] = 0
      /\ \A q \in Procs \ {p} : /\ pc'[q] = pc[q] /\ handle'[q] = handle[q]
                                /\ undoing'[q] = undoing[q] /\ loc'[q] = loc[q]
  BY DEF Inv, TypeOK
<1>4. CallInv(p)' /\ HandleInv(p)'
  BY <1>3 DEF CallInv, HandleInv, Calls
<1>5. \A q \in Procs \ {p} : CallInv(q)' /\ HandleInv(q)'
  <2>1. CASE lease = p
    BY <1>3, <2>1, Bystanders
  <2>2. CASE lease # p
    <3> TAKE q \in Procs \ {p}
    <3>1. lease' = lease
      BY <2>2
    <3>2. CallInv(q) /\ HandleInv(q)
      BY DEF Inv
    <3>3. CallInv(q)'
      BY <1>3, <3>1, <3>2 DEF CallInv
    <3>4. HandleInv(q)'
      BY <1>3, <3>1, <3>2 DEF HandleInv, Matches
    <3> QED
      BY <3>3, <3>4
  <2> QED
    BY <2>1, <2>2
<1> QED
  BY <1>1, <1>2, <1>4, <1>5 DEF Inv

\* The machine dies.
LEMMA PowerLossInv == ASSUME Inv, PowerLoss PROVE Inv'
<1> USE DEF PowerLoss
<1>1. home' \in Stores /\ stage' \in Stores
  BY SurvivingType, StoreTypes
<1>2. TypeOK'
  <2>1. faults' \in 0..MaxFaults
    BY FaultType DEF Inv
  <2>2. /\ pc' \in [Procs -> Places] /\ loc' \in [Procs -> Journals]
        /\ handle' \in [Procs -> 0..MaxTx] /\ undoing' \in [Procs -> BOOLEAN]
        /\ proof' \in [Procs -> Journals] /\ lease' \in Procs \cup {NoProc}
        /\ auto' \subseteq Procs
    BY Constants, BoundAssumption DEF Places
  <2>3. journal' \in Journals /\ djournal' \in Journals
    BY StoreTypes
  <2> QED
    BY <1>1, <2>1, <2>2, <2>3 DEF Inv, TypeOK, Places, Stores
<1>3. \A q \in Procs : CallInv(q)' /\ HandleInv(q)'
  BY DEF CallInv, HandleInv, Calls
<1>4. JournalsInv'
  <2>1. CASE journal' # NoJournal
    <3>1. Consistent(journal', home, dhome, stage, dstage) /\ journal' \in Journals
      BY <2>1, StoreTypes DEF Inv, JournalsInv
    <3>2. Consistent(journal', home', home', stage', stage')
      BY <3>1, PowerLossKeeps, StoreTypes
    <3> QED
      BY <2>1, <3>2 DEF JournalsInv, Inv
  <2>2. CASE journal' = NoJournal
    <3>1. SettledNow
      BY <2>2, Constants DEF Inv, JournalsInv, Continues
    <3>2. home' = home /\ stage' = stage
      BY <3>1, SurvivingSynced, StoreTypes DEF SettledNow, Settled
    <3>3. SettledNow'
      BY <3>1, <3>2 DEF SettledNow, Settled
    <3> QED
      BY <2>2, <3>3 DEF JournalsInv, Inv
  <2> QED
    BY <2>1, <2>2
<1> QED
  BY <1>2, <1>3, <1>4 DEF Inv

(***************************************************************************)
(* The theorems                                                            *)
(***************************************************************************)
\* The session starts in one directory, without a journal.
LEMMA InitInv == Init => Inv
<1> SUFFICES ASSUME Init PROVE Inv
  OBVIOUS
<1>1. PICK c \in Cwds :
        home = [d \in Cwds |-> IF d = c THEN [kind |-> "whole", gen |-> 0, prev |-> NoCwd]
                                        ELSE NoDir]
  BY DEF Init
<1>2. home \in Stores
  BY <1>1, Constants DEF Stores, Dirs, Kinds
<1>3. OnlyHome(home) /\ \A d \in Cwds : stage[d] = NoDir
  BY <1>1 DEF OnlyHome, Init
<1>4. TypeOK
  BY <1>2, Constants, BoundAssumption DEF Init, TypeOK, Stores
<1>5. JournalsInv
  BY <1>3, Constants, BoundAssumption DEF Init, JournalsInv, SettledNow, Settled
<1>6. \A p \in Procs : CallInv(p) /\ HandleInv(p)
  BY DEF Init, CallInv, HandleInv, Calls
<1> QED
  BY <1>4, <1>5, <1>6 DEF Inv

\* Every action preserves the invariant.
LEMMA NextInv == ASSUME Inv, [Next]_vars PROVE Inv'
<1>1. CASE UNCHANGED vars
  BY <1>1 DEF vars, Inv, TypeOK, JournalsInv, SettledNow, CallInv, HandleInv, Matches
<1>2. ASSUME NEW p \in Procs, Step(p) PROVE Inv'
  BY <1>2, CopyInv, WriteStagedInv, PublishInv, WritePublishedInv, CommitSyncInv,
     CommitSourceInv, CommitStagingInv, CommitWriteInv, RollbackStagingInv,
     RollbackTargetInv, RollbackWriteInv DEF Step
<1>3. CASE Next
  BY <1>2, <1>3, AcquireInv, ReleaseInv, PrepareInv, MarkReadyInv, RollbackInv,
     ListJournalsInv, AcquireListedInv, RecoverInv, FinalizeInv, CrashInv,
     PowerLossInv DEF Next
<1> QED
  BY <1>1, <1>3

\* The inductive invariant holds in every reachable state.
THEOREM Invariance == Spec => []Inv
<1>1. Inv /\ [Next]_vars => Inv'
  BY NextInv
<1> QED
  BY InitInv, <1>1, PTL DEF Spec

\* Every variable keeps its type.
THEOREM TypeCorrect == Spec => []TypeOK
<1>1. Inv => TypeOK
  BY DEF Inv
<1> QED
  BY Invariance, <1>1, PTL

\* The copy the journal gives authority to is complete after every failed
\* step, crash and power loss, and without a journal there is one copy.
THEOREM AuthorityIsSafe == Spec => []AuthoritativeIsWhole
<1>1. ASSUME Inv PROVE AuthoritativeIsWhole
  <2>1. CASE journal = NoJournal
    BY <1>1, <2>1, Constants
       DEF Inv, JournalsInv, SettledNow, Settled, AuthoritativeIsWhole
  <2>2. CASE journal # NoJournal
    <3>1. Consistent(journal, home, dhome, stage, dstage) /\ journal \in Journals
      BY <1>1, <2>2, StoreTypes DEF Inv, JournalsInv
    <3> QED
      BY <3>1, TargetType DEF AuthoritativeIsWhole, Intact, Consistent, Whole
  <2> QED
    BY <2>1, <2>2
<1> QED
  BY Invariance, <1>1, PTL

\* A running call holds the lease and works from the record on disk.
THEOREM LocalSafe == Spec => []LocalIsCurrent
<1>1. ASSUME Inv PROVE LocalIsCurrent
  BY <1>1, InCall DEF LocalIsCurrent
<1> QED
  BY Invariance, <1>1, PTL

\* Recovery can be refused only by a target whose summary an interrupted
\* removal took.
THEOREM RecoveryRefusedOnlyWhenWedged == Spec => []RefusedOnlyWhenWedged
<1>1. ASSUME Inv, journal.phase # "none"
      PROVE  IF has_target_authority(journal)
             THEN validate_target(journal)
             ELSE /\ validate_source_summary(journal)
                  /\ home[journal.dst].kind = "none" \/ validate_target(journal) \/ Wedged
  <2>1. Consistent(journal, home, dhome, stage, dstage) /\ journal \in Journals
    BY <1>1, Constants, StoreTypes DEF Inv, JournalsInv
  <2>2. CASE has_target_authority(journal)
    BY <2>1, <2>2, TargetType DEF Consistent, validate_target
  <2>3. CASE ~has_target_authority(journal)
    <3>1. journal.gen \in Nat /\ journal.gen # 0 /\ Whole(home[journal.src], journal.gen - 1)
      BY <2>1, <2>3 DEF Consistent, Journals
    <3>2. validate_source_summary(journal)
      BY <3>1 DEF validate_source_summary, Whole, HasSummary
    <3>3. TargetLike(journal, home[journal.dst])
      BY <2>1, <2>3 DEF Consistent
    <3>4. Stub.kind = "stub"
      BY DEF Stub
    <3>5. home[journal.dst].kind = "none" \/ validate_target(journal) \/ Wedged
      BY <2>3, <3>3, <3>4, Constants DEF TargetLike, validate_target, Wedged
    <3> QED
      BY <2>3, <3>2, <3>5
  <2> QED
    BY <2>2, <2>3
<1>2. Inv => RefusedOnlyWhenWedged
  BY <1>1 DEF RefusedOnlyWhenWedged
<1> QED
  BY Invariance, <1>2, PTL

(***************************************************************************)
(* Refinement: what a step may do to the durable state                     *)
(***************************************************************************)
\* The durable journal goes on with its transaction, or the store is settled
\* and stays as it is.
DurableStep ==
  \/ Continues(djournal, djournal')
  \/ SettledNow /\ UNCHANGED <<home, dhome, stage, dstage>>

\* A step that leaves the durable journal alone.
LEMMA SameRecord ==
  ASSUME Inv, djournal' = djournal,
         djournal # NoJournal \/ UNCHANGED <<home, dhome, stage, dstage>>
  PROVE  DurableStep
<1>1. CASE djournal # NoJournal
  BY <1>1 DEF Inv, JournalsInv, Consistent, Continues, DurableStep
<1>2. CASE djournal = NoJournal
  BY <1>2, Constants DEF Inv, JournalsInv, Continues, DurableStep
<1> QED
  BY <1>1, <1>2

\* A step that writes the next record of the current transaction.
LEMMA NextRecord ==
  ASSUME Inv, Continues(djournal, journal), NEW ph \in Phases,
         has_target_authority(journal) => ph \in TargetAuthority,
         djournal' \in {djournal, journal, [journal EXCEPT !.phase = ph]}
  PROVE  DurableStep
<1> DEFINE k == [journal EXCEPT !.phase = ph]
<1>1. /\ k.phase = ph /\ ph # "none" /\ k.nonce = journal.nonce
      /\ k.gen = journal.gen /\ k.src = journal.src /\ k.dst = journal.dst
  BY StoreTypes DEF Journals, Phases, SourceAuthority, TargetAuthority
<1>2. Continues(journal, k)
  BY <1>1 DEF Continues, has_target_authority
<1>3. Continues(djournal, k) /\ Continues(djournal, djournal)
  BY <1>2, ContinuesTrans DEF Continues
<1> QED
  BY <1>3 DEF DurableStep

\* A step that makes the current journal the durable one.
LEMMA CurrentRecord ==
  ASSUME Inv, djournal' \in {journal, djournal},
         djournal # NoJournal \/ UNCHANGED <<home, dhome, stage, dstage>>,
         SettledNow => UNCHANGED <<home, dhome, stage, dstage>>
  PROVE  DurableStep
<1>1. CASE djournal' = djournal
  BY <1>1, SameRecord
<1>2. CASE djournal' = journal /\ journal # djournal
  BY <1>2 DEF Inv, JournalsInv, DurableStep
<1> QED
  BY <1>1, <1>2

\* The steps of a call.
LEMMA StepDurable == ASSUME Inv, NEW p \in Procs, Step(p) PROVE DurableStep
<1>1. pc[p] \in Calls
  BY DEF Step, Copy, WriteStaged, Publish, WritePublished, CommitSync, CommitSource,
         CommitStaging, CommitWrite, RollbackStaging, RollbackTarget, RollbackWrite, Calls
<1>2. loc[p] = journal /\ Continues(djournal, journal) /\ djournal # NoJournal
  BY <1>1, InCall
<1>3. CASE djournal' = djournal
  BY <1>2, <1>3, SameRecord
<1>4. CASE Copy(p) \/ Publish(p) \/ CommitSource(p) \/ CommitStaging(p)
           \/ RollbackStaging(p) \/ RollbackTarget(p)
  BY <1>3, <1>4
     DEF Copy, Publish, CommitSource, CommitStaging, RollbackStaging, RollbackTarget
<1>5. /\ "Staged" \in Phases /\ "TargetPublished" \in Phases /\ "Committed" \in Phases
      /\ "RolledBack" \in Phases /\ "Committed" \in TargetAuthority
  BY DEF Phases, SourceAuthority, TargetAuthority
<1>6. CASE WriteStaged(p)
  <2>1. ~has_target_authority(journal)
    BY <1>6 DEF Inv, CallInv, WriteStaged, has_target_authority, TargetAuthority
  <2>2. djournal' \in {djournal, [journal EXCEPT !.phase = "Staged"]}
    BY <1>2, <1>6 DEF WriteStaged, WriteJournal
  <2> QED
    BY <1>2, <1>5, <2>1, <2>2, NextRecord
<1>7. CASE WritePublished(p)
  <2>1. ~has_target_authority(journal)
    BY <1>7 DEF Inv, CallInv, WritePublished, has_target_authority, TargetAuthority
  <2>2. djournal' \in {djournal, [journal EXCEPT !.phase = "TargetPublished"]}
    BY <1>2, <1>7 DEF WritePublished, WriteJournal, WriteJournalFails
  <2> QED
    BY <1>2, <1>5, <2>1, <2>2, NextRecord
<1>8. CASE CommitSync(p)
  <2>1. djournal' \in {djournal, journal}
    BY <1>8 DEF CommitSync, SyncNamespace
  <2> QED
    BY <1>2, <2>1, <1>3 DEF DurableStep
<1>9. CASE CommitWrite(p)
  <2>1. djournal' \in {djournal, [journal EXCEPT !.phase = "Committed"]}
    BY <1>2, <1>9 DEF CommitWrite, WriteTerminal, WriteJournal, WriteJournalFails
  <2> QED
    BY <1>2, <1>5, <2>1, NextRecord
<1>10. CASE RollbackWrite(p)
  <2>1. ~has_target_authority(journal)
    BY <1>10 DEF Inv, CallInv, RollbackWrite
  <2>2. djournal' \in {djournal, [journal EXCEPT !.phase = "RolledBack"]}
    BY <1>2, <1>10 DEF RollbackWrite, WriteTerminal, WriteJournal, WriteJournalFails
  <2> QED
    BY <1>2, <1>5, <2>1, <2>2, NextRecord
<1> QED
  BY <1>4, <1>6, <1>7, <1>8, <1>9, <1>10 DEF Step

\* Every step.
LEMMA NextDurable == ASSUME Inv, [Next]_vars PROVE DurableStep
<1>1. ASSUME UNCHANGED <<journal, djournal, home, dhome, stage, dstage>> PROVE DurableStep
  BY <1>1, SameRecord
<1>2. CASE UNCHANGED vars
  BY <1>1, <1>2 DEF vars
<1>3. ASSUME NEW p \in Procs,
             Acquire(p) \/ Release(p) \/ Rollback(p) \/ ListJournals(p)
               \/ AcquireListed(p) \/ Crash(p)
      PROVE  DurableStep
  BY <1>1, <1>3 DEF Acquire, Release, Rollback, ListJournals, AcquireListed, Crash, store
<1>4. ASSUME NEW p \in Procs, Prepare(p) PROVE DurableStep
  <2>1. UNCHANGED <<home, dhome, stage, dstage>> /\ journal.phase = "none"
    BY <1>4 DEF Prepare, directories
  <2>2. SettledNow
    BY <2>1 DEF Inv, JournalsInv, Consistent
  <2> QED
    BY <2>1, <2>2 DEF DurableStep
<1>5. ASSUME NEW p \in Procs, MarkReady(p) PROVE DurableStep
  <2>1. Continues(djournal, journal)
    BY <1>5, Matched DEF MarkReady
  <2>2. djournal' \in {djournal, [journal EXCEPT !.phase = "Ready"]}
    BY <1>5 DEF MarkReady, WriteJournal, WriteJournalFails
  <2>3. "Ready" \in Phases /\ "Ready" \in TargetAuthority
    BY DEF Phases, TargetAuthority
  <2> QED
    BY <2>1, <2>2, <2>3, NextRecord
<1>6. ASSUME NEW p \in Procs, Recover(p) PROVE DurableStep
  <2>1. UNCHANGED <<home, dhome, stage, dstage>> /\ djournal' \in {journal, djournal}
    BY <1>6 DEF Recover, directories, SyncNamespace
  <2> QED
    BY <2>1, CurrentRecord
<1>7. ASSUME NEW p \in Procs, Finalize(p) PROVE DurableStep
  <2>1. UNCHANGED <<home, dhome, stage, dstage>> /\ proof[p].phase \in Terminal
    BY <1>7 DEF Finalize, directories
  <2>2. djournal' = djournal \/ journal \in {proof[p], NoJournal}
    BY <1>7 DEF Finalize
  <2>3. CASE djournal' = djournal
    BY <2>1, <2>3, SameRecord
  <2>4. CASE journal \in {proof[p], NoJournal}
    <3>1. journal = NoJournal \/ journal.phase \in Terminal
      BY <2>1, <2>4
    <3>2. SettledNow
      BY <3>1 DEF Inv, JournalsInv, Consistent, SettledNow
    <3> QED
      BY <2>1, <3>2 DEF DurableStep
  <2> QED
    BY <2>2, <2>3, <2>4
<1>8. ASSUME PowerLoss PROVE DurableStep
  <2>1. djournal' \in {journal, djournal}
    BY <1>8 DEF PowerLoss
  <2>2. SettledNow => UNCHANGED <<home, dhome, stage, dstage>>
    BY <1>8, SurvivingSynced, StoreTypes DEF PowerLoss, SettledNow, Settled
  <2>3. djournal = NoJournal => SettledNow
    BY Constants DEF Inv, JournalsInv, Continues
  <2> QED
    BY <2>1, <2>2, <2>3, CurrentRecord
<1> QED
  BY <1>2, <1>3, <1>4, <1>5, <1>6, <1>7, <1>8, StepDurable DEF Next

\* The session's home on disk, as the durable journal has it.
HomeByJournal ==
  djournal # NoJournal =>
    /\ durable_cwd = authoritative_cwd(djournal) /\ durable_cwd \in Cwds
    /\ dhome[durable_cwd].gen \in Nat
    /\ has_target_authority(djournal) => dhome[durable_cwd].gen = djournal.gen
    /\ ~has_target_authority(djournal) => dhome[durable_cwd].gen + 1 = djournal.gen
    /\ djournal.src # djournal.dst

\* The session's home on disk, as a settled store has it.
HomeByStore ==
  SettledNow =>
    durable_cwd \in Cwds /\ \A c \in Cwds : dhome[c].kind # "none" <=> c = durable_cwd

\* The durable journal says where the home on disk is.
LEMMA DurableHome == Inv => HomeByJournal
<1> SUFFICES ASSUME Inv, djournal # NoJournal PROVE HomeByJournal
  BY DEF HomeByJournal
<1>1. Consistent(djournal, home, dhome, stage, dstage) /\ djournal \in Journals
  BY StoreTypes DEF Inv, JournalsInv
<1>2. durable_cwd = authoritative_cwd(djournal) /\ durable_cwd \in Cwds
  BY <1>1 DEF durable_cwd, authoritative_cwd, Consistent
<1>3. dhome[durable_cwd] \in Dirs /\ djournal.gen \in Nat /\ djournal.gen # 0
  BY <1>1, <1>2, StoreTypes DEF Stores, Journals, Consistent
<1>4. has_target_authority(djournal) => dhome[durable_cwd].gen = djournal.gen
  BY <1>1, <1>2, TargetType DEF Consistent, authoritative_cwd
<1>5. ~has_target_authority(djournal) => dhome[durable_cwd].gen = djournal.gen - 1
  BY <1>1, <1>2 DEF Consistent, authoritative_cwd, Whole
<1> QED
  BY <1>1, <1>2, <1>3, <1>4, <1>5 DEF Dirs, Consistent, HomeByJournal

\* In a settled store the durable home is the one directory there is.
LEMMA SettledDurable == Inv => HomeByStore
<1> SUFFICES ASSUME Inv, SettledNow PROVE HomeByStore
  BY DEF HomeByStore
<1>1. PICK c \in Cwds : dhome[c].kind = "whole" /\ \A d \in Cwds \ {c} : dhome[d] = NoDir
  BY DEF SettledNow, Settled, OnlyHome
<1>2. \A d \in Cwds : dhome[d].kind # "none" <=> d = c
  BY <1>1, Constants
<1>3. CASE djournal = NoJournal
  <2>1. durable_cwd = CHOOSE d \in Cwds : dhome[d].kind # "none"
    BY <1>3, Constants DEF durable_cwd
  <2> QED
    BY <1>2, <2>1 DEF HomeByStore
<1>4. CASE djournal # NoJournal
  <2>1. Consistent(djournal, home, dhome, stage, dstage)
    BY <1>4 DEF Inv, JournalsInv
  <2>2. \A d \in Cwds : home[d].kind # "none" <=> d = authoritative_cwd(djournal)
    BY <2>1, SettledHome, StoreTypes DEF SettledNow
  <2> QED
    BY <1>4, <2>2, DurableHome DEF SettledNow, Settled, HomeByJournal, HomeByStore
<1> QED
  BY <1>3, <1>4

\* Both, after a step.
LEMMA HomesNext == Inv' => HomeByJournal' /\ HomeByStore'
BY DurableHome, SettledDurable, PTL

\* Every step moves the durable home or leaves it.
LEMMA HomeStep ==
  ASSUME Inv, Inv', DurableStep
  PROVE  [Home!Next]_(Home!vars)
<1> DEFINE gen == dhome[durable_cwd].gen
<1>1. CASE Continues(djournal, djournal')
  <2>1. djournal # NoJournal /\ djournal' # NoJournal
    BY <1>1, Constants DEF Continues
  <2>2. /\ durable_cwd = authoritative_cwd(djournal) /\ durable_cwd \in Cwds
        /\ gen \in Nat
        /\ has_target_authority(djournal) => gen = djournal.gen
        /\ ~has_target_authority(djournal) => gen + 1 = djournal.gen
        /\ djournal.src # djournal.dst
    BY <2>1, DurableHome DEF HomeByJournal
  <2>3. /\ durable_cwd' = authoritative_cwd(djournal') /\ durable_cwd' \in Cwds
        /\ gen' \in Nat
        /\ has_target_authority(djournal') => gen' = djournal'.gen
        /\ ~has_target_authority(djournal') => gen' + 1 = djournal'.gen
    BY <2>1, HomesNext DEF HomeByJournal
  <2>4. /\ djournal'.gen = djournal.gen /\ djournal'.src = djournal.src
        /\ djournal'.dst = djournal.dst
        /\ has_target_authority(djournal) => has_target_authority(djournal')
    BY <1>1 DEF Continues
  <2> HIDE DEF gen
  <2>5. CASE has_target_authority(djournal) <=> has_target_authority(djournal')
    <3>1. durable_cwd' = durable_cwd
      BY <2>2, <2>3, <2>4, <2>5 DEF authoritative_cwd
    <3>2. gen' = gen
      BY <2>2, <2>3, <2>4, <2>5
    <3> QED
      BY <3>1, <3>2 DEF Home!vars, gen
  <2>6. CASE ~has_target_authority(djournal) /\ has_target_authority(djournal')
    <3>1. durable_cwd' # durable_cwd
      BY <2>2, <2>3, <2>4, <2>6 DEF authoritative_cwd
    <3>2. gen' = gen + 1
      BY <2>2, <2>3, <2>4, <2>6
    <3> QED
      BY <2>3, <3>1, <3>2 DEF Home!Next, Home!Move, gen
  <2> QED
    BY <2>4, <2>5, <2>6
<1>2. CASE SettledNow /\ UNCHANGED <<home, dhome, stage, dstage>>
  <2>1. durable_cwd \in Cwds /\ \A c \in Cwds : dhome[c].kind # "none" <=> c = durable_cwd
    BY <1>2, SettledDurable DEF HomeByStore
  <2>2. /\ durable_cwd' \in Cwds
        /\ \A c \in Cwds : dhome'[c].kind # "none" <=> c = durable_cwd'
    <3>1. SettledNow'
      BY <1>2 DEF SettledNow
    <3> QED
      BY <3>1, HomesNext DEF HomeByStore
  <2>3. durable_cwd' = durable_cwd
    BY <1>2, <2>1, <2>2
  <2> QED
    BY <1>2, <2>3 DEF Home!vars
<1> QED
  BY <1>1, <1>2 DEF DurableStep

\* The durable state of a relocation implements SessionHome: no failed step,
\* crash or power loss loses the session's home, doubles it or takes an
\* earlier generation back.
THEOREM Refinement == Spec => ImplementsSessionHome
<1>1. Init => Home!Init
  <2> SUFFICES ASSUME Init PROVE Home!Init
    OBVIOUS
  <2>1. PICK c \in Cwds :
          home = [d \in Cwds |-> IF d = c THEN [kind |-> "whole", gen |-> 0, prev |-> NoCwd]
                                          ELSE NoDir]
    BY DEF Init
  <2>2. Inv /\ SettledNow
    BY InitInv DEF Init, Inv, JournalsInv
  <2>3. durable_cwd \in Cwds /\ dhome[durable_cwd].kind # "none"
    BY <2>2, SettledDurable DEF HomeByStore
  <2>4. durable_cwd = c
    BY <2>1, <2>3, Constants DEF Init
  <2>5. dhome[durable_cwd].gen = 0
    BY <2>1, <2>4 DEF Init
  <2> QED
    BY <2>3, <2>5 DEF Home!Init
<1>2. Inv /\ Inv' /\ [Next]_vars => [Home!Next]_(Home!vars)
  BY NextDurable, HomeStep
<1> QED
  BY Invariance, <1>1, <1>2, PTL DEF Spec, ImplementsSessionHome, Home!Spec

================================================================================
