----------------------------- MODULE RelocationView -----------------------------
(***************************************************************************)
(* A reader of the session store beside running relocations                *)
(* (relocation/view.rs): the journals are loaded, then each working        *)
(* directory is scanned in turn, then a path is selected for the session.  *)
(* The reader takes no lease, so every step of Relocation may fall between *)
(* two of its steps.                                                       *)
(***************************************************************************)
EXTENDS Relocation, FiniteSets

CONSTANTS MaxReadFaults  \* bound: faults up to the end of a read
ASSUME ReadBoundAssumption == MaxReadFaults \in Nat

VARIABLES reading,      \* the reader is between load_journals and select
          view,         \* the journal it loaded
          todo,         \* the directories it has still to scan
          all,          \* all_candidates: where it saw the session's directory
          persisted,    \* persisted_candidates: where it saw a summary too
          during        \* history: authorities and transactions during the read

reader == <<reading, view, todo, all, persisted, during>>
vvars == <<vars, reader>>

ViewTypeOK ==
  /\ TypeOK
  /\ reading \in BOOLEAN
  /\ view \in Journals
  /\ todo \subseteq Cwds
  /\ persisted \subseteq all /\ all \subseteq Cwds
  /\ during \in [cwds : SUBSET Cwds, txs : SUBSET (1..MaxTx)]

ViewInit ==
  /\ Init
  /\ reading = FALSE
  /\ view = NoJournal
  /\ todo = {} /\ all = {} /\ persisted = {}
  /\ during = [cwds |-> {}, txs |-> {}]

current_cwd ==
  IF journal.phase = "none" THEN CHOOSE c \in Cwds : home[c].kind # "none"
                            ELSE authoritative_cwd(journal)

InFlight == IF journal.phase = "none" THEN {} ELSE {journal.nonce}

load_journals ==
  /\ ~reading /\ reading' = TRUE
  /\ faults <= MaxReadFaults
  /\ view' = journal
  /\ todo' = Cwds
  /\ during' = [cwds |-> {current_cwd}, txs |-> InFlight]
  /\ UNCHANGED <<vars, all, persisted>>

\* Mutant: only directories with a summary are recorded, and only as persisted.
load_persisted(c) ==
  /\ reading /\ c \in todo
  /\ todo' = todo \ {c}
  /\ persisted' = IF HasSummary(home[c]) THEN persisted \cup {c} ELSE persisted
  /\ UNCHANGED <<vars, reading, view, all, during>>

load_candidates(c) ==
  /\ reading /\ c \in todo
  /\ todo' = todo \ {c}
  /\ all' = IF home[c].kind = "none" THEN all ELSE all \cup {c}
  /\ persisted' = IF HasSummary(home[c]) THEN persisted \cup {c} ELSE persisted
  /\ UNCHANGED <<vars, reading, view, during>>

validate_authoritative_dir(j) ==
  IF has_target_authority(j) THEN validate_target(j) ELSE validate_source_summary(j)

\* Mutant: any journal moves the authority to the target.
selected_target ==
  IF view.phase # "none" THEN all \cap {view.dst}
                         ELSE {c \in persisted : persisted = {c}}

\* The paths select may return: one, or none for an error or no match.
selected ==
  IF view.phase # "none"
  THEN {c \in all : c = authoritative_cwd(view) /\ validate_authoritative_dir(view)}
  ELSE {c \in persisted : persisted = {c}}

\* Mutant: the scan may stop early.
select_early ==
  /\ reading /\ reading' = FALSE
  /\ view' = NoJournal
  /\ todo' = {} /\ all' = {} /\ persisted' = {}
  /\ during' = [cwds |-> {}, txs |-> {}]
  /\ UNCHANGED vars

\* find_persisted_session_dir: the path goes to the caller, the view is dropped.
select ==
  /\ reading /\ todo = {}
  /\ reading' = FALSE
  /\ view' = NoJournal
  /\ all' = {} /\ persisted' = {}
  /\ during' = [cwds |-> {}, txs |-> {}]
  /\ UNCHANGED <<vars, todo>>

\* A step of the store while the reader may be under way.
Beside ==
  /\ Next
  /\ reading => faults' <= MaxReadFaults
  /\ during' = IF reading
               THEN [cwds |-> during.cwds \cup {current_cwd'},
                     txs |-> during.txs \cup InFlight']
               ELSE during
  /\ UNCHANGED <<reading, view, todo, all, persisted>>

ViewNext ==
  \/ Beside
  \/ load_journals
  \/ \E c \in Cwds : load_candidates(c)
  \/ select

ViewSpec == ViewInit /\ [][ViewNext]_vvars /\ Fairness

\* A path the reader returns was the session's home at some moment of the
\* read, unless two relocations ran during that one read (load, select).
ReaderNotMisled ==
  [][select => selected \subseteq during.cwds \/ Cardinality(during.txs) > 1]_vvars

\* The reader misses the session, or reports an error, only if a relocation
\* was under way during the read (select).
MissedOnlyDuringRelocation == [][select /\ selected = {} => during.txs # {}]_vvars

(***************************************************************************)
(* The inductive invariant of a read: during one relocation at most, the   *)
(* session is in the directory s it was in when the journals were loaded   *)
(* or in the directory d it is being moved to, and it stays in s until d   *)
(* takes over.                                                             *)
(***************************************************************************)
AtMostOne(S) == \A m, n \in S : m = n

\* What a read that found no journal has seen of a session between s and d.
Traced(s, d) ==
  /\ s \in during.cwds /\ during.cwds \subseteq {s, d}
  /\ persisted \subseteq {s, d}
  /\ \A c \in Cwds \ {s, d} : home[c] = NoDir
  /\ during.cwds = {s} => s \in todo \cup persisted
  /\ during.txs = {} => d = s
  /\ \A j \in {journal, djournal} :
       j.nonce \in during.txs => {j.src, j.dst} = {s, d}

ReadInv ==
  /\ current_cwd \in during.cwds
  /\ InFlight \subseteq during.txs /\ during.txs \subseteq 1..nonces
  /\ view.phase # "none" =>
       view.nonce \in during.txs /\ authoritative_cwd(view) \in during.cwds
  /\ view.phase = "none" /\ AtMostOne(during.txs) =>
       \E s, d \in Cwds : Traced(s, d)

ViewInv ==
  /\ Inv /\ ViewTypeOK
  /\ reading => ReadInv
  /\ ~reading => all = {} /\ persisted = {}

=================================================================================
