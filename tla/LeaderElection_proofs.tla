-------------------------- MODULE LeaderElection_proofs --------------------------
(***************************************************************************)
(* As long as no leader runs its Drop, the flock does what run_leader says *)
(* of it, for any number of processes of any versions: a leader that was   *)
(* killed or crashed leaves both paths behind, leader.lock keeps its       *)
(* inode, and a bound socket is never taken from its leader.               *)
(***************************************************************************)
EXTENDS LeaderElection, TLAPS

\* Nothing has been opened, locked or bound yet.
LEMMA InitUndropped == Init => UndroppedInv
  BY DEF Init, UndroppedInv, TypeOK, OneInode, OneHolder, LeadersHold, SocketOfHolder,
         Serving, NothingDropped, Places, LeadPlaces, DropPlaces

\* The invariant speaks of the variables only.
LEMMA Stutter == UndroppedInv /\ UNCHANGED vars => UndroppedInv'
  BY DEF UndroppedInv, TypeOK, OneInode, OneHolder, LeadersHold, SocketOfHolder, Serving,
         NothingDropped, vars

\* open_lock_file never leaves the inode the path names while it names one.
LEMMA OpenKeeps ==
  ASSUME UndroppedInv, NEW p \in Procs, NEW l \in {"try", "retry", "c_try"},
         pc[p] \in {"open", "reopen", "c_open"},
         Open(p), Goto(p, l), UNCHANGED <<srv, tries, timer>>
  PROVE  UndroppedInv'
<1>1. path' \in Nat /\ path' # 0 /\ (path # 0 => path' = path) /\ inodes' \in Nat
  BY DEF Open, UndroppedInv, TypeOK
<1>2. TypeOK'
  BY <1>1 DEF UndroppedInv, TypeOK, Open, Goto, Places, StartPlaces, ClientPlaces
<1>3. OneInode'
  BY <1>1 DEF UndroppedInv, TypeOK, OneInode, Open, Goto
<1>4. OneHolder' /\ LeadersHold' /\ SocketOfHolder' /\ Serving' /\ NothingDropped'
  BY DEF UndroppedInv, TypeOK, OneHolder, LeadersHold, SocketOfHolder, Serving,
         NothingDropped, Open, Goto, LeadPlaces, DropPlaces
<1>. QED  BY <1>2, <1>3, <1>4 DEF UndroppedInv

\* A flock is granted on the inode the path names, to one process.
LEMMA LockKeeps ==
  ASSUME UndroppedInv, NEW p \in Procs, NEW l \in {"pid", "c_held"},
         pc[p] \in {"try", "retry", "c_try"},
         Lock(p), Goto(p, l), UNCHANGED <<files, srv, tries, timer>>
  PROVE  UndroppedInv'
<1>1. TypeOK'
  BY DEF UndroppedInv, TypeOK, Lock, Goto, files, Places, LeadPlaces, ClientPlaces
<1>2. OneInode'
  BY DEF UndroppedInv, TypeOK, OneInode, Lock, Goto, files
<1>3. OneHolder'
  BY DEF UndroppedInv, TypeOK, OneInode, OneHolder, Lock, Contended, Goto, files
<1>4. LeadersHold' /\ SocketOfHolder' /\ Serving' /\ NothingDropped'
  BY DEF UndroppedInv, TypeOK, OneInode, LeadersHold, SocketOfHolder, Serving,
         NothingDropped, Lock, Goto, files, LeadPlaces, DropPlaces
<1>. QED  BY <1>1, <1>2, <1>3, <1>4 DEF UndroppedInv

\* Closing the descriptor leaves a process that leads nobody.
LEMMA CloseKeeps ==
  ASSUME UndroppedInv, NEW p \in Procs, NEW l \in {"reopen", "dead", "probe", "connected", "spawn"},
         pc[p] \notin LeadPlaces,
         Close(p), Goto(p, l), UNCHANGED <<files, srv, tries, timer>>
  PROVE  UndroppedInv'
<1>1. TypeOK'
  BY DEF UndroppedInv, TypeOK, Close, Goto, files, Places, StartPlaces, ClientPlaces
<1>2. OneInode' /\ OneHolder'
  BY DEF UndroppedInv, TypeOK, OneInode, OneHolder, Close, Goto, files
<1>3. LeadersHold' /\ SocketOfHolder' /\ Serving' /\ NothingDropped'
  BY DEF UndroppedInv, TypeOK, LeadersHold, SocketOfHolder, Serving,
         NothingDropped, Close, Goto, files, LeadPlaces, DropPlaces
<1>. QED  BY <1>1, <1>2, <1>3 DEF UndroppedInv

\* A client that goes on to another of its places with nothing but its own
\* counters changed.
LEMMA ClientMoves ==
  ASSUME UndroppedInv, NEW p \in Procs,
         NEW l \in {"fast", "c_open", "evicting", "release", "wait", "connected", "failed"},
         pc[p] \notin LeadPlaces,
         Goto(p, l), UNCHANGED <<files, fd, holds, srv>>,
         tries' \in [Procs -> Nat],
         timer' \in [Procs -> Procs \cup {NoProc}]
  PROVE  UndroppedInv'
<1>1. TypeOK'
  BY DEF UndroppedInv, TypeOK, Goto, files, Places, ClientPlaces
<1>2. OneInode' /\ OneHolder'
  BY DEF UndroppedInv, TypeOK, OneInode, OneHolder, Goto, files
<1>3. LeadersHold' /\ SocketOfHolder' /\ Serving' /\ NothingDropped'
  BY DEF UndroppedInv, TypeOK, LeadersHold, SocketOfHolder, Serving,
         NothingDropped, Goto, files, LeadPlaces, DropPlaces
<1>. QED  BY <1>1, <1>2, <1>3 DEF UndroppedInv

\* A process that ends gives up its flock and its listener; both paths stay.
LEMMA EndKeeps ==
  ASSUME UndroppedInv, NEW q \in Procs,
         Gone(q), Goto(q, "dead"), UNCHANGED <<files, tries, timer>>
  PROVE  UndroppedInv'
<1>1. TypeOK'
  BY DEF UndroppedInv, TypeOK, Gone, Goto, files, Places
<1>2. OneInode' /\ OneHolder'
  BY DEF UndroppedInv, TypeOK, OneInode, OneHolder, Gone, Goto, files
<1>3. LeadersHold' /\ SocketOfHolder' /\ Serving' /\ NothingDropped'
  BY DEF UndroppedInv, TypeOK, LeadersHold, SocketOfHolder, Serving,
         NothingDropped, Gone, Goto, files, LeadPlaces, DropPlaces
<1>. QED  BY <1>1, <1>2, <1>3 DEF UndroppedInv

\* The same with the client that sent the signal going on.
LEMMA KillKeeps ==
  ASSUME UndroppedInv, NEW p \in Procs, NEW q \in Procs, NEW l \in {"release", "c_open"},
         pc[p] \notin LeadPlaces,
         Kill(p, q, l), UNCHANGED <<files, tries>>,
         timer' \in [Procs -> Procs \cup {NoProc}]
  PROVE  UndroppedInv'
<1>1. TypeOK'
  BY DEF UndroppedInv, TypeOK, Kill, Gone, files, Places, ClientPlaces
<1>2. OneInode' /\ OneHolder'
  BY DEF UndroppedInv, TypeOK, OneInode, OneHolder, Kill, Gone, files
<1>3. LeadersHold' /\ SocketOfHolder' /\ Serving' /\ NothingDropped'
  BY DEF UndroppedInv, TypeOK, LeadersHold, SocketOfHolder, Serving,
         NothingDropped, Kill, Gone, files, LeadPlaces, DropPlaces
<1>. QED  BY <1>1, <1>2, <1>3 DEF UndroppedInv

\* Two leaders in run_leader after its lock are one.
LEMMA OneInside ==
  ASSUME UndroppedInv, NEW p \in Procs, NEW q \in Procs,
         pc[p] \in LeadPlaces, pc[q] \in LeadPlaces
  PROVE  p = q
<1>1. holds[p] # 0 /\ holds[q] # 0
  BY DEF UndroppedInv, LeadersHold
<1>2. holds[p] = path /\ holds[q] = path
  BY <1>1 DEF UndroppedInv, OneInode, TypeOK
<1>. QED  BY <1>1, <1>2 DEF UndroppedInv, OneHolder

LEMMA WritePidKeeps ==
  ASSUME UndroppedInv, NEW p \in Procs, WritePid(p)
  PROVE  UndroppedInv'
<1>1. TypeOK'
  BY DEF UndroppedInv, TypeOK, WritePid, write_pid, Goto, Places, LeadPlaces
<1>2. OneInode' /\ OneHolder'
  BY DEF UndroppedInv, TypeOK, OneInode, OneHolder, WritePid, write_pid, Goto
<1>3. LeadersHold' /\ SocketOfHolder' /\ Serving' /\ NothingDropped'
  BY DEF UndroppedInv, TypeOK, LeadersHold, SocketOfHolder, Serving,
         NothingDropped, WritePid, write_pid, Goto, LeadPlaces, DropPlaces
<1>. QED  BY <1>1, <1>2, <1>3 DEF UndroppedInv

\* The socket is removed only by the holder of the flock, before it binds.
LEMMA CleanSocketKeeps ==
  ASSUME UndroppedInv, NEW p \in Procs, CleanSocket(p)
  PROVE  UndroppedInv'
<1>1. TypeOK'
  BY DEF UndroppedInv, TypeOK, CleanSocket, RemoveSocket, Goto, Places, LeadPlaces
<1>2. OneInode' /\ OneHolder'
  BY DEF UndroppedInv, TypeOK, OneInode, OneHolder, CleanSocket, RemoveSocket, Goto
<1>3. LeadersHold' /\ Serving' /\ NothingDropped'
  BY DEF UndroppedInv, TypeOK, LeadersHold, Serving,
         NothingDropped, CleanSocket, RemoveSocket, Goto, LeadPlaces, DropPlaces
<1>4. pc[p] \in LeadPlaces
  BY DEF CleanSocket, LeadPlaces
<1>5. \A q \in Procs : pc[q] \in {"started", "lead"} => q = p
  BY <1>4, OneInside DEF LeadPlaces
<1>6. SocketOfHolder'
  BY <1>5 DEF UndroppedInv, TypeOK, SocketOfHolder, CleanSocket, RemoveSocket, Goto
<1>. QED  BY <1>1, <1>2, <1>3, <1>6 DEF UndroppedInv

\* Binding finds the path free, since nobody else could bind in between.
LEMMA BindKeeps ==
  ASSUME NoProc \notin Procs, UndroppedInv, NEW p \in Procs, Bind(p)
  PROVE  UndroppedInv'
<1>0. sock = NoProc
  BY DEF UndroppedInv, SocketOfHolder, Bind
<1>1. TypeOK'
  BY <1>0 DEF UndroppedInv, TypeOK, Bind, Goto, Places, LeadPlaces
<1>2. OneInode' /\ OneHolder'
  BY DEF UndroppedInv, TypeOK, OneInode, OneHolder, Bind, Goto
<1>3. LeadersHold' /\ Serving' /\ NothingDropped'
  BY <1>0 DEF UndroppedInv, TypeOK, LeadersHold, Serving,
         NothingDropped, Bind, Goto, LeadPlaces, DropPlaces
<1>5. \A q \in Procs : pc[q] \in {"bind", "started", "lead"} => q = p
  BY OneInside DEF Bind, LeadPlaces
<1>6. SocketOfHolder'
  BY <1>0, <1>5 DEF UndroppedInv, TypeOK, SocketOfHolder, Bind, Goto
<1>. QED  BY <1>1, <1>2, <1>3, <1>6 DEF UndroppedInv

\* Phase 5 finds the leader's own socket.
LEMMA AwaitSocketKeeps ==
  ASSUME NoProc \notin Procs, UndroppedInv, NEW p \in Procs, AwaitSocket(p)
  PROVE  UndroppedInv'
<1>0. sock = p
  BY DEF UndroppedInv, SocketOfHolder, AwaitSocket
<1>1. Goto(p, "lead") /\ UNCHANGED <<files, srv, fd, holds, tries, timer>>
  BY <1>0 DEF AwaitSocket
<1>2. TypeOK'
  BY <1>1 DEF UndroppedInv, TypeOK, Goto, files, Places, LeadPlaces
<1>3. OneInode' /\ OneHolder'
  BY <1>1 DEF UndroppedInv, TypeOK, OneInode, OneHolder, AwaitSocket, Goto, files
<1>4. LeadersHold' /\ SocketOfHolder' /\ Serving' /\ NothingDropped'
  BY <1>0, <1>1 DEF UndroppedInv, TypeOK, LeadersHold, SocketOfHolder, Serving,
         NothingDropped, AwaitSocket, Goto, files, LeadPlaces, DropPlaces
<1>. QED  BY <1>2, <1>3, <1>4 DEF UndroppedInv

\* A spawned leader starts at the lock.
LEMMA SpawnKeeps ==
  ASSUME UndroppedInv, NEW p \in Procs, Spawn(p)
  PROVE  UndroppedInv'
<1>0. PICK q \in Procs : pc[q] = "off" /\ pc' = [pc EXCEPT ![p] = "wait", ![q] = "open"]
  BY DEF Spawn
<1>1. TypeOK'
  BY <1>0 DEF UndroppedInv, TypeOK, Spawn, files, Places, ClientPlaces, StartPlaces
<1>2. OneInode' /\ OneHolder'
  BY <1>0 DEF UndroppedInv, TypeOK, OneInode, OneHolder, Spawn, files
<1>3. LeadersHold' /\ SocketOfHolder' /\ Serving' /\ NothingDropped'
  BY <1>0 DEF UndroppedInv, TypeOK, LeadersHold, SocketOfHolder, Serving,
         NothingDropped, Spawn, files, LeadPlaces, DropPlaces
<1>. QED  BY <1>1, <1>2, <1>3 DEF UndroppedInv

LEMMA TryKeeps ==
  ASSUME UndroppedInv, NEW p \in Procs, LeaderTry(p) \/ ClientTry(p)
  PROVE  UndroppedInv'
<1>1. pc[p] \in {"try", "retry", "c_try"}
  BY DEF LeaderTry, ClientTry
<1>2. CASE Lock(p) /\ \E l \in {"pid", "c_held"} : Goto(p, l)
  BY <1>1, <1>2, LockKeeps DEF LeaderTry, ClientTry
<1>3. CASE Close(p) /\ \E l \in {"reopen", "dead", "probe"} : Goto(p, l)
  BY <1>1, <1>3, CloseKeeps DEF LeaderTry, ClientTry, LeadPlaces
<1>. QED  BY <1>2, <1>3 DEF LeaderTry, ClientTry

\* A client that holds the lock, and one that waits for the leader it spawned.
LEMMA ClientKeeps ==
  ASSUME UndroppedInv, NEW p \in Procs,
         \/ StartClient(p) \/ FastPath(p) \/ ClientHolds(p) \/ AwaitSpawned(p)
  PROVE  UndroppedInv'
<1>1. CASE StartClient(p) \/ FastPath(p)
  BY <1>1, ClientMoves DEF StartClient, FastPath, LeadPlaces, UndroppedInv, TypeOK
<1>2. CASE ClientHolds(p)
  <2>1. pc[p] \notin LeadPlaces
    BY <1>2 DEF ClientHolds, LeadPlaces
  <2>2. CASE Close(p) /\ Goto(p, "connected")
    BY <1>2, <2>1, <2>2, CloseKeeps DEF ClientHolds
  <2>3. CASE (Goto(p, "evicting") \/ Goto(p, "release")) /\ UNCHANGED <<fd, holds>>
    <3>1. UNCHANGED <<files, fd, holds, srv, tries, timer>>
      BY <1>2, <2>3 DEF ClientHolds
    <3>. QED  BY <2>1, <2>3, <3>1, ClientMoves DEF UndroppedInv, TypeOK
  <2>. QED  BY <1>2, <2>2, <2>3 DEF ClientHolds
<1>3. CASE AwaitSpawned(p)
  <2>1. /\ pc[p] \notin LeadPlaces
        /\ UNCHANGED <<files, fd, holds, srv, timer>>
        /\ \E l \in {"connected", "failed", "c_open"} : Goto(p, l)
    BY <1>3 DEF AwaitSpawned, LeadPlaces
  <2>2. tries' \in [Procs -> Nat]
    BY <1>3 DEF AwaitSpawned, UndroppedInv, TypeOK
  <2>. QED  BY <2>1, <2>2, ClientMoves DEF UndroppedInv, TypeOK
<1>. QED  BY <1>1, <1>2, <1>3

\* A leader asked to go, or the process the lock file names killed.
LEMMA VacateKeeps ==
  ASSUME UndroppedInv, NEW p \in Procs, NEW l \in {"release", "c_open"},
         pc[p] \notin LeadPlaces,
         request_leader_vacate(p, l), UNCHANGED <<files, tries>>,
         timer' \in [Procs -> Procs \cup {NoProc}]
  PROVE  UndroppedInv'
<1>1. CASE Goto(p, l) /\ UNCHANGED <<fd, holds, srv>>
  BY <1>1, ClientMoves DEF UndroppedInv, TypeOK
<1>2. CASE Kill(p, pidtext, l)
  <2>1. pidtext \in Procs
    BY <1>2 DEF Kill, UndroppedInv, TypeOK
  <2>. QED  BY <1>2, <2>1, KillKeeps
<1>. QED  BY <1>1, <1>2 DEF request_leader_vacate

\* Waiting on a held lock: adopt, have an old leader vacate, time the holder,
\* or kill it.
LEMMA ProbeKeeps ==
  ASSUME UndroppedInv, NEW p \in Procs, Probe(p)
  PROVE  UndroppedInv'
<1>1. /\ pc[p] \notin LeadPlaces
      /\ UNCHANGED <<files, tries>>
      /\ tries' \in [Procs -> Nat]
  BY DEF Probe, LeadPlaces, UndroppedInv, TypeOK
<1>2. live_lock_holder \in Procs \cup {NoProc}
  BY DEF live_lock_holder, UndroppedInv, TypeOK
<1>3. timer' \in [Procs -> Procs \cup {NoProc}]
  BY <1>2 DEF Probe, UndroppedInv, TypeOK
<1>4. CASE /\ Goto(p, "connected") \/ Goto(p, "c_open") \/ Goto(p, "failed")
           /\ UNCHANGED <<fd, holds, srv>>
  BY <1>1, <1>3, <1>4, ClientMoves
<1>5. CASE request_leader_vacate(p, "c_open")
  BY <1>1, <1>3, <1>5, VacateKeeps
<1>6. CASE Kill(p, timer[p], "c_open")
  <2>1. timer[p] \in Procs
    BY <1>6 DEF Kill, UndroppedInv, TypeOK
  <2>. QED  BY <1>1, <1>3, <1>6, <2>1, KillKeeps
<1>. QED  BY <1>4, <1>5, <1>6 DEF Probe

\* No other step is possible: nothing is closing or being dropped.
LEMMA NoDropStep ==
  ASSUME UndroppedInv, NEW p \in Procs
  PROVE  /\ ~ServerRemoves(p) /\ ~MainReturns(p)
         /\ ~DropLockPath(p) /\ ~DropSocketPath(p) /\ ~DropFile(p)
  BY DEF UndroppedInv, Serving, NothingDropped, DropPlaces, ServerRemoves, MainReturns,
         DropLockPath, DropSocketPath, DropFile

\* Every step but a leader's Drop keeps one flock, held by whoever touches the
\* socket.
LEMMA StepKeeps ==
  ASSUME NoProc \notin Procs, UndroppedInv, NEW p \in Procs, UndroppedStep(p)
  PROVE  UndroppedInv'
<1>1. CASE LeaderOpen(p) \/ ClientOpen(p)
  BY <1>1, OpenKeeps DEF LeaderOpen, ClientOpen
<1>2. CASE LeaderTry(p) \/ ClientTry(p)
  BY <1>2, TryKeeps
<1>3. CASE StartClient(p) \/ FastPath(p) \/ ClientHolds(p) \/ AwaitSpawned(p)
  BY <1>3, ClientKeeps
<1>4. CASE EvictLeader(p)
  <2>1. timer' \in [Procs -> Procs \cup {NoProc}] /\ pc[p] \notin LeadPlaces
    BY <1>4 DEF EvictLeader, LeadPlaces, UndroppedInv, TypeOK
  <2>. QED  BY <1>4, <2>1, VacateKeeps DEF EvictLeader
<1>5. CASE Release(p)
  BY <1>5, CloseKeeps DEF Release, LeadPlaces
<1>6. CASE Exit(p)
  BY <1>6, EndKeeps DEF Exit
<1>. QED
  BY <1>1, <1>2, <1>3, <1>4, <1>5, <1>6, NoDropStep, SpawnKeeps, ProbeKeeps, WritePidKeeps,
     CleanSocketKeeps, BindKeeps, AwaitSocketKeeps DEF UndroppedStep

\* The flock protocol of run_leader and connect_or_spawn keeps its invariant as
\* long as no leader runs LeaderLock's Drop.
THEOREM FlockProtocol == ASSUME NoProc \notin Procs PROVE UndroppedSpec => []UndroppedInv
<1>1. UndroppedInv /\ [\E p \in Procs : UndroppedStep(p)]_vars => UndroppedInv'
  BY StepKeeps, Stutter
<1>. QED  BY InitUndropped, <1>1, PTL DEF UndroppedSpec

\* "Only the flock holder may create/remove the socket ... so a racing leader
\* can never clobber a live socket" (run_leader) is true of leaders that are
\* killed, exit or crash at any step, however many there are: what breaks it is
\* Drop.
THEOREM SingleLeaderWithoutDrop == ASSUME NoProc \notin Procs PROVE UndroppedSpec => []SingleLeader
<1>1. UndroppedInv => SingleLeader
  BY DEF UndroppedInv, SingleLeader, Serving, SocketOfHolder
<1>. QED  BY FlockProtocol, <1>1, PTL

================================================================================
