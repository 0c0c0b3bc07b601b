----------------------------- MODULE LeaderElection -----------------------------
(***************************************************************************)
(* Which process is the leader (leader/lock.rs, connect_or_spawn in        *)
(* leader/mod.rs, run_leader in agent/app.rs, run_leader_server in         *)
(* leader/server.rs).  Clients and leaders meet at two paths, leader.lock, *)
(* which is flocked, and leader.sock, which the leader's listener is bound *)
(* to.  A lock is on the inode a process opened, and the path may by then  *)
(* name another inode or none: open and flock are two steps here, and so   *)
(* are the two removals of LeaderLock's Drop.                              *)
(*                                                                         *)
(* A process lives once and runs either connect_or_spawn or run_leader.    *)
(* Deadlines are steps that are always possible; versions are who is older *)
(* than everybody else.                                                    *)
(***************************************************************************)
EXTENDS Naturals

CONSTANTS Procs,        \* processes
          NoProc,       \* no process
          Old           \* those that run an older binary than the others

MAX_SELF_SPAWN_ATTEMPTS == 3

VARIABLES path,         \* the inode leader.lock names, 0 for none
          inodes,       \* inodes made so far
          pidtext,      \* the PID leader.lock holds
          sock,         \* the process whose bind made leader.sock
          pc,           \* where each process is
          fd,           \* the inode each process has open
          holds,        \* the inode each process has flocked
          srv,          \* the IPC server task of each process
          tries,        \* self_spawn_attempts
          timer         \* the PID zombie_timer is keyed to

files == <<path, inodes, pidtext, sock>>
vars == <<path, inodes, pidtext, sock, pc, fd, holds, srv, tries, timer>>

ClientPlaces == {"fast", "c_open", "c_try", "c_held", "evicting", "release", "spawn",
                 "wait", "probe", "connected", "failed"}
StartPlaces == {"open", "try", "reopen", "retry"}
LeadPlaces == {"pid", "clean", "remove", "bind", "started", "lead"}
DropPlaces == {"drop_lock", "drop_sock", "drop_fd"}
Places == ClientPlaces \cup StartPlaces \cup LeadPlaces \cup DropPlaces
            \cup {"off", "exited", "dead"}

TypeOK ==
  /\ path \in Nat /\ inodes \in Nat
  /\ pidtext \in Procs \cup {NoProc} /\ sock \in Procs \cup {NoProc}
  /\ pc \in [Procs -> Places]
  /\ fd \in [Procs -> Nat] /\ holds \in [Procs -> Nat]
  /\ srv \in [Procs -> {"none", "bound", "closing", "done"}]
  /\ tries \in [Procs -> Nat]
  /\ timer \in [Procs -> Procs \cup {NoProc}]

Init ==
  /\ path = 0 /\ inodes = 0 /\ pidtext = NoProc /\ sock = NoProc
  /\ pc = [p \in Procs |-> "off"]
  /\ fd = [p \in Procs |-> 0] /\ holds = [p \in Procs |-> 0]
  /\ srv = [p \in Procs |-> "none"]
  /\ tries = [p \in Procs |-> 0]
  /\ timer = [p \in Procs |-> NoProc]

Goto(p, l) == pc' = [pc EXCEPT ![p] = l]
Alive(p) == pc[p] \notin {"off", "dead"}

(***************************************************************************)
(* LeaderLock                                                              *)
(***************************************************************************)
\* open_lock_file: the inode at the path, or a new one.
Open(p) ==
  /\ path' = IF path = 0 THEN inodes + 1 ELSE path
  /\ inodes' = IF path = 0 THEN inodes + 1 ELSE inodes
  /\ pidtext' = IF path = 0 THEN NoProc ELSE pidtext
  /\ fd' = [fd EXCEPT ![p] = path']
  /\ UNCHANGED <<sock, holds>>

Contended(p) == \E q \in Procs : holds[q] = fd[p]

Lock(p) ==
  /\ ~Contended(p)
  /\ holds' = [holds EXCEPT ![p] = fd[p]]
  /\ UNCHANGED fd

Close(p) ==
  /\ fd' = [fd EXCEPT ![p] = 0]
  /\ holds' = [holds EXCEPT ![p] = 0]

\* The PID goes to the inode that is open, which the path may no longer name.
write_pid(p) ==
  /\ pidtext' = IF fd[p] = path THEN p ELSE pidtext
  /\ UNCHANGED <<path, inodes, sock>>

\* remove_file of leader.sock, whoever bound it.
RemoveSocket == sock' = NoProc /\ UNCHANGED <<path, inodes, pidtext>>

(***************************************************************************)
(* run_leader and run_leader_server                                        *)
(***************************************************************************)
LeaderOpen(p) ==
  /\ \/ pc[p] = "open" /\ Goto(p, "try")
     \/ pc[p] = "reopen" /\ Goto(p, "retry")
  /\ Open(p)
  /\ UNCHANGED <<srv, tries, timer>>

LeaderTry(p) ==
  /\ pc[p] \in {"try", "retry"}
  /\ \/ Lock(p) /\ Goto(p, "pid")
     \/ /\ Contended(p) /\ Close(p)
        /\ \/ pc[p] = "try" /\ sock # NoProc /\ Goto(p, "dead")  \* listener_is_ready
           \/ pc[p] = "try" /\ sock = NoProc /\ Goto(p, "reopen")
           \/ pc[p] = "retry" /\ Goto(p, "reopen")
           \/ pc[p] = "retry" /\ Goto(p, "dead")                 \* LEADER_ACQUIRE_TIMEOUT
  /\ UNCHANGED <<files, srv, tries, timer>>

WritePid(p) ==
  /\ pc[p] = "pid"
  /\ write_pid(p)
  /\ Goto(p, "clean")
  /\ UNCHANGED <<fd, holds, srv, tries, timer>>

\* cleanup_socket in run_leader, then the removal run_leader_server starts with.
CleanSocket(p) ==
  /\ \/ pc[p] = "clean" /\ Goto(p, "remove")
     \/ pc[p] = "remove" /\ Goto(p, "bind")
  /\ RemoveSocket
  /\ UNCHANGED <<fd, holds, srv, tries, timer>>

\* Binding fails when the path exists.
Bind(p) ==
  /\ pc[p] = "bind"
  /\ Goto(p, "started")
  /\ IF sock = NoProc
     THEN sock' = p /\ srv' = [srv EXCEPT ![p] = "bound"]
     ELSE srv' = [srv EXCEPT ![p] = "done"] /\ UNCHANGED sock
  /\ UNCHANGED <<path, inodes, pidtext, fd, holds, tries, timer>>

\* Phase 5 waits for any socket at the path, and gives up if there is none.
AwaitSocket(p) ==
  /\ pc[p] = "started"
  /\ \/ sock # NoProc /\ Goto(p, "lead") /\ UNCHANGED srv
     \/ /\ sock = NoProc /\ Goto(p, "drop_lock")
        /\ srv' = [srv EXCEPT ![p] = IF srv[p] = "bound" THEN "closing" ELSE srv[p]]
  /\ UNCHANGED <<files, fd, holds, tries, timer>>

\* The server leaves its loop: the last client left, or the leader was
\* cancelled for an update.
Stop(p) ==
  /\ pc[p] = "lead" /\ srv[p] = "bound"
  /\ srv' = [srv EXCEPT ![p] = "closing"]
  /\ UNCHANGED <<files, pc, fd, holds, tries, timer>>

\* An I/O error before the server runs returns from run_leader.
GiveUp(p) ==
  /\ pc[p] \in {"pid", "clean"}
  /\ Goto(p, "drop_lock")
  /\ UNCHANGED <<files, fd, holds, srv, tries, timer>>

\* The server removes the socket once it has drained the workspace, which may
\* outlast run_leader: a cancelled leader waits two seconds, not for the server.
ServerRemoves(p) ==
  /\ srv[p] = "closing"
  /\ RemoveSocket
  /\ srv' = [srv EXCEPT ![p] = "done"]
  /\ UNCHANGED <<pc, fd, holds, tries, timer>>

MainReturns(p) ==
  /\ pc[p] = "lead" /\ srv[p] # "bound"
  /\ Goto(p, "drop_lock")
  /\ UNCHANGED <<files, fd, holds, srv, tries, timer>>

\* Drop: the lock path, the socket path, then the descriptor.
DropLockPath(p) ==
  /\ pc[p] = "drop_lock"
  /\ path' = 0 /\ pidtext' = NoProc
  /\ Goto(p, "drop_sock")
  /\ UNCHANGED <<inodes, sock, fd, holds, srv, tries, timer>>

DropSocketPath(p) ==
  /\ pc[p] = "drop_sock"
  /\ RemoveSocket
  /\ Goto(p, "drop_fd")
  /\ UNCHANGED <<fd, holds, srv, tries, timer>>

DropFile(p) ==
  /\ pc[p] = "drop_fd"
  /\ Close(p)
  /\ Goto(p, "exited")
  /\ UNCHANGED <<files, srv, tries, timer>>

\* What the kernel takes from a process that ends without Drop.
Gone(q) ==
  /\ fd' = [fd EXCEPT ![q] = 0]
  /\ holds' = [holds EXCEPT ![q] = 0]
  /\ srv' = [srv EXCEPT ![q] = "none"]

\* The process ends: after Drop, by a signal, process::exit or a crash.
Exit(p) ==
  /\ Alive(p)
  /\ Gone(p)
  /\ Goto(p, "dead")
  /\ UNCHANGED <<files, tries, timer>>

(***************************************************************************)
(* connect_or_spawn                                                        *)
(***************************************************************************)
\* A listener that is bound may answer; a hung leader never does, so a connect
\* may also fail at any time.
Connectable == sock # NoProc /\ srv[sock] = "bound"
RecordedDead == pidtext # NoProc /\ ~Alive(pidtext)
should_evict(p) == sock \in Old /\ p \notin Old

StartClient(p) ==
  /\ pc[p] = "off"
  /\ Goto(p, "fast")
  /\ UNCHANGED <<files, fd, holds, srv, tries, timer>>

\* The fast path skips a socket whose leader is dead by the lock file, and a
\* leader that does not answer or is too old.
FastPath(p) ==
  /\ pc[p] = "fast"
  /\ \/ /\ Connectable /\ ~should_evict(p)
        /\ ~RecordedDead
        /\ Goto(p, "connected")
     \/ Goto(p, "c_open")
  /\ UNCHANGED <<files, fd, holds, srv, tries, timer>>

ClientOpen(p) ==
  /\ pc[p] = "c_open"
  /\ Open(p)
  /\ Goto(p, "c_try")
  /\ UNCHANGED <<srv, tries, timer>>

ClientTry(p) ==
  /\ pc[p] = "c_try"
  /\ \/ Lock(p) /\ Goto(p, "c_held")
     \/ Contended(p) /\ Close(p) /\ Goto(p, "probe")
  /\ UNCHANGED <<files, srv, tries, timer>>

\* With the lock in hand: adopt a leader that is there all the same, evict it
\* if it is old, or go on to spawn one.
ClientHolds(p) ==
  /\ pc[p] = "c_held"
  /\ LET there == Connectable /\ pidtext # NoProc /\ Alive(pidtext) IN
     \/ there /\ ~should_evict(p) /\ Close(p) /\ Goto(p, "connected")
     \/ there /\ should_evict(p) /\ Goto(p, "evicting") /\ UNCHANGED <<fd, holds>>
     \/ Goto(p, "release") /\ UNCHANGED <<fd, holds>>
  /\ UNCHANGED <<files, srv, tries, timer>>

\* A signal to the PID q: p goes on at l.
Kill(p, q, l) ==
  /\ q # NoProc /\ Alive(q) /\ q # p
  /\ pc' = [pc EXCEPT ![p] = l, ![q] = "dead"]
  /\ Gone(q)

\* request_leader_vacate: the leader is asked to relaunch, which is its own
\* Stop, or the PID in the lock file is signalled.
request_leader_vacate(p, l) ==
  \/ Goto(p, l) /\ UNCHANGED <<fd, holds, srv>>
  \/ Kill(p, pidtext, l)

\* evict_leader: the lock is released afterwards whether or not the leader went.
EvictLeader(p) ==
  /\ pc[p] = "evicting"
  /\ request_leader_vacate(p, "release")
  /\ UNCHANGED <<files, tries, timer>>

Release(p) ==
  /\ pc[p] = "release"
  /\ Close(p)
  /\ Goto(p, "spawn")
  /\ UNCHANGED <<files, srv, tries, timer>>

Spawn(p) ==
  /\ pc[p] = "spawn"
  /\ \E q \in Procs :
       pc[q] = "off" /\ pc' = [pc EXCEPT ![p] = "wait", ![q] = "open"]
  /\ UNCHANGED <<files, fd, holds, srv, tries, timer>>

\* A spawner takes whatever leader answers; past the deadline it tries again,
\* or fails: after its last attempt, or on a socket that refused it.
AwaitSpawned(p) ==
  /\ pc[p] = "wait"
  /\ \/ Connectable /\ Goto(p, "connected") /\ UNCHANGED tries
     \/ /\ tries' = [tries EXCEPT ![p] = @ + 1]
        /\ Goto(p, IF tries'[p] >= MAX_SELF_SPAWN_ATTEMPTS THEN "failed" ELSE "c_open")
     \/ Goto(p, "failed") /\ UNCHANGED tries
  /\ UNCHANGED <<files, fd, holds, srv, timer>>

\* live_intellihelper_lock_holder: the PID in the lock file, if it is the one that
\* holds the flock on that file.
live_lock_holder ==
  IF pidtext # NoProc /\ path # 0 /\ holds[pidtext] = path THEN pidtext ELSE NoProc

\* The lock is held: adopt the leader, have it vacate if it is old, or time
\* the holder that does not answer and evict it when the deadline finds the
\* same PID (zombie_evict_decision).
Probe(p) ==
  /\ pc[p] = "probe"
  /\ \/ /\ Connectable /\ ~should_evict(p) /\ Goto(p, "connected")
        /\ UNCHANGED <<fd, holds, srv, timer>>
     \/ /\ Connectable /\ should_evict(p)
        /\ request_leader_vacate(p, "c_open")
        /\ timer' = [timer EXCEPT ![p] = NoProc]
     \/ /\ live_lock_holder = NoProc \/ live_lock_holder # timer[p]
        /\ Goto(p, "c_open")
        /\ timer' = [timer EXCEPT ![p] = live_lock_holder]
        /\ UNCHANGED <<fd, holds, srv>>
     \/ /\ live_lock_holder # NoProc /\ live_lock_holder = timer[p]
        /\ \/ Goto(p, "c_open") /\ UNCHANGED <<fd, holds, srv, timer>>   \* Wait
           \/ /\ Kill(p, timer[p], "c_open")
              /\ timer' = [timer EXCEPT ![p] = NoProc]
     \/ Goto(p, "failed") /\ UNCHANGED <<fd, holds, srv, timer>>         \* refused
  /\ UNCHANGED <<files, tries>>

\* Every step but the two that end a leader with Drop.
UndroppedStep(p) ==
  \/ StartClient(p) \/ FastPath(p) \/ ClientOpen(p) \/ ClientTry(p) \/ ClientHolds(p)
  \/ EvictLeader(p) \/ Release(p) \/ Spawn(p) \/ AwaitSpawned(p) \/ Probe(p)
  \/ LeaderOpen(p) \/ LeaderTry(p) \/ WritePid(p) \/ CleanSocket(p) \/ Bind(p)
  \/ AwaitSocket(p) \/ ServerRemoves(p) \/ MainReturns(p)
  \/ DropLockPath(p) \/ DropSocketPath(p) \/ DropFile(p) \/ Exit(p)

Next == \E p \in Procs : UndroppedStep(p) \/ Stop(p) \/ GiveUp(p)

Spec == Init /\ [][Next]_vars

\* The same system with leaders that only ever die: no Drop cleans up.
UndroppedSpec == Init /\ [][\E p \in Procs : UndroppedStep(p)]_vars

\* A leader's socket is its own from bind until it stops serving: "only the
\* flock holder may create/remove the socket and it holds the flock for its
\* whole lifetime, so a racing leader can never clobber a live socket"
\* (run_leader).
SingleLeader == \A p \in Procs : srv[p] = "bound" => sock = p

(***************************************************************************)
(* Why SingleLeader holds as long as no leader runs its Drop: leader.lock  *)
(* keeps its inode, so there is one flock to hold, and whoever touches the *)
(* socket holds it.  LeaderElection_proofs proves it of UndroppedSpec.     *)
(***************************************************************************)
OneInode ==
  \A p \in Procs : /\ fd[p] # 0 => fd[p] = path
                   /\ holds[p] # 0 => holds[p] = fd[p]
                   /\ pc[p] \in {"try", "retry", "c_try"} => fd[p] # 0
OneHolder == \A p, q \in Procs : holds[p] # 0 /\ holds[q] = holds[p] => p = q
LeadersHold == \A p \in Procs : pc[p] \in LeadPlaces => holds[p] # 0
SocketOfHolder ==
  \A p \in Procs : /\ pc[p] = "bind" => sock = NoProc
                   /\ pc[p] \in {"started", "lead"} => sock = p
Serving == \A p \in Procs : srv[p] = IF pc[p] \in {"started", "lead"} THEN "bound" ELSE "none"
NothingDropped == \A p \in Procs : pc[p] \notin DropPlaces \cup {"exited"}

UndroppedInv == /\ TypeOK /\ OneInode /\ OneHolder /\ LeadersHold
                /\ SocketOfHolder /\ Serving /\ NothingDropped

================================================================================
