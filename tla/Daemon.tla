-------------------------------- MODULE Daemon --------------------------------
(***************************************************************************)
(* The daemon singleton (internal/daemon/lock.go, daemon.go, client.go and *)
(* cmd/punakawand/main.go).  Daemon processes claim a lock file that holds *)
(* a pid, open the store, bind the fixed loopback port, publish it in a    *)
(* port file, start the outbox pool, and undo all of it when they stop.    *)
(* Clients start a daemon when they find none, and restore the port file   *)
(* of one that lost it.  Every system call on a shared file or on the port *)
(* is a step; a process can end between any two.                           *)
(*                                                                         *)
(* A file is known by the process that created it: a process creates the   *)
(* lock once.  A pid is used by one process (the package leaves reuse of   *)
(* pids out of its scope), and all daemons are given the same port.        *)
(***************************************************************************)
EXTENDS Naturals

CONSTANTS
  Procs,        \* daemon processes, by pid
  NoOne,        \* no pid
  Clients,      \* clients of the daemon
  MaxAttempts   \* maxAcquireAttempts

ASSUME DaemonAssumption == NoOne \notin Procs /\ MaxAttempts \in Nat \ {0}

VARIABLES
  at,          \* process -> the step of Run or Shutdown it is about to take
  seen,        \* process -> the pid it has read from the lock file
  tries,       \* process -> attempts of AcquireSingleton that are over
  lock,        \* daemon.lock: who created it, and whether its pid is written
  portFile,    \* daemon.port is there
  client,      \* client -> the step of ensureRunning it is about to take
  robbed       \* history: a process has removed the lock file of a live one

vars == <<at, seen, tries, lock, portFile, client, robbed>>

\* The steps, in the order of Run and of Shutdown.
Claiming == {"create", "exists", "seen", "stale"}
Starting == {"locked", "open", "bound", "published"}
Failing == {"failed", "closing", "release"}
Stopping == {"stopping", "drained", "closed"}
Steps == {"off", "write", "serving", "gone"} \cup Claiming \cup Starting \cup Failing \cup Stopping

\* Those that have the lock, the port, and the outbox pool running.
Holding == {"serving"} \cup Starting \cup Failing \cup Stopping
Listening == {"bound", "published", "serving", "failed"}
Working == {"serving", "stopping"}

NoLock == [by |-> NoOne, written |-> FALSE]
Alive(p) == p \in Procs /\ at[p] \notin {"off", "gone"}
Serving == \E p \in Procs : at[p] = "serving"

Go(p, from, to) == at[p] = from /\ at' = [at EXCEPT ![p] = to]

Init ==
  /\ at = [p \in Procs |-> "off"]
  /\ seen = [p \in Procs |-> NoOne]
  /\ tries = [p \in Procs |-> 0]
  /\ lock = NoLock
  /\ portFile = FALSE
  /\ client = [c \in Clients |-> "idle"]
  /\ robbed = FALSE

-----------------------------------------------------------------------------
(* AcquireSingleton. *)

\* punakawand run
Launch(p) ==
  /\ Go(p, "off", "create")
  /\ UNCHANGED <<seen, tries, lock, portFile, client, robbed>>

\* O_CREATE | O_EXCL
CreateLock(p) ==
  /\ IF lock = NoLock
     THEN Go(p, "create", "write") /\ lock' = [by |-> p, written |-> FALSE]
     ELSE Go(p, "create", "exists") /\ UNCHANGED lock
  /\ UNCHANGED <<seen, tries, portFile, client, robbed>>

\* The pid goes to the file that was created, wherever the path leads by now.
WriteLock(p) ==
  /\ Go(p, "write", "locked")
  /\ lock' = IF lock.by = p THEN [lock EXCEPT !.written = TRUE] ELSE lock
  /\ UNCHANGED <<seen, tries, portFile, client, robbed>>

\* os.Remove: the file the path leads to, whoever created it.
RemoveLock(p) ==
  /\ lock' = NoLock
  /\ robbed' = (robbed \/ (lock.by # p /\ Alive(lock.by)))

WriteFails(p) ==
  /\ Go(p, "write", "gone") /\ RemoveLock(p)
  /\ UNCHANGED <<seen, tries, portFile, client>>

\* Mutant: The loop counts an attempt, and its body counts it again.
RetryCountedTwice(p, from) ==
  /\ Go(p, from, IF tries[p] + 1 < MaxAttempts THEN "create" ELSE "gone")
  /\ tries' = [tries EXCEPT ![p] = @ + 2]

\* The next attempt, if there is one.
Retry(p, from) ==
  /\ Go(p, from, IF tries[p] + 1 < MaxAttempts THEN "create" ELSE "gone")
  /\ tries' = [tries EXCEPT ![p] = @ + 1]

\* readLockPID: a file without a pid is an error.
ReadLock(p) ==
  /\ \/ lock = NoLock /\ Retry(p, "exists") /\ UNCHANGED seen
     \/ lock # NoLock /\ ~lock.written /\ Go(p, "exists", "gone") /\ UNCHANGED <<seen, tries>>
     \/ /\ lock.written /\ Go(p, "exists", "seen")
        /\ seen' = [seen EXCEPT ![p] = lock.by]
        /\ UNCHANGED tries
  /\ UNCHANGED <<lock, portFile, client, robbed>>

\* Mutant: Whether the owner is alive is not looked at.
CheckOwnerUnchecked(p) ==
  /\ Go(p, "seen", "stale")
  /\ UNCHANGED <<seen, tries, lock, portFile, client, robbed>>

\* Mutant: A start that is refused releases the lock as failed ones do.
CheckOwnerReleasing(p) ==
  /\ Go(p, "seen", IF Alive(seen[p]) THEN "release" ELSE "stale")
  /\ UNCHANGED <<seen, tries, lock, portFile, client, robbed>>

\* isProcessAlive; ErrAlreadyRunning if it is.
CheckOwner(p) ==
  /\ Go(p, "seen", IF Alive(seen[p]) THEN "gone" ELSE "stale")
  /\ UNCHANGED <<seen, tries, lock, portFile, client, robbed>>

RemoveStale(p) ==
  /\ Retry(p, "stale") /\ RemoveLock(p)
  /\ UNCHANGED <<seen, portFile, client>>

-----------------------------------------------------------------------------
(* Run. *)

\* CheckLocation and storage.Open.
OpenStore(p) ==
  /\ Go(p, "locked", "open")
  /\ UNCHANGED <<seen, tries, lock, portFile, client, robbed>>

\* Token, reconciliation, worktree janitor, and the port, which one process has.
BindPort(p) ==
  /\ \A q \in Procs : at[q] \notin Listening
  /\ Go(p, "open", "bound")
  /\ UNCHANGED <<seen, tries, lock, portFile, client, robbed>>

Publish(p) ==
  /\ Go(p, "bound", "published")
  /\ portFile' = TRUE
  /\ UNCHANGED <<seen, tries, lock, client, robbed>>

\* Mutant: The pool is started before the port is bound.
StartPoolUnbound(p) ==
  /\ at[p] \in {"open", "published"}
  /\ at' = [at EXCEPT ![p] = "serving"]
  /\ UNCHANGED <<seen, tries, lock, portFile, client, robbed>>

StartPool(p) ==
  /\ Go(p, "published", "serving")
  /\ UNCHANGED <<seen, tries, lock, portFile, client, robbed>>

\* A step of Run fails; what is undone is what has been done.
RunFails(p) ==
  /\ \/ Go(p, "locked", "release") /\ UNCHANGED portFile
     \/ Go(p, "open", "closing") /\ UNCHANGED portFile
     \/ Go(p, "bound", "failed") /\ UNCHANGED portFile
     \/ Go(p, "published", "failed") /\ portFile' = FALSE
  /\ UNCHANGED <<seen, tries, lock, client, robbed>>

CloseFailed(p) ==
  /\ Go(p, "failed", "closing") \/ Go(p, "closing", "release")
  /\ UNCHANGED <<seen, tries, lock, portFile, client, robbed>>

-----------------------------------------------------------------------------
(* Shutdown. *)

\* A signal; the transport goes first.
StopTransport(p) ==
  /\ Go(p, "serving", "stopping")
  /\ UNCHANGED <<seen, tries, lock, portFile, client, robbed>>

\* The pool and the adapters, then the store.
StopPool(p) ==
  /\ Go(p, "stopping", "drained") \/ Go(p, "drained", "closed")
  /\ UNCHANGED <<seen, tries, lock, portFile, client, robbed>>

\* Mutant: The lock is released before the port file is removed.
UnpublishLast(p) ==
  /\ \/ Go(p, "closed", "unlocked") /\ RemoveLock(p) /\ UNCHANGED portFile
     \/ Go(p, "unlocked", "gone") /\ portFile' = FALSE /\ UNCHANGED <<lock, robbed>>
  /\ UNCHANGED <<seen, tries, client>>

Unpublish(p) ==
  /\ Go(p, "closed", "release")
  /\ portFile' = FALSE
  /\ UNCHANGED <<seen, tries, lock, client, robbed>>

\* Lock.Release, the last thing a process does.
Release(p) ==
  /\ Go(p, "release", "gone") /\ RemoveLock(p)
  /\ UNCHANGED <<seen, tries, portFile, client>>

Crash(p) ==
  /\ Alive(p)
  /\ at' = [at EXCEPT ![p] = "gone"]
  /\ UNCHANGED <<seen, tries, lock, portFile, client, robbed>>

-----------------------------------------------------------------------------
(* ensureRunning.  A client that finds a live pid in the lock file waits    *)
(* for its daemon and changes nothing, as does one that cannot read it.    *)

Status(c) ==
  /\ client[c] = "idle"
  /\ lock = NoLock \/ (lock.written /\ ~Alive(lock.by))
  /\ client' = [client EXCEPT ![c] = "absent"]
  /\ UNCHANGED <<at, seen, tries, lock, portFile, robbed>>

\* Ready at the canonical address, which may answer all the same.
AskDefault(c) ==
  /\ client[c] = "absent"
  /\ client' = [client EXCEPT ![c] = IF Serving THEN "restore" ELSE "spawn"]
  /\ UNCHANGED <<at, seen, tries, lock, portFile, robbed>>

\* Mutant: The daemon that answers is used, and stays hidden from the others.
RestoreNothing(c) ==
  /\ client[c] = "restore"
  /\ client' = [client EXCEPT ![c] = "idle"]
  /\ UNCHANGED <<at, seen, tries, lock, portFile, robbed>>

Restore(c) ==
  /\ client[c] = "restore"
  /\ portFile' = TRUE
  /\ client' = [client EXCEPT ![c] = "idle"]
  /\ UNCHANGED <<at, seen, tries, lock, robbed>>

\* A detached process is started, if the bound on processes leaves one.
Spawn(c) ==
  /\ client[c] = "spawn"
  /\ \/ \E p \in Procs : Go(p, "off", "create")
     \/ (\A p \in Procs : at[p] # "off") /\ UNCHANGED at
  /\ client' = [client EXCEPT ![c] = "idle"]
  /\ UNCHANGED <<seen, tries, lock, portFile, robbed>>

\* What a process does of itself, and what happens to it.
Proceed(p) ==
  \/ CreateLock(p) \/ WriteLock(p) \/ ReadLock(p) \/ CheckOwner(p) \/ RemoveStale(p)
  \/ OpenStore(p) \/ BindPort(p) \/ Publish(p) \/ StartPool(p)
  \/ CloseFailed(p) \/ StopPool(p) \/ Unpublish(p) \/ Release(p)
Happens(p) == Launch(p) \/ WriteFails(p) \/ RunFails(p) \/ StopTransport(p) \/ Crash(p)
Ask(c) == Status(c) \/ AskDefault(c) \/ Restore(c) \/ Spawn(c)

Next ==
  \/ \E p \in Procs : Proceed(p) \/ Happens(p)
  \/ \E c \in Clients : Ask(c)

Spec == Init /\ [][Next]_vars

\* A process that is not ended goes on, and clients keep coming.
FairSpec ==
  /\ Spec
  /\ \A p \in Procs : WF_vars(Proceed(p))
  /\ \A c \in Clients : WF_vars(Ask(c))

-----------------------------------------------------------------------------
(* Properties. *)

\* Every variable has its type (Lock, Daemon, Client).
DaemonTypeOK ==
  /\ at \in [Procs -> Steps]
  /\ seen \in [Procs -> Procs \cup {NoOne}]
  /\ tries \in [Procs -> 0..MaxAttempts]
  /\ lock \in [by : Procs \cup {NoOne}, written : BOOLEAN]
  /\ portFile \in BOOLEAN
  /\ client \in [Clients -> {"idle", "absent", "restore", "spawn"}]
  /\ robbed \in BOOLEAN

\* One process at most has the lock, and the file names it: so does the
\* store, which is opened and closed under the lock (lock.go:42-43,
\* daemon.go:60-63) - as long as no live process has lost its file.
OneHolder ==
  ~robbed => \A p \in Procs : at[p] \in Holding \cup {"write"} =>
    /\ lock = [by |-> p, written |-> at[p] # "write"]
    /\ \A q \in Procs \ {p} : at[q] \notin Holding \cup {"write"}

Holders == {p \in Procs : at[p] \in Holding \cup {"write"}}
Servers == {p \in Procs : at[p] = "serving"}
Retired == {p \in Procs : at[p] \in {"gone"} \cup Failing \cup Stopping}

Duty == INSTANCE OneDaemon WITH
  file <- lock.by, holders <- Holders, serving <- Servers, retired <- Retired, published <- portFile,
  read <- seen

\* The processes and the clients do the duty of one daemon: a claim finds no
\* holder, what serves is named by the lock file and published, and a process
\* that leaves takes its own file or none - as long as no stale removal has
\* taken the file of a live process; and a removal is stale only if the pid it
\* goes by is of a process that has ended (lock.go:42-43, 65-77,
\* daemon.go:60-63, 137, 217-218).
ImplementsDuty == Duty!Spec

\* Two processes may hold the lock when one was robbed; the port still keeps
\* all but one from starting a pool, except beside one that is being stopped
\* (daemon.go:130, 162, 199-207).
OneWorks ==
  \A p, q \in Procs : p # q /\ at[p] \in Working /\ at[q] \in Working => at[p] = "stopping" \/ at[q] = "stopping"

\* A daemon that serves can be found by its port file, unless a process was
\* robbed of its lock (daemon.go:137, 217-218).
ServingIsPublished == ~robbed /\ Serving => portFile

\* The first to be robbed loses its file to a process that had read the pid
\* of one that has ended: no shutdown and no failed start takes away the lock
\* of another (lock.go:73-77, 97-99).
OnlyStaleRemovalRobs ==
  [][~robbed /\ robbed' =>
       \E p \in Procs : /\ at[p] = "stale" /\ at'[p] # "stale"
                         /\ seen[p] \in Procs /\ at[seen[p]] = "gone"]_vars

\* A daemon that goes on serving with its lock and port files gone is found
\* again by the next client (client.go:122-133).
LostDaemonFound ==
  \A p \in Procs : <>[](at[p] = "serving" /\ lock = NoLock) => <>[]portFile
=============================================================================
