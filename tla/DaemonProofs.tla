----------------------------- MODULE DaemonProofs -----------------------------
(***************************************************************************)
(* Proofs about Daemon, for any processes, clients and number of attempts: *)
(* one holder of the lock as long as no live process was robbed of its     *)
(* file, one process at work whatever was robbed, and only the removal of  *)
(* a stale lock robs; and that together they implement OneDaemon.          *)
(*                                                                         *)
(* The inductive invariant adds that the port is bound by one process, and *)
(* that a daemon which has published the port file still finds it there.   *)
(***************************************************************************)
EXTENDS Daemon, TLAPS

USE DaemonAssumption

Claims == Holding \cup {"write"}
Published == {"published", "serving"}

OneListens ==
  \A p, q \in Procs : at[p] \in Listening /\ at[q] \in Listening => p = q

StaysPublished ==
  ~robbed => \A p \in Procs : at[p] \in Published => portFile

\* A process that claims the lock has an attempt left.
Counted == \A p \in Procs : at[p] \in {"off"} \cup Claiming => tries[p] < MaxAttempts

DaemonInv == DaemonTypeOK /\ OneHolder /\ OneListens /\ StaysPublished /\ Counted

\* The count of attempts, where a process has gone on.
Tries(p) ==
  /\ tries' \in [Procs -> 0..MaxAttempts]
  /\ \A q \in Procs \ {p} : tries'[q] = tries[q]
  /\ at'[p] \in Claiming => tries'[p] < MaxAttempts

LEMMA HolderIsAlone ==
  ASSUME DaemonInv, ~robbed, NEW p \in Procs, at[p] \in Claims
  PROVE  /\ lock = [by |-> p, written |-> at[p] # "write"] /\ lock.by = p /\ lock # NoLock
         /\ \A q \in Procs \ {p} : at[q] \notin Claims
  <1>1. lock = [by |-> p, written |-> at[p] # "write"]
    BY DEF DaemonInv, OneHolder, Claims
  <1>2. lock.by = p /\ p # NoOne /\ NoLock.by = NoOne
    BY <1>1 DEF NoLock
  <1>. QED
    BY <1>1, <1>2 DEF DaemonInv, OneHolder, Claims

\* A process moves on and leaves the lock alone.
LEMMA MoveKeeps ==
  ASSUME DaemonInv, NEW p \in Procs, NEW from, NEW to \in Steps, Go(p, from, to), UNCHANGED <<lock, robbed>>,
         to \in Claims => from \in Claims /\ (to = "write" <=> from = "write"),
         to \in Listening => from \in Listening \/ \A q \in Procs : at[q] \notin Listening,
         to \in Published => from \in Published \/ portFile',
         portFile' \in BOOLEAN, portFile => portFile' \/ (from \in Claims /\ to \notin Published),
         seen' \in [Procs -> Procs \cup {NoOne}], Tries(p), to # "off", UNCHANGED client
  PROVE  DaemonInv'
  <1>1. at \in [Procs -> Steps]
    BY DEF DaemonInv, DaemonTypeOK
  <1>2. /\ at[p] = from /\ at'[p] = to /\ at' \in [Procs -> Steps]
        /\ \A q \in Procs \ {p} : at'[q] = at[q]
    BY <1>1 DEF Go
  <1>3. DaemonTypeOK'
    BY <1>2 DEF DaemonInv, DaemonTypeOK, Tries
  <1>8. Counted'
    BY <1>2 DEF DaemonInv, Counted, Tries
  <1>4. OneListens'
    BY <1>2 DEF DaemonInv, OneListens
  <1>5. ASSUME ~robbed', NEW q \in Procs, at'[q] \in Claims
        PROVE  /\ lock' = [by |-> q, written |-> at'[q] # "write"]
               /\ \A r \in Procs \ {q} : at'[r] \notin Claims
    <2>1. at[q] \in Claims /\ (at'[q] = "write" <=> at[q] = "write")
      BY <1>2, <1>5
    <2>2. /\ lock = [by |-> q, written |-> at[q] # "write"]
          /\ \A r \in Procs \ {q} : at[r] \notin Claims
      BY <1>5, <2>1, HolderIsAlone
    <2>3. (at'[q] # "write") = (at[q] # "write")
      BY <2>1
    <2>. QED
      BY <1>2, <2>2, <2>3
  <1>6. OneHolder'
    BY <1>5 DEF OneHolder, Claims
  <1>7. StaysPublished'
    <2>1. ASSUME ~robbed', NEW q \in Procs, at'[q] \in Published PROVE portFile'
      <3>1. CASE q = p
        BY <1>2, <2>1, <3>1 DEF DaemonInv, StaysPublished
      <3>2. CASE q # p
        <4>1. at[q] \in Published /\ portFile
          BY <1>2, <2>1, <3>2 DEF DaemonInv, StaysPublished
        <4>2. at[q] \in Claims
          BY <4>1 DEF Claims, Holding, Published, Starting
        <4>3. at[p] \notin Claims
          BY <2>1, <3>2, <4>2, HolderIsAlone
        <4>. QED
          BY <1>2, <4>1, <4>3
      <3>. QED
        BY <3>1, <3>2
    <2>. QED
      BY <2>1 DEF StaysPublished
  <1>. QED
    BY <1>3, <1>4, <1>6, <1>7, <1>8 DEF DaemonInv

\* A process removes the lock file and goes back or ends.
LEMMA RemovalKeeps ==
  ASSUME DaemonInv, NEW p \in Procs, NEW from, NEW to \in {"create", "gone"}, Go(p, from, to), RemoveLock(p),
         Tries(p), UNCHANGED <<seen, portFile, client>>
  PROVE  DaemonInv'
  <1>1. at \in [Procs -> Steps]
    BY DEF DaemonInv, DaemonTypeOK
  <1>2. /\ at[p] = from /\ at'[p] = to
        /\ \A q \in Procs \ {p} : at'[q] = at[q]
    BY <1>1 DEF Go
  <1>3. at' \in [Procs -> Steps]
    BY <1>1 DEF Go, Steps, Claiming
  <1>4. DaemonTypeOK'
    BY <1>3 DEF DaemonInv, DaemonTypeOK, RemoveLock, NoLock, Tries
  <1>10. Counted'
    BY <1>2 DEF DaemonInv, Counted, Tries
  <1>5. to \notin Listening /\ to \notin Claims /\ to \notin Published
    BY DEF Listening, Claims, Holding, Published, Starting, Failing, Stopping
  <1>6. OneListens'
    BY <1>2, <1>5 DEF DaemonInv, OneListens
  \* Another that has the lock is robbed.
  <1>7. ASSUME ~robbed' PROVE \A q \in Procs : at'[q] \notin Claims
    <2>1. ~robbed /\ ~(lock.by # p /\ Alive(lock.by))
      BY <1>7 DEF RemoveLock
    <2>2. ASSUME NEW q \in Procs \ {p}, at[q] \in Claims PROVE FALSE
      <3>1. lock.by = q
        BY <2>1, <2>2, HolderIsAlone
      <3>2. Alive(q)
        BY <2>2 DEF Alive, Claims, Holding, Starting, Failing, Stopping
      <3>. QED
        BY <2>1, <3>1, <3>2
    <2>. QED
      BY <1>2, <1>5, <2>2
  <1>8. OneHolder'
    BY <1>7 DEF OneHolder, Claims
  <1>9. StaysPublished'
    <2>1. Published \subseteq Claims
      BY DEF Published, Claims, Holding, Starting
    <2>. QED
      BY <1>7, <2>1 DEF StaysPublished
  <1>. QED
    BY <1>4, <1>6, <1>8, <1>9, <1>10 DEF DaemonInv

LEMMA RetryIs ==
  ASSUME DaemonInv, NEW p \in Procs, NEW from \in {"exists", "stale"}, Retry(p, from)
  PROVE  Tries(p) /\ \E to \in {"create", "gone"} : Go(p, from, to)
  <1>1. at \in [Procs -> Steps] /\ tries \in [Procs -> 0..MaxAttempts] /\ at[p] = from
    BY DEF DaemonInv, DaemonTypeOK, Retry, Go
  <1>2. tries[p] < MaxAttempts
    BY <1>1 DEF DaemonInv, Counted, Claiming
  <1>3. tries' = [tries EXCEPT ![p] = @ + 1]
    BY DEF Retry
  <1>4. tries' \in [Procs -> 0..MaxAttempts]
    BY <1>1, <1>2, <1>3
  <1>5. at'[p] = IF tries[p] + 1 < MaxAttempts THEN "create" ELSE "gone"
    BY <1>1 DEF Retry, Go
  <1>6. at'[p] \in Claiming => tries'[p] < MaxAttempts
    BY <1>1, <1>3, <1>5 DEF Claiming
  <1>7. \A q \in Procs \ {p} : tries'[q] = tries[q]
    BY <1>1, <1>3
  <1>8. \E to \in {"create", "gone"} : Go(p, from, to)
    BY DEF Retry
  <1>. QED
    BY <1>4, <1>6, <1>7, <1>8 DEF Tries

LEMMA TriesStay ==
  ASSUME DaemonInv, NEW p \in Procs, NEW from, NEW to, Go(p, from, to), UNCHANGED tries,
         to \in Claiming => from \in {"off"} \cup Claiming
  PROVE  Tries(p)
  <1>1. at \in [Procs -> Steps]
    BY DEF DaemonInv, DaemonTypeOK
  <1>2. at[p] = from /\ at'[p] = to
    BY <1>1 DEF Go
  <1>. QED
    BY <1>2 DEF DaemonInv, DaemonTypeOK, Counted, Tries

\* A step of Run or Shutdown that touches the port file at most.
LEMMA StepKeeps ==
  ASSUME DaemonInv, NEW p \in Procs, NEW from, NEW to \in Steps \ {"off"}, Go(p, from, to),
         UNCHANGED <<seen, tries, lock, client, robbed>>,
         to \in Claiming => from \in {"off"} \cup Claiming,
         to \in Claims => from \in Claims /\ (to = "write" <=> from = "write"),
         to \in Listening => from \in Listening \/ \A q \in Procs : at[q] \notin Listening,
         to \in Published => from \in Published \/ portFile',
         portFile' \in BOOLEAN, portFile => portFile' \/ (from \in Claims /\ to \notin Published)
  PROVE  DaemonInv'
  <1>1. Tries(p)
    BY TriesStay
  <1>2. seen' \in [Procs -> Procs \cup {NoOne}]
    BY DEF DaemonInv, DaemonTypeOK
  <1>. QED
    BY <1>1, <1>2, MoveKeeps

LEMMA CreateLockKeeps ==
  ASSUME DaemonInv, NEW p \in Procs, CreateLock(p)
  PROVE  DaemonInv'
  <1>1. at \in [Procs -> Steps] /\ portFile \in BOOLEAN
    BY DEF DaemonInv, DaemonTypeOK
  <1>2. UNCHANGED <<seen, tries, portFile, client, robbed>>
    BY DEF CreateLock
  <1>3. CASE lock # NoLock
    <2>1. Go(p, "create", "exists") /\ UNCHANGED lock
      BY <1>3 DEF CreateLock
    <2>2. "exists" \notin Claims \cup Listening \cup Published /\ "exists" \in Steps \ {"off"} /\ "create" \in Claiming
      BY DEF Claims, Holding, Listening, Published, Starting, Failing, Stopping, Steps, Claiming
    <2>. QED
      BY <1>1, <1>2, <2>1, <2>2, StepKeeps
  \* O_EXCL: whoever has the lock has a file there.
  <1>4. CASE lock = NoLock
    <2>1. Go(p, "create", "write") /\ lock' = [by |-> p, written |-> FALSE]
      BY <1>4 DEF CreateLock
    <2>2. at'[p] = "write" /\ \A q \in Procs \ {p} : at'[q] = at[q]
      BY <1>1, <2>1 DEF Go
    <2>3. "write" \in Steps /\ "write" \notin Listening \cup Published \cup Claiming
      BY DEF Steps, Listening, Published, Claiming
    <2>4. DaemonTypeOK'
      <3>1. at' \in [Procs -> Steps]
        BY <1>1, <2>1, <2>3 DEF Go
      <3>. QED
        BY <1>2, <2>1, <3>1 DEF DaemonInv, DaemonTypeOK
    <2>5. OneListens' /\ Counted'
      BY <1>2, <2>2, <2>3 DEF DaemonInv, OneListens, Counted
    <2>6. ~robbed => \A q \in Procs : at[q] \notin Claims
      BY <1>4, HolderIsAlone
    <2>7. OneHolder'
      <3>1. ASSUME ~robbed', NEW q \in Procs, at'[q] \in Claims
            PROVE  /\ lock' = [by |-> q, written |-> at'[q] # "write"]
                   /\ \A r \in Procs \ {q} : at'[r] \notin Claims
        <4>1. q = p /\ \A r \in Procs \ {p} : at'[r] \notin Claims
          BY <1>2, <2>2, <2>6, <3>1
        <4>. QED
          BY <2>1, <2>2, <4>1
      <3>. QED
        BY <3>1 DEF OneHolder, Claims
    <2>8. StaysPublished'
      BY <1>2, <2>2, <2>3 DEF DaemonInv, StaysPublished
    <2>. QED
      BY <2>4, <2>5, <2>7, <2>8 DEF DaemonInv
  <1>. QED
    BY <1>3, <1>4

LEMMA WriteLockKeeps ==
  ASSUME DaemonInv, NEW p \in Procs, WriteLock(p)
  PROVE  DaemonInv'
  <1>1. at \in [Procs -> Steps] /\ lock \in [by : Procs \cup {NoOne}, written : BOOLEAN]
    BY DEF DaemonInv, DaemonTypeOK
  <1>2. /\ Go(p, "write", "locked") /\ UNCHANGED <<seen, tries, portFile, client, robbed>>
        /\ lock' = IF lock.by = p THEN [lock EXCEPT !.written = TRUE] ELSE lock
    BY DEF WriteLock
  <1>3. at[p] = "write" /\ at'[p] = "locked" /\ \A q \in Procs \ {p} : at'[q] = at[q]
    BY <1>1, <1>2 DEF Go
  <1>4. "locked" \in Steps /\ "locked" \in Claims /\ "write" \in Claims
        /\ "locked" \notin Listening \cup Published \cup Claiming
    BY DEF Steps, Claims, Holding, Starting, Listening, Published, Claiming
  <1>5. DaemonTypeOK'
    <2>1. at' \in [Procs -> Steps]
      BY <1>1, <1>2, <1>4 DEF Go
    <2>2. lock' \in [by : Procs \cup {NoOne}, written : BOOLEAN]
      BY <1>1, <1>2
    <2>. QED
      BY <1>2, <2>1, <2>2 DEF DaemonInv, DaemonTypeOK
  <1>6. OneListens' /\ Counted' /\ StaysPublished'
    BY <1>2, <1>3, <1>4 DEF DaemonInv, OneListens, Counted, StaysPublished
  <1>7. OneHolder'
    <2>1. ASSUME ~robbed' PROVE /\ lock = [by |-> p, written |-> FALSE]
                                /\ \A q \in Procs \ {p} : at[q] \notin Claims
      BY <1>2, <1>3, <1>4, <2>1, HolderIsAlone
    <2>2. ASSUME ~robbed' PROVE lock' = [by |-> p, written |-> TRUE]
      <3>1. lock.by = p /\ lock' = [lock EXCEPT !.written = TRUE]
        BY <1>2, <2>1, <2>2
      <3>2. /\ lock' \in [by : Procs \cup {NoOne}, written : BOOLEAN]
            /\ lock'.by = p /\ lock'.written = TRUE
        BY <1>1, <3>1
      <3>. QED
        BY <3>2
    <2>3. ASSUME ~robbed', NEW q \in Procs, at'[q] \in Claims
          PROVE  /\ lock' = [by |-> q, written |-> at'[q] # "write"]
                 /\ \A r \in Procs \ {q} : at'[r] \notin Claims
      <3>1. q = p /\ \A r \in Procs \ {p} : at'[r] \notin Claims
        BY <1>3, <2>1, <2>3
      <3>. QED
        BY <1>3, <2>2, <2>3, <3>1
    <2>. QED
      BY <2>3 DEF OneHolder, Claims
  <1>. QED
    BY <1>5, <1>6, <1>7 DEF DaemonInv

LEMMA ReadLockKeeps ==
  ASSUME DaemonInv, NEW p \in Procs, ReadLock(p)
  PROVE  DaemonInv'
  <1>0. /\ portFile \in BOOLEAN /\ seen \in [Procs -> Procs \cup {NoOne}] /\ lock.by \in Procs \cup {NoOne}
        /\ UNCHANGED <<lock, portFile, client, robbed>>
    BY DEF DaemonInv, DaemonTypeOK, ReadLock
  <1>1. \A to \in {"create", "gone", "seen"} : to \in Steps \ {"off"} /\ to \notin Claims \cup Listening \cup Published
    BY DEF Claims, Holding, Listening, Published, Starting, Failing, Stopping, Steps, Claiming
  <1>2. CASE Retry(p, "exists") /\ UNCHANGED seen
    BY <1>0, <1>1, <1>2, RetryIs, MoveKeeps
  <1>3. CASE Go(p, "exists", "gone") /\ UNCHANGED <<seen, tries>>
    BY <1>0, <1>1, <1>3, StepKeeps DEF Claiming
  <1>4. CASE Go(p, "exists", "seen") /\ seen' = [seen EXCEPT ![p] = lock.by] /\ UNCHANGED tries
    <2>1. seen' \in [Procs -> Procs \cup {NoOne}]
      BY <1>0, <1>4
    <2>2. Tries(p)
      BY <1>4, TriesStay DEF Claiming
    <2>. QED
      BY <1>0, <1>1, <1>4, <2>1, <2>2, MoveKeeps
  <1>. QED
    BY <1>2, <1>3, <1>4 DEF ReadLock

\* The steps that only move on, with what they do to the port file.
LEMMA QuietStepKeeps ==
  ASSUME DaemonInv, NEW p \in Procs,
         \/ Launch(p) \/ CheckOwner(p) \/ OpenStore(p) \/ BindPort(p) \/ Publish(p) \/ StartPool(p)
         \/ RunFails(p) \/ CloseFailed(p) \/ StopTransport(p) \/ StopPool(p) \/ Unpublish(p)
  PROVE  DaemonInv'
  <1>0. /\ portFile \in BOOLEAN /\ UNCHANGED <<seen, tries, lock, client, robbed>>
    BY DEF DaemonInv, DaemonTypeOK, Launch, CheckOwner, OpenStore, BindPort, Publish, StartPool, RunFails,
           CloseFailed, StopTransport, StopPool, Unpublish
  <1>1. \A to \in {"create", "gone", "stale"} : to \in Steps \ {"off"} /\ to \notin Claims \cup Listening \cup Published
    BY DEF Claims, Holding, Listening, Published, Starting, Failing, Stopping, Steps, Claiming
  <1>2. \A to \in {"locked", "open", "closing", "release", "stopping", "drained", "closed"} :
          /\ to \in Steps \ {"off"} /\ to \in Claims /\ to # "write"
          /\ to \notin Listening \cup Published \cup Claiming
    BY DEF Claims, Holding, Listening, Published, Starting, Failing, Stopping, Steps, Claiming
  <1>3. \A to \in {"bound", "published", "serving", "failed"} :
          to \in Steps \ {"off"} /\ to \in Claims /\ to # "write" /\ to \in Listening /\ to \notin Claiming
    BY DEF Claims, Holding, Listening, Published, Starting, Failing, Stopping, Steps, Claiming
  <1>4. "bound" \notin Published /\ "failed" \notin Published /\ "published" \in Published /\ "serving" \in Published
    BY DEF Published
  <1>5. CASE Launch(p)
    BY <1>0, <1>1, <1>5, StepKeeps DEF Launch
  <1>6. CASE CheckOwner(p)
    <2>1. \E to \in {"gone", "stale"} : Go(p, "seen", to)
      BY <1>6 DEF CheckOwner
    <2>2. UNCHANGED portFile /\ "seen" \in Claiming
      BY <1>6 DEF CheckOwner, Claiming
    <2>. QED
      BY <1>0, <1>1, <2>1, <2>2, StepKeeps
  <1>7. CASE OpenStore(p)
    BY <1>0, <1>2, <1>7, StepKeeps DEF OpenStore
  <1>8. CASE BindPort(p)
    BY <1>0, <1>2, <1>3, <1>4, <1>8, StepKeeps DEF BindPort
  <1>9. CASE Publish(p)
    BY <1>0, <1>3, <1>4, <1>9, StepKeeps DEF Publish
  <1>10. CASE StartPool(p)
    BY <1>0, <1>3, <1>4, <1>10, StepKeeps DEF StartPool
  <1>11. CASE RunFails(p)
    <2>1. CASE Go(p, "locked", "release") /\ UNCHANGED portFile
      BY <1>0, <1>2, <2>1, StepKeeps
    <2>2. CASE Go(p, "open", "closing") /\ UNCHANGED portFile
      BY <1>0, <1>2, <2>2, StepKeeps
    <2>3. CASE Go(p, "bound", "failed") /\ UNCHANGED portFile
      BY <1>0, <1>3, <1>4, <2>3, StepKeeps
    <2>4. CASE Go(p, "published", "failed") /\ portFile' = FALSE
      BY <1>0, <1>3, <1>4, <2>4, StepKeeps
    <2>. QED
      BY <1>11, <2>1, <2>2, <2>3, <2>4 DEF RunFails
  <1>12. CASE CloseFailed(p)
    BY <1>0, <1>2, <1>3, <1>12, StepKeeps DEF CloseFailed
  <1>13. CASE StopTransport(p)
    BY <1>0, <1>2, <1>3, <1>13, StepKeeps DEF StopTransport
  <1>14. CASE StopPool(p)
    BY <1>0, <1>2, <1>14, StepKeeps DEF StopPool
  <1>15. CASE Unpublish(p)
    BY <1>0, <1>2, <1>15, StepKeeps DEF Unpublish
  <1>. QED
    BY <1>5, <1>6, <1>7, <1>8, <1>9, <1>10, <1>11, <1>12, <1>13, <1>14, <1>15

LEMMA RemovingStepKeeps ==
  ASSUME DaemonInv, NEW p \in Procs, WriteFails(p) \/ RemoveStale(p) \/ Release(p)
  PROVE  DaemonInv'
  <1>0. UNCHANGED <<seen, portFile, client>> /\ RemoveLock(p)
    BY DEF WriteFails, RemoveStale, Release
  <1>1. CASE Retry(p, "stale")
    BY <1>0, <1>1, RetryIs, RemovalKeeps
  <1>2. ASSUME NEW from, Go(p, from, "gone"), UNCHANGED tries PROVE DaemonInv'
    <2>1. Tries(p)
      BY <1>2, TriesStay DEF Claiming
    <2>. QED
      BY <1>0, <1>2, <2>1, RemovalKeeps
  <1>. QED
    BY <1>1, <1>2 DEF WriteFails, RemoveStale, Release

LEMMA CrashKeeps ==
  ASSUME DaemonInv, NEW p \in Procs, Crash(p)
  PROVE  DaemonInv'
  <1>1. at \in [Procs -> Steps] /\ "gone" \in Steps /\ UNCHANGED <<seen, tries, lock, portFile, client, robbed>>
    BY DEF DaemonInv, DaemonTypeOK, Crash, Steps
  <1>2. at' \in [Procs -> Steps] /\ at'[p] = "gone" /\ \A q \in Procs \ {p} : at'[q] = at[q]
    BY <1>1 DEF Crash
  <1>3. "gone" \notin Listening \cup Claims \cup Published \cup Claiming /\ "gone" # "off"
    BY DEF Claims, Holding, Listening, Published, Starting, Failing, Stopping, Claiming
  <1>4. DaemonTypeOK' /\ OneListens' /\ Counted' /\ StaysPublished'
    BY <1>1, <1>2, <1>3 DEF DaemonInv, DaemonTypeOK, OneListens, Counted, StaysPublished
  <1>5. OneHolder'
    <2>1. ASSUME ~robbed', NEW q \in Procs, at'[q] \in Claims
          PROVE  /\ lock' = [by |-> q, written |-> at'[q] # "write"]
                 /\ \A r \in Procs \ {q} : at'[r] \notin Claims
      BY <1>1, <1>2, <1>3, <2>1, HolderIsAlone
    <2>. QED
      BY <2>1 DEF OneHolder, Claims
  <1>. QED
    BY <1>4, <1>5 DEF DaemonInv

LEMMA AskKeeps ==
  ASSUME DaemonInv, NEW c \in Clients, Ask(c)
  PROVE  DaemonInv'
  <1>1. CASE UNCHANGED at
    <2>1. /\ UNCHANGED <<seen, tries, lock, robbed>>
          /\ client' \in [Clients -> {"idle", "absent", "restore", "spawn"}]
          /\ portFile' \in BOOLEAN /\ (portFile => portFile')
      BY DEF DaemonInv, DaemonTypeOK, Ask, Status, AskDefault, Restore, Spawn
    <2>2. DaemonTypeOK'
      BY <1>1, <2>1 DEF DaemonInv, DaemonTypeOK
    <2>3. OneHolder' /\ OneListens' /\ Counted' /\ StaysPublished'
      BY <1>1, <2>1 DEF DaemonInv, OneHolder, OneListens, Counted, StaysPublished
    <2>. QED
      BY <2>2, <2>3 DEF DaemonInv
  <1>2. ASSUME NEW p \in Procs, Go(p, "off", "create"), UNCHANGED <<seen, tries, lock, portFile, robbed>>,
               client' \in [Clients -> {"idle", "absent", "restore", "spawn"}]
        PROVE  DaemonInv'
    <2>1. at \in [Procs -> Steps] /\ "create" \in Steps
      BY DEF DaemonInv, DaemonTypeOK, Steps, Claiming
    <2>2. at' \in [Procs -> Steps] /\ at[p] = "off" /\ at'[p] = "create" /\ \A q \in Procs \ {p} : at'[q] = at[q]
      BY <1>2, <2>1 DEF Go
    <2>3. "create" \notin Listening \cup Claims \cup Published
      BY DEF Claims, Holding, Listening, Published, Starting, Failing, Stopping
    <2>4. DaemonTypeOK' /\ OneListens' /\ Counted' /\ StaysPublished'
      BY <1>2, <2>2, <2>3 DEF DaemonInv, DaemonTypeOK, OneListens, Counted, StaysPublished
    <2>5. OneHolder'
      <3>1. ASSUME ~robbed', NEW q \in Procs, at'[q] \in Claims
            PROVE  /\ lock' = [by |-> q, written |-> at'[q] # "write"]
                   /\ \A r \in Procs \ {q} : at'[r] \notin Claims
        BY <1>2, <2>2, <2>3, <3>1, HolderIsAlone
      <3>. QED
        BY <3>1 DEF OneHolder, Claims
    <2>. QED
      BY <2>4, <2>5 DEF DaemonInv
  <1>3. CASE Spawn(c)
    <2>1. client' \in [Clients -> {"idle", "absent", "restore", "spawn"}]
      BY <1>3 DEF DaemonInv, DaemonTypeOK, Spawn
    <2>. QED
      BY <1>1, <1>2, <1>3, <2>1 DEF Spawn
  <1>. QED
    BY <1>1, <1>3 DEF Ask, Status, AskDefault, Restore

\* The lock, the port and the port file agree with what every process has
\* done of Run and Shutdown, whatever has crashed.
THEOREM DaemonInvariance == Spec => []DaemonInv
  <1>1. Init => DaemonInv
    <2>1. "off" \in Steps /\ "off" \notin Claims \cup Listening \cup Published
      BY DEF Steps, Claims, Holding, Listening, Published, Starting, Failing, Stopping
    <2>. SUFFICES ASSUME Init PROVE DaemonInv
      OBVIOUS
    <2>2. \A p \in Procs : at[p] = "off" /\ tries[p] = 0
      BY DEF Init
    <2>3. DaemonTypeOK
      <3>1. 0 \in 0..MaxAttempts
        OBVIOUS
      <3>2. NoLock \in [by : Procs \cup {NoOne}, written : BOOLEAN]
        BY DEF NoLock
      <3>3. /\ at \in [Procs -> Steps] /\ seen \in [Procs -> Procs \cup {NoOne}] /\ tries \in [Procs -> 0..MaxAttempts]
            /\ client \in [Clients -> {"idle", "absent", "restore", "spawn"}]
        BY <2>1, <3>1 DEF Init
      <3>. QED
        BY <3>2, <3>3 DEF Init, DaemonTypeOK
    <2>4. OneHolder /\ OneListens /\ StaysPublished
      BY <2>1, <2>2 DEF OneHolder, OneListens, StaysPublished, Claims
    <2>5. Counted
      BY <2>2 DEF Counted
    <2>. QED
      BY <2>3, <2>4, <2>5 DEF DaemonInv
  <1>2. ASSUME DaemonInv, [Next]_vars PROVE DaemonInv'
    <2>1. CASE UNCHANGED vars
      BY <1>2, <2>1 DEF vars, DaemonInv, DaemonTypeOK, OneHolder, OneListens, StaysPublished, Counted
    <2>2. ASSUME NEW p \in Procs, Proceed(p) \/ Happens(p) PROVE DaemonInv'
      <3>1. CASE CreateLock(p) \/ WriteLock(p) \/ ReadLock(p) \/ Crash(p)
        BY <1>2, <3>1, CreateLockKeeps, WriteLockKeeps, ReadLockKeeps, CrashKeeps
      <3>2. CASE WriteFails(p) \/ RemoveStale(p) \/ Release(p)
        BY <1>2, <3>2, RemovingStepKeeps
      <3>3. CASE \/ Launch(p) \/ CheckOwner(p) \/ OpenStore(p) \/ BindPort(p) \/ Publish(p) \/ StartPool(p)
                 \/ RunFails(p) \/ CloseFailed(p) \/ StopTransport(p) \/ StopPool(p) \/ Unpublish(p)
        BY <1>2, <3>3, QuietStepKeeps
      <3>. QED
        BY <2>2, <3>1, <3>2, <3>3 DEF Proceed, Happens
    <2>3. ASSUME NEW c \in Clients, Ask(c) PROVE DaemonInv'
      BY <1>2, <2>3, AskKeeps
    <2>. QED
      BY <1>2, <2>1, <2>2, <2>3 DEF Next
  <1>. QED
    BY <1>1, <1>2, PTL DEF Spec

\* Every variable has its type; no claim makes more attempts than the bound.
THEOREM DaemonTypes == Spec => []DaemonTypeOK
  <1>1. DaemonInv => DaemonTypeOK
    BY DEF DaemonInv
  <1>. QED
    BY <1>1, DaemonInvariance, PTL

\* As long as no live process was robbed of its lock file, one process has
\* the lock and the store, and the file names it.
THEOREM SingletonUnlessRobbed == Spec => []OneHolder
  <1>1. DaemonInv => OneHolder
    BY DEF DaemonInv
  <1>. QED
    BY <1>1, DaemonInvariance, PTL

\* Whatever was robbed, two pools run at once only while one is being stopped.
THEOREM PortFencesPools == Spec => []OneWorks
  <1>1. DaemonInv => OneWorks
    BY DEF DaemonInv, OneListens, OneWorks, Working, Listening
  <1>. QED
    BY <1>1, DaemonInvariance, PTL

\* A daemon that serves has its port file, unless a process was robbed.
THEOREM PublishedWhileServing == Spec => []ServingIsPublished
  <1>1. DaemonInv => ServingIsPublished
    BY DEF DaemonInv, StaysPublished, ServingIsPublished, Serving, Published
  <1>. QED
    BY <1>1, DaemonInvariance, PTL

-----------------------------------------------------------------------------
(* The processes implement OneDaemon. *)

Ended == {"gone"} \cup Failing \cup Stopping

\* The lock file is of a process that has claimed it, or of one that ended.
Owned == lock.by \in Procs => at[lock.by] \in Claims \cup {"gone"}

\* A pid that was written or read is of a process that was started; one that
\* was found stale is of a process that has ended.
SeenNames ==
  /\ lock.written => lock.by \in Procs
  /\ \A p \in Procs : at[p] \in {"seen", "stale"} =>
       /\ seen[p] \in Procs /\ at[seen[p]] # "off"
       /\ at[p] = "stale" => at[seen[p]] = "gone"

\* Which steps hold the lock, which are over.
LEMMA StepSets ==
  /\ \A s \in {"off"} \cup Claiming : s \notin Claims /\ s \notin Ended /\ s # "serving"
  /\ \A s \in {"write"} \cup Starting : s \in Claims /\ s \notin Ended /\ s # "serving"
  /\ "serving" \in Claims /\ "serving" \notin Ended
  /\ \A s \in Failing \cup Stopping : s \in Claims /\ s \in Ended /\ s # "serving"
  /\ "gone" \notin Claims /\ "gone" \in Ended
  BY DEF Claims, Ended, Claiming, Holding, Starting, Failing, Stopping

\* One process moves: what it does to the sets the refinement looks at.
LEMMA Moves ==
  ASSUME DaemonInv, NEW p \in Procs, NEW from, NEW to, Go(p, from, to)
  PROVE  /\ at[p] = from /\ at'[p] = to /\ \A q \in Procs \ {p} : at'[q] = at[q]
         /\ p \in Holders <=> from \in Claims
         /\ p \in Servers <=> from = "serving"
         /\ p \in Retired <=> from \in Ended
         /\ Holders' = IF to \in Claims THEN Holders \cup {p} ELSE Holders \ {p}
         /\ Servers' = IF to = "serving" THEN Servers \cup {p} ELSE Servers \ {p}
         /\ Retired' = IF to \in Ended THEN Retired \cup {p} ELSE Retired \ {p}
  <1>1. at \in [Procs -> Steps]
    BY DEF DaemonInv, DaemonTypeOK
  <1>2. at[p] = from /\ at'[p] = to /\ \A q \in Procs \ {p} : at'[q] = at[q]
    BY <1>1 DEF Go
  <1>3. p \in Holders <=> from \in Claims
    BY <1>2 DEF Holders, Claims
  <1>4. p \in Retired <=> from \in Ended
    BY <1>2 DEF Retired, Ended
  <1>5. Holders' = IF to \in Claims THEN Holders \cup {p} ELSE Holders \ {p}
    BY <1>2 DEF Holders, Claims
  <1>6. Servers' = IF to = "serving" THEN Servers \cup {p} ELSE Servers \ {p}
    BY <1>2 DEF Servers
  <1>7. Retired' = IF to \in Ended THEN Retired \cup {p} ELSE Retired \ {p}
    BY <1>2 DEF Retired, Ended
  <1>. QED
    BY <1>2, <1>3, <1>4, <1>5, <1>6, <1>7 DEF Servers

\* A move that the refinement does not see.
LEMMA QuietMove ==
  ASSUME DaemonInv, NEW p \in Procs, NEW from, NEW to, Go(p, from, to),
         to \in Claims <=> from \in Claims, to \in Ended <=> from \in Ended, to = "serving" <=> from = "serving"
  PROVE  UNCHANGED <<Holders, Servers, Retired>>
  BY Moves

\* Unrobbed, a holder of the lock is the only one, and the file names it.
LEMMA OneHolds ==
  ASSUME DaemonInv, ~robbed, NEW p \in Procs, p \in Holders
  PROVE  lock.by = p /\ Holders = {p}
  <1>1. at[p] \in Claims
    BY DEF Holders, Claims
  <1>2. lock.by = p /\ \A q \in Procs \ {p} : at[q] \notin Claims
    BY <1>1, HolderIsAlone
  <1>3. \A q \in Procs \ {p} : q \notin Holders
    BY <1>2 DEF Holders, Claims
  <1>. QED
    BY <1>2, <1>3 DEF Holders

LEMMA ServersHold == Servers \subseteq Holders /\ Servers \cap Retired = {} /\ Holders \subseteq Procs
  BY DEF Servers, Holders, Retired, Holding, Failing, Stopping

LEMMA ClaimStep ==
  ASSUME DaemonInv, NEW p \in Procs, CreateLock(p)
  PROVE  Duty!Claim(p) \/ UNCHANGED Duty!dutyVars
  <1>1. UNCHANGED <<portFile, seen, robbed>> /\ NoLock.by = NoOne
    BY DEF CreateLock, NoLock
  <1>2. CASE lock # NoLock
    <2>1. Go(p, "create", "exists") /\ UNCHANGED lock
      BY <1>2 DEF CreateLock
    <2>2. UNCHANGED <<Holders, Servers, Retired>>
      BY <2>1, StepSets, QuietMove DEF Claiming
    <2>. QED
      BY <1>1, <2>1, <2>2 DEF Duty!dutyVars
  <1>3. CASE lock = NoLock
    <2>1. Go(p, "create", "write") /\ lock' = [by |-> p, written |-> FALSE]
      BY <1>3 DEF CreateLock
    <2>2. "create" \in Claiming
      BY DEF Claiming
    <2>3. /\ p \notin Holders /\ p \notin Retired /\ p \notin Servers
          /\ Holders' = Holders \cup {p} /\ Servers' = Servers \ {p} /\ Retired' = Retired \ {p}
      BY <2>1, <2>2, Moves, StepSets
    <2>4. robbed \/ Holders = {}
      <3>1. ASSUME ~robbed, NEW q \in Holders PROVE FALSE
        BY <1>1, <1>3, <3>1, OneHolds, ServersHold
      <3>. QED
        BY <3>1
    <2>5. lock.by = NoOne /\ lock'.by = p
      BY <1>1, <1>3, <2>1
    <2>6. UNCHANGED <<Servers, Retired>>
      BY <2>3
    <2>. QED
      BY <1>1, <2>3, <2>4, <2>5, <2>6 DEF Duty!Claim
  <1>. QED
    BY <1>2, <1>3

LEMMA ServeStep ==
  ASSUME DaemonInv, NEW p \in Procs, StartPool(p)
  PROVE  Duty!Serve(p)
  <1>1. Go(p, "published", "serving") /\ UNCHANGED <<lock, portFile, seen, robbed>>
    BY DEF StartPool
  <1>2. "published" \in Starting
    BY DEF Starting
  <1>3. /\ p \in Holders /\ p \notin Retired
        /\ Holders' = Holders \cup {p} /\ Servers' = Servers \cup {p} /\ Retired' = Retired \ {p}
        /\ at[p] = "published"
    BY <1>1, <1>2, Moves, StepSets
  \* The port: p has bound it, so nobody else serves.
  <1>4. Servers = {}
    <2>1. ASSUME NEW q \in Servers PROVE FALSE
      <3>1. q \in Procs /\ at[q] = "serving"
        BY DEF Servers
      <3>2. at[p] \in Listening /\ at[q] \in Listening
        BY <1>3, <3>1 DEF Listening
      <3>. QED
        BY <1>3, <3>1, <3>2 DEF DaemonInv, OneListens
    <2>. QED
      BY <2>1
  <1>5. robbed \/ (lock.by = p /\ portFile)
    BY <1>3, OneHolds DEF DaemonInv, StaysPublished, Published
  <1>6. Holders' = Holders /\ Retired' = Retired /\ Servers' = {p}
    BY <1>3, <1>4
  <1>. QED
    BY <1>1, <1>3, <1>4, <1>5, <1>6 DEF Duty!Serve

\* A start fails, or a shutdown begins.
LEMMA RetireStep ==
  ASSUME DaemonInv, NEW p \in Procs, NEW from \in {"serving"} \cup Starting, NEW to \in Failing \cup Stopping,
         Go(p, from, to), UNCHANGED <<lock, seen, robbed>>,
         portFile' = portFile \/ (portFile' = FALSE /\ from # "serving")
  PROVE  Duty!Retire(p)
  <1>1. /\ p \in Holders /\ p \notin Retired /\ (p \in Servers => from = "serving")
        /\ Holders' = Holders \cup {p} /\ Servers' = Servers \ {p} /\ Retired' = Retired \cup {p}
    BY Moves, StepSets
  <1>2. from # "serving" => robbed \/ Servers = {}
    BY <1>1, OneHolds, ServersHold
  <1>3. Holders' = Holders
    BY <1>1
  <1>. QED
    BY <1>1, <1>2, <1>3 DEF Duty!Retire

\* A holder ends, and removes the lock file or leaves it.
LEMMA LeaveStep ==
  ASSUME DaemonInv, NEW p \in Procs, NEW from \in Claims, Go(p, from, "gone"), UNCHANGED <<portFile, seen>>,
         RemoveLock(p) \/ UNCHANGED <<lock, robbed>>
  PROVE  Duty!Leave(p)
  <1>1. /\ p \in Holders
        /\ Holders' = Holders \ {p} /\ Servers' = Servers \ {p} /\ Retired' = Retired \cup {p}
    BY Moves, StepSets
  <1>2. robbed \/ lock.by = p
    BY <1>1, OneHolds
  <1>3. robbed \in BOOLEAN /\ NoLock.by = NoOne
    BY DEF DaemonInv, DaemonTypeOK, NoLock
  <1>4. UNCHANGED robbed /\ (lock'.by = lock.by \/ lock'.by = NoOne)
    BY <1>2, <1>3 DEF RemoveLock
  <1>. QED
    BY <1>1, <1>2, <1>4 DEF Duty!Leave

\* A process that has no claim ends.
LEMMA GiveUpStep ==
  ASSUME DaemonInv, NEW p \in Procs, NEW from, from \notin Claims, Go(p, from, "gone"),
         UNCHANGED <<lock, portFile, seen, robbed>>
  PROVE  Duty!GiveUp(p)
  <1>1. /\ p \notin Holders /\ (p \in Servers => from = "serving")
        /\ Holders' = Holders \ {p} /\ Servers' = Servers \ {p} /\ Retired' = Retired \cup {p}
    BY Moves, StepSets
  <1>2. Holders' = Holders /\ Servers' = Servers
    BY <1>1, ServersHold
  <1>. QED
    BY <1>1, <1>2 DEF Duty!GiveUp

\* Whether a live process is robbed is whether the file is a holder's: Owned.
LEMMA SweepStep ==
  ASSUME DaemonInv, Owned, SeenNames, NEW p \in Procs, RemoveStale(p)
  PROVE  Duty!Sweep(p)
  <1>1. PICK to \in {"create", "gone"} : Go(p, "stale", to)
    BY RetryIs DEF RemoveStale
  <1>2. RemoveLock(p) /\ UNCHANGED <<portFile, seen>> /\ "stale" \in Claiming /\ "create" \in Claiming
    BY DEF RemoveStale, Claiming
  <1>3. /\ p \notin Holders /\ p \notin Retired /\ p \notin Servers
        /\ Holders' = Holders \ {p} /\ Servers' = Servers \ {p}
        /\ Retired' = Retired \cup {p} \/ Retired' = Retired \ {p}
    BY <1>1, <1>2, Moves, StepSets
  <1>4. lock'.by = NoOne
    BY <1>2 DEF RemoveLock, NoLock
  <1>5. lock.by # p /\ Alive(lock.by) <=> lock.by \in Holders
    <2>1. ASSUME lock.by \in Procs, Alive(lock.by) PROVE lock.by \in Holders
      BY <2>1 DEF Owned, Alive, Holders, Claims
    <2>2. ASSUME lock.by \in Holders PROVE Alive(lock.by)
      BY <2>2, StepSets DEF Alive, Holders, Claims, Claiming, Holding, Starting, Failing, Stopping
    <2>. QED
      BY <1>3, <2>1, <2>2 DEF Alive
  <1>6. robbed' = (robbed \/ lock.by \in Holders)
    BY <1>2, <1>5 DEF RemoveLock
  <1>7. Holders' = Holders /\ Servers' = Servers /\ Retired' \in {Retired, Retired \cup {p}}
    BY <1>3
  <1>8. seen[p] \in Retired \ Holders
    <2>1. seen[p] \in Procs /\ at[seen[p]] = "gone"
      BY <1>1, Moves DEF SeenNames
    <2>. QED
      BY <2>1, StepSets DEF Retired, Holders, Claims
  <1>. QED
    BY <1>2, <1>3, <1>4, <1>6, <1>7, <1>8 DEF Duty!Sweep

\* The moves the refinement does not see.
LEMMA HiddenStep ==
  ASSUME DaemonInv, NEW p \in Procs,
         \/ Launch(p) \/ WriteLock(p) \/ OpenStore(p) \/ BindPort(p) \/ CloseFailed(p) \/ StopPool(p)
  PROVE  UNCHANGED Duty!dutyVars
  <1>1. UNCHANGED <<portFile, seen, robbed>> /\ lock'.by = lock.by
    <2>1. lock \in [by : Procs \cup {NoOne}, written : BOOLEAN]
      BY DEF DaemonInv, DaemonTypeOK
    <2>2. [lock EXCEPT !.written = TRUE].by = lock.by
      BY <2>1
    <2>. QED
      BY <2>2 DEF Launch, WriteLock, OpenStore, BindPort, CloseFailed, StopPool
  <1>2. ASSUME NEW from, NEW to, Go(p, from, to),
               \/ from \in {"off"} \cup Claiming /\ to \in {"off"} \cup Claiming
               \/ from \in {"write"} \cup Starting /\ to \in {"write"} \cup Starting
               \/ from \in Failing \cup Stopping /\ to \in Failing \cup Stopping
        PROVE  UNCHANGED <<Holders, Servers, Retired>>
    <2>1. to \in Claims <=> from \in Claims
      BY <1>2, StepSets
    <2>2. to \in Ended <=> from \in Ended
      BY <1>2, StepSets
    <2>3. to = "serving" <=> from = "serving"
      BY <1>2, StepSets
    <2>. QED
      BY <1>2, <2>1, <2>2, <2>3, QuietMove
  <1>3. UNCHANGED <<Holders, Servers, Retired>>
    <2>1. CASE Launch(p)
      BY <1>2, <2>1 DEF Launch, Claiming
    <2>2. CASE WriteLock(p) \/ OpenStore(p) \/ BindPort(p)
      BY <1>2, <2>2 DEF WriteLock, OpenStore, BindPort, Starting
    <2>3. CASE CloseFailed(p) \/ StopPool(p)
      BY <1>2, <2>3 DEF CloseFailed, StopPool, Failing, Stopping
    <2>. QED
      BY <2>1, <2>2, <2>3
  <1>. QED
    BY <1>1, <1>3 DEF Duty!dutyVars

\* A claim that asks about the file goes on, or gives up.
LEMMA LookStep ==
  ASSUME DaemonInv, NEW p \in Procs, NEW from \in Claiming, NEW to \in {"gone"} \cup Claiming, Go(p, from, to),
         UNCHANGED <<lock, portFile, seen, robbed>>
  PROVE  Duty!GiveUp(p) \/ UNCHANGED Duty!dutyVars
  <1>1. CASE to = "gone"
    BY <1>1, GiveUpStep, StepSets
  <1>2. CASE to \in Claiming
    <2>1. UNCHANGED <<Holders, Servers, Retired>>
      BY <1>2, StepSets, QuietMove
    <2>. QED
      BY <2>1 DEF Duty!dutyVars
  <1>. QED
    BY <1>1, <1>2

LEMMA ReadStep ==
  ASSUME DaemonInv, SeenNames, NEW p \in Procs, ReadLock(p)
  PROVE  Duty!Read(p) \/ Duty!GiveUp(p) \/ UNCHANGED Duty!dutyVars
  <1>1. UNCHANGED <<lock, portFile, robbed>> /\ "exists" \in Claiming /\ "seen" \in Claiming /\ "create" \in Claiming
    BY DEF ReadLock, Claiming
  <1>2. CASE Retry(p, "exists") /\ UNCHANGED seen
    <2>1. PICK to \in {"create", "gone"} : Go(p, "exists", to)
      BY <1>2, RetryIs
    <2>. QED
      BY <1>1, <1>2, <2>1, LookStep
  <1>3. CASE Go(p, "exists", "gone") /\ UNCHANGED <<seen, tries>>
    BY <1>1, <1>3, LookStep
  <1>4. CASE lock.written /\ Go(p, "exists", "seen") /\ seen' = [seen EXCEPT ![p] = lock.by]
    <2>1. UNCHANGED <<Holders, Servers, Retired>>
      BY <1>1, <1>4, StepSets, QuietMove
    <2>2. p \notin Holders \cup Retired
      BY <1>1, <1>4, Moves, StepSets
    <2>3. lock.by \in Procs
      BY <1>4 DEF SeenNames
    <2>. QED
      BY <1>1, <1>4, <2>1, <2>2, <2>3 DEF Duty!Read
  <1>. QED
    BY <1>2, <1>3, <1>4 DEF ReadLock

LEMMA CheckStep ==
  ASSUME DaemonInv, NEW p \in Procs, CheckOwner(p)
  PROVE  Duty!GiveUp(p) \/ UNCHANGED Duty!dutyVars
  <1>1. UNCHANGED <<lock, portFile, seen, robbed>>
    BY DEF CheckOwner
  <1>2. \E to \in {"stale", "gone"} : Go(p, "seen", to)
    BY DEF CheckOwner
  <1>. QED
    BY <1>1, <1>2, LookStep DEF Claiming

\* The steps that end a start or begin a shutdown.
LEMMA FailStep ==
  ASSUME DaemonInv, NEW p \in Procs, RunFails(p) \/ StopTransport(p)
  PROVE  Duty!Retire(p)
  <1>1. UNCHANGED <<lock, seen, robbed>>
    BY DEF RunFails, StopTransport
  <1>2. PICK from \in {"serving"} \cup Starting, to \in Failing \cup Stopping :
          Go(p, from, to) /\ (portFile' = portFile \/ (portFile' = FALSE /\ from # "serving"))
    <2>1. CASE RunFails(p)
      BY <2>1 DEF RunFails, Starting, Failing
    <2>2. CASE StopTransport(p)
      BY <2>2 DEF StopTransport, Stopping
    <2>. QED
      BY <2>1, <2>2
  <1>. QED
    BY <1>1, <1>2, RetireStep

\* The port file comes and goes.
LEMMA PublishStep ==
  ASSUME DaemonInv, NEW p \in Procs, Publish(p) \/ Unpublish(p)
  PROVE  Duty!Publish \/ Duty!Unpublish
  <1>1. UNCHANGED <<lock, seen, robbed>>
    BY DEF Publish, Unpublish
  <1>2. CASE Publish(p)
    <2>1. Go(p, "bound", "published") /\ portFile' = TRUE
      BY <1>2 DEF Publish
    <2>2. UNCHANGED <<Holders, Servers, Retired>>
      BY <2>1, StepSets, QuietMove DEF Starting
    <2>. QED
      BY <1>1, <2>1, <2>2 DEF Duty!Publish
  <1>3. CASE Unpublish(p)
    <2>1. Go(p, "closed", "release") /\ portFile' = FALSE
      BY <1>3 DEF Unpublish
    <2>2. "closed" \in Stopping /\ "release" \in Failing
      BY DEF Stopping, Failing
    <2>3. UNCHANGED <<Holders, Servers, Retired>>
      BY <2>1, <2>2, StepSets, QuietMove
    <2>4. p \in Holders /\ p \notin Servers
      BY <2>1, <2>2, Moves, StepSets
    <2>5. robbed \/ Servers = {}
      BY <2>4, OneHolds, ServersHold
    <2>. QED
      BY <1>1, <2>1, <2>3, <2>5 DEF Duty!Unpublish
  <1>. QED
    BY <1>2, <1>3

LEMMA CrashStep ==
  ASSUME DaemonInv, NEW p \in Procs, Crash(p)
  PROVE  Duty!Leave(p) \/ Duty!GiveUp(p)
  <1>1. Go(p, at[p], "gone") /\ UNCHANGED <<lock, portFile, seen, robbed>>
    BY DEF Crash, Go
  <1>2. CASE at[p] \in Claims
    BY <1>1, <1>2, LeaveStep
  <1>3. CASE at[p] \notin Claims
    BY <1>1, <1>3, GiveUpStep
  <1>. QED
    BY <1>2, <1>3

\* The removals by those that have the lock.
LEMMA ReleaseStep ==
  ASSUME DaemonInv, NEW p \in Procs, WriteFails(p) \/ Release(p)
  PROVE  Duty!Leave(p)
  <1>1. RemoveLock(p) /\ UNCHANGED <<portFile, seen>>
    BY DEF WriteFails, Release
  <1>2. PICK from \in {"write", "release"} : Go(p, from, "gone")
    BY DEF WriteFails, Release
  <1>3. from \in Claims
    BY StepSets DEF Failing
  <1>. QED
    BY <1>1, <1>2, <1>3, LeaveStep

\* What clients do to it: they start processes, which is nothing yet, and
\* restore the port file.
LEMMA AskStep ==
  ASSUME DaemonInv, NEW c \in Clients, Ask(c)
  PROVE  Duty!Publish \/ UNCHANGED Duty!dutyVars
  <1>1. UNCHANGED <<lock, seen, robbed>>
    BY DEF Ask, Status, AskDefault, Restore, Spawn
  <1>2. UNCHANGED <<Holders, Servers, Retired>>
    <2>1. CASE UNCHANGED at
      BY <2>1 DEF Holders, Servers, Retired
    <2>2. ASSUME NEW p \in Procs, Go(p, "off", "create") PROVE UNCHANGED <<Holders, Servers, Retired>>
      BY <2>2, StepSets, QuietMove DEF Claiming
    <2>. QED
      BY <2>1, <2>2 DEF Ask, Status, AskDefault, Restore, Spawn
  <1>3. UNCHANGED portFile \/ portFile' = TRUE
    BY DEF Ask, Status, AskDefault, Restore, Spawn
  <1>. QED
    BY <1>1, <1>2, <1>3 DEF Duty!Publish, Duty!dutyVars

LEMMA DutyStep ==
  ASSUME DaemonInv, Owned, SeenNames, [Next]_vars
  PROVE  [Duty!Next]_Duty!dutyVars
  <1>1. CASE UNCHANGED vars
    BY <1>1 DEF vars, Holders, Servers, Retired, Duty!dutyVars
  <1>2. ASSUME NEW p \in Procs, Proceed(p) \/ Happens(p) PROVE [Duty!Next]_Duty!dutyVars
    <2>1. \/ Duty!Claim(p) \/ Duty!Serve(p) \/ Duty!Retire(p) \/ Duty!Leave(p) \/ Duty!Read(p) \/ Duty!Sweep(p)
          \/ Duty!GiveUp(p) \/ Duty!Publish \/ Duty!Unpublish \/ UNCHANGED Duty!dutyVars
      BY <1>2, ClaimStep, HiddenStep, ReadStep, CheckStep, SweepStep, ServeStep, FailStep, PublishStep, CrashStep, ReleaseStep
         DEF Proceed, Happens
    <2>. QED
      BY <2>1 DEF Duty!Next
  <1>3. ASSUME NEW c \in Clients, Ask(c) PROVE [Duty!Next]_Duty!dutyVars
    BY <1>3, AskStep DEF Duty!Next
  <1>. QED
    BY <1>1, <1>2, <1>3 DEF Next

\* A claimed file is given up by the end of its process only.
LEMMA OwnedStep ==
  ASSUME DaemonInv, Owned, [Next]_vars
  PROVE  Owned'
  <1>1. at \in [Procs -> Steps] /\ lock \in [by : Procs \cup {NoOne}, written : BOOLEAN] /\ NoLock.by = NoOne
    BY DEF DaemonInv, DaemonTypeOK, NoLock
  <1>2. ASSUME NEW p \in Procs, NEW from, NEW to, Go(p, from, to), lock'.by \in {lock.by, NoOne},
               from \in Claims \cup {"gone"} => to \in Claims \cup {"gone"}
        PROVE  Owned'
    BY <1>1, <1>2, Moves DEF Owned
  <1>3. CASE UNCHANGED <<at, lock>>
    BY <1>3 DEF Owned
  <1>4. ASSUME NEW p \in Procs, CreateLock(p) PROVE Owned'
    <2>1. CASE Go(p, "create", "exists") /\ UNCHANGED lock
      BY <1>1, <1>2, <2>1, StepSets DEF Claiming
    <2>2. CASE Go(p, "create", "write") /\ lock' = [by |-> p, written |-> FALSE]
      <3>1. lock'.by = p /\ at'[p] = "write"
        BY <2>2, Moves
      <3>. QED
        BY <3>1, StepSets DEF Owned
    <2>. QED
      BY <1>4, <2>1, <2>2 DEF CreateLock
  <1>5. ASSUME NEW p \in Procs, Crash(p) PROVE Owned'
    <2>1. Go(p, at[p], "gone") /\ UNCHANGED lock
      BY <1>5 DEF Crash, Go
    <2>. QED
      BY <1>1, <1>2, <2>1
  \* Every other step of a process that has claimed goes to another such, or
  \* to the end.
  <1>6. ASSUME NEW p \in Procs, Proceed(p) \/ Happens(p), ~CreateLock(p), ~Crash(p) PROVE Owned'
    <2>1. lock'.by \in {lock.by, NoOne}
      <3>1. [lock EXCEPT !.written = TRUE].by = lock.by
        BY <1>1
      <3>. QED
        BY <1>1, <1>6, <3>1 DEF Proceed, Happens, WriteLock, ReadLock, CheckOwner, RemoveStale, OpenStore, BindPort,
           Publish, StartPool, CloseFailed, StopPool, Unpublish, Release, Launch, WriteFails, RunFails,
           StopTransport, RemoveLock
    <2>2. CASE ReadLock(p) \/ CheckOwner(p) \/ RemoveStale(p) \/ Launch(p)
      <3>1. PICK from \in {"off"} \cup Claiming, to \in {"gone"} \cup Claiming : Go(p, from, to)
        BY <2>2 DEF ReadLock, CheckOwner, RemoveStale, Launch, Retry, Claiming
      <3>2. from \notin Claims \cup {"gone"}
        BY StepSets DEF Claiming
      <3>. QED
        BY <1>2, <2>1, <3>1, <3>2
    <2>3. CASE ~(ReadLock(p) \/ CheckOwner(p) \/ RemoveStale(p) \/ Launch(p))
      <3>1. PICK from, to \in Claims \cup {"gone"} : Go(p, from, to)
        BY <1>6, <2>3 DEF Proceed, Happens, WriteLock, OpenStore, BindPort, Publish, StartPool, CloseFailed,
           StopPool, Unpublish, Release, WriteFails, RunFails, StopTransport,
           Claims, Holding, Starting, Failing, Stopping
      <3>. QED
        BY <1>2, <2>1, <3>1
    <2>. QED
      BY <2>2, <2>3
  <1>7. ASSUME NEW c \in Clients, Ask(c) PROVE Owned'
    <2>1. UNCHANGED <<at, lock>> \/ \E p \in Procs : Go(p, "off", "create") /\ UNCHANGED lock
      BY <1>7 DEF Ask, Status, AskDefault, Restore, Spawn
    <2>. QED
      BY <1>1, <1>2, <1>3, <2>1, StepSets
  <1>. QED
    BY <1>3, <1>4, <1>5, <1>6, <1>7 DEF Next, vars

\* Pids are written by those they name, and processes that have ended stay so.
LEMMA SeenStep ==
  ASSUME DaemonInv, Owned, SeenNames, [Next]_vars
  PROVE  SeenNames'
  <1>1. /\ at \in [Procs -> Steps] /\ lock \in [by : Procs \cup {NoOne}, written : BOOLEAN] /\ ~NoLock.written
        /\ seen \in [Procs -> Procs \cup {NoOne}]
    BY DEF DaemonInv, DaemonTypeOK, NoLock
  <1>2. CASE UNCHANGED vars
    BY <1>2 DEF vars, SeenNames
  <1>3. lock'.written => lock'.by \in Procs
    <2>1. ASSUME NEW p \in Procs, WriteLock(p) PROVE lock'.written => lock'.by \in Procs
      <3>1. CASE lock.by = p
        <4>1. lock' = [lock EXCEPT !.written = TRUE]
          BY <2>1, <3>1 DEF WriteLock
        <4>2. lock'.by = lock.by
          BY <1>1, <4>1
        <4>. QED
          BY <3>1, <4>2
      <3>2. CASE lock.by # p
        BY <2>1, <3>2 DEF WriteLock, SeenNames
      <3>. QED
        BY <3>1, <3>2
    <2>2. CASE UNCHANGED lock \/ lock' = NoLock \/ \E p \in Procs : lock' = [by |-> p, written |-> FALSE]
      BY <1>1, <2>2 DEF SeenNames
    <2>3. \/ UNCHANGED lock \/ lock' = NoLock \/ \E p \in Procs : lock' = [by |-> p, written |-> FALSE]
          \/ \E p \in Procs : WriteLock(p)
      BY DEF Next, vars, Proceed, Happens, Ask, CreateLock, ReadLock, CheckOwner, RemoveStale, OpenStore, BindPort,
             Publish, StartPool, CloseFailed, StopPool, Unpublish, Release, Launch, WriteFails, RunFails,
             StopTransport, Crash, RemoveLock, Status, AskDefault, Restore, Spawn
    <2>. QED
      BY <2>1, <2>2, <2>3
  \* A process that neither reads nor judges goes on to something else.
  <1>4. ASSUME NEW p \in Procs, NEW from, NEW to, Go(p, from, to), UNCHANGED seen,
               from # "gone", to \notin {"off", "seen", "stale"}
        PROVE  SeenNames'
    <2>1. at[p] = from /\ at'[p] = to /\ \A q \in Procs \ {p} : at'[q] = at[q]
      BY <1>4, Moves
    <2>. QED
      BY <1>3, <1>4, <2>1 DEF SeenNames
  <1>5. ASSUME NEW p \in Procs, ReadLock(p) PROVE SeenNames'
    <2>1. CASE \E to \in {"create", "gone"} : Go(p, "exists", to) /\ UNCHANGED seen
      BY <1>4, <2>1
    <2>2. CASE lock.written /\ Go(p, "exists", "seen") /\ seen' = [seen EXCEPT ![p] = lock.by]
      <3>1. at[p] = "exists" /\ at'[p] = "seen" /\ \A q \in Procs \ {p} : at'[q] = at[q]
        BY <2>2, Moves
      <3>2. seen'[p] = lock.by /\ \A q \in Procs \ {p} : seen'[q] = seen[q]
        BY <1>1, <2>2
      <3>3. lock.by \in Procs /\ at[lock.by] \in Claims \cup {"gone"}
        BY <2>2 DEF SeenNames, Owned
      <3>4. "off" \notin Claims \cup {"gone"}
        BY StepSets
      <3>. QED
        BY <1>3, <3>1, <3>2, <3>3, <3>4 DEF SeenNames
    <2>3. Retry(p, "exists") => \E to \in {"create", "gone"} : Go(p, "exists", to)
      BY RetryIs
    <2>. QED
      BY <1>5, <2>1, <2>2, <2>3 DEF ReadLock
  <1>6. ASSUME NEW p \in Procs, CheckOwner(p) PROVE SeenNames'
    <2>1. CASE Alive(seen[p])
      BY <1>4, <1>6, <2>1 DEF CheckOwner
    <2>2. CASE ~Alive(seen[p])
      <3>1. Go(p, "seen", "stale") /\ UNCHANGED seen
        BY <1>6, <2>2 DEF CheckOwner
      <3>2. at[p] = "seen" /\ at'[p] = "stale" /\ \A q \in Procs \ {p} : at'[q] = at[q]
        BY <3>1, Moves
      <3>3. seen[p] \in Procs /\ at[seen[p]] = "gone"
        BY <2>2, <3>2 DEF SeenNames, Alive
      <3>. QED
        BY <1>3, <3>1, <3>2, <3>3 DEF SeenNames
    <2>. QED
      BY <2>1, <2>2
  <1>7. ASSUME NEW p \in Procs, Proceed(p) \/ Happens(p), ~ReadLock(p), ~CheckOwner(p) PROVE SeenNames'
    <2>1. CASE RemoveStale(p)
      <3>1. PICK to \in {"create", "gone"} : Go(p, "stale", to)
        BY <2>1, RetryIs DEF RemoveStale
      <3>. QED
        BY <1>4, <2>1, <3>1 DEF RemoveStale
    <2>2. CASE Crash(p)
      <3>1. Go(p, at[p], "gone") /\ at[p] # "gone" /\ UNCHANGED seen
        BY <2>2 DEF Crash, Go, Alive
      <3>. QED
        BY <1>4, <3>1
    <2>3. CASE ~RemoveStale(p) /\ ~Crash(p)
      <3>1. /\ UNCHANGED seen
            /\ \E from \in Steps \ {"gone"}, to \in Steps \ {"off", "seen", "stale"} : Go(p, from, to)
        BY <1>7, <2>3 DEF Proceed, Happens, CreateLock, WriteLock, OpenStore, BindPort, Publish, StartPool,
           CloseFailed, StopPool, Unpublish, Release, Launch, WriteFails, RunFails, StopTransport,
           Steps, Claiming, Starting, Failing, Stopping
      <3>. QED
        BY <1>4, <3>1
    <2>. QED
      BY <2>1, <2>2, <2>3
  <1>8. ASSUME NEW c \in Clients, Ask(c) PROVE SeenNames'
    <2>1. UNCHANGED seen /\ (UNCHANGED at \/ \E p \in Procs : Go(p, "off", "create"))
      BY <1>8 DEF Ask, Status, AskDefault, Restore, Spawn
    <2>2. CASE UNCHANGED at
      BY <1>3, <2>1, <2>2 DEF SeenNames
    <2>. QED
      BY <1>4, <2>1, <2>2
  <1>. QED
    BY <1>2, <1>5, <1>6, <1>7, <1>8 DEF Next

\* Whose the lock file is, and what those who read it have seen.
LEMMA NamesInvariance == Spec => [](Owned /\ SeenNames)
  <1>1. Init => Owned /\ SeenNames
    BY DEF Init, Owned, SeenNames, NoLock
  <1>2. DaemonInv /\ Owned /\ SeenNames /\ [Next]_vars => Owned' /\ SeenNames'
    BY OwnedStep, SeenStep
  <1>. QED
    BY <1>1, <1>2, DaemonInvariance, PTL DEF Spec

\* Shutdowns and failed starts remove their own lock file only, as long as no
\* stale removal has taken one away, and that goes by the pid of a process
\* that has ended.
THEOREM OnlyStaleRobs == Spec => OnlyStaleRemovalRobs
  <1>1. ASSUME DaemonInv, SeenNames, Next, ~robbed, robbed'
        PROVE  \E p \in Procs : /\ at[p] = "stale" /\ at'[p] # "stale"
                               /\ seen[p] \in Procs /\ at[seen[p]] = "gone"
    <2>1. ASSUME NEW p \in Procs, RemoveLock(p), at[p] \in Claims PROVE FALSE
      <3>1. lock.by = p
        BY <1>1, <2>1, HolderIsAlone
      <3>. QED
        BY <1>1, <2>1, <3>1 DEF RemoveLock
    <2>2. PICK p \in Procs : WriteFails(p) \/ RemoveStale(p) \/ Release(p)
      BY <1>1 DEF Next, Proceed, Happens, Ask, CreateLock, WriteLock, ReadLock, CheckOwner, OpenStore, BindPort,
                  Publish, StartPool, CloseFailed, StopPool, Unpublish, Launch, RunFails, StopTransport, Crash,
                  Status, AskDefault, Restore, Spawn
    <2>3. ~WriteFails(p) /\ ~Release(p)
      BY <2>1 DEF WriteFails, Release, Go, Claims, Holding, Failing
    <2>4. RemoveStale(p) /\ at \in [Procs -> Steps]
      BY <1>1, <2>2, <2>3 DEF DaemonInv, DaemonTypeOK
    <2>5. at[p] = "stale" /\ at'[p] # "stale"
      BY <2>4 DEF RemoveStale, Retry, Go
    <2>6. seen[p] \in Procs /\ at[seen[p]] = "gone"
      BY <1>1, <2>5 DEF SeenNames
    <2>. QED
      BY <2>5, <2>6
  <1>2. DaemonInv /\ Owned /\ SeenNames /\ [Next]_vars
          => [~robbed /\ robbed' =>
                \E p \in Procs : /\ at[p] = "stale" /\ at'[p] # "stale"
                                  /\ seen[p] \in Procs /\ at[seen[p]] = "gone"]_vars
    BY <1>1
  <1>. QED
    BY <1>2, DaemonInvariance, NamesInvariance, PTL DEF Spec, OnlyStaleRemovalRobs

\* The lock file, the port file and what the processes do with them keep the
\* promise of OneDaemon: a claim finds no holder, what serves is named by the
\* file and published, and nobody takes away the file of another, as long as
\* no stale removal has.
THEOREM DutyRefinement == Spec => ImplementsDuty
  <1>1. Init => Duty!Init
    <2>1. "off" \notin Claims \cup Ended /\ "off" # "serving" /\ NoLock.by = NoOne
      BY StepSets DEF NoLock
    <2>. SUFFICES ASSUME Init PROVE Duty!Init
      OBVIOUS
    <2>2. Holders = {} /\ Servers = {} /\ Retired = {}
      BY <2>1 DEF Init, Holders, Servers, Retired, Claims, Ended
    <2>. QED
      BY <2>1, <2>2 DEF Init, Duty!Init
  <1>2. DaemonInv /\ Owned /\ SeenNames /\ [Next]_vars => [Duty!Next]_Duty!dutyVars
    BY DutyStep
  <1>. QED
    BY <1>1, <1>2, DaemonInvariance, NamesInvariance, PTL DEF Spec, ImplementsDuty, Duty!Spec

\* Unrobbed, one holder whom the file names; whoever serves holds the lock, has
\* not retired and is published.
OneOnDuty ==
  /\ ~robbed => \A p \in Holders : lock.by = p /\ Holders = {p}
  /\ Servers \subseteq Holders \ Retired
  /\ ~robbed /\ Servers # {} => portFile

\* What OneDaemon allows is one daemon at a time: that a claim needs an empty
\* file, that nobody leaves with the file of another, and that a sweep of a
\* holder's file counts as robbery is enough for it.
THEOREM DutyIsOnes == Duty!Spec => []OneOnDuty
  <1>1. Duty!Init => OneOnDuty
    BY DEF Duty!Init, OneOnDuty
  <1>2. ASSUME OneOnDuty, [Duty!Next]_Duty!dutyVars PROVE OneOnDuty'
    <2>1. CASE UNCHANGED Duty!dutyVars
      BY <1>2, <2>1 DEF Duty!dutyVars, OneOnDuty
    <2>2. ASSUME NEW p \in Procs, Duty!Claim(p) PROVE OneOnDuty'
      <3>1. UNCHANGED <<Servers, Retired, portFile, robbed>> /\ lock'.by = p /\ Holders' = Holders \cup {p}
        BY <2>2 DEF Duty!Claim
      <3>2. ~robbed => Holders' = {p}
        BY <2>2, <3>1 DEF Duty!Claim
      <3>. QED
        BY <1>2, <3>1, <3>2 DEF OneOnDuty
    <2>3. ASSUME NEW p \in Procs, Duty!Serve(p) PROVE OneOnDuty'
      BY <1>2, <2>3 DEF Duty!Serve, OneOnDuty
    <2>4. ASSUME NEW p \in Procs, Duty!Retire(p) PROVE OneOnDuty'
      BY <1>2, <2>4 DEF Duty!Retire, OneOnDuty
    <2>5. ASSUME NEW p \in Procs, Duty!Leave(p) PROVE OneOnDuty'
      <3>1. /\ Holders' = Holders \ {p} /\ Servers' = Servers \ {p} /\ Retired' = Retired \cup {p}
            /\ UNCHANGED <<portFile, robbed>>
        BY <2>5 DEF Duty!Leave
      <3>2. ~robbed => Holders' = {}
        BY <1>2, <2>5, <3>1 DEF Duty!Leave, OneOnDuty
      <3>. QED
        BY <1>2, <3>1, <3>2 DEF OneOnDuty
    <2>6. ASSUME NEW p \in Procs, Duty!Sweep(p) PROVE OneOnDuty'
      <3>1. /\ UNCHANGED <<Holders, Servers, portFile>> /\ robbed' = (robbed \/ lock.by \in Holders)
            /\ p \notin Holders /\ Retired' \in {Retired, Retired \cup {p}}
        BY <2>6 DEF Duty!Sweep
      <3>2. ~robbed' => ~robbed /\ Holders' = {}
        BY <1>2, <3>1 DEF OneOnDuty
      <3>. QED
        BY <1>2, <3>1, <3>2 DEF OneOnDuty
    <2>7. ASSUME NEW p \in Procs, Duty!GiveUp(p) \/ Duty!Read(p) PROVE OneOnDuty'
      BY <1>2, <2>7 DEF Duty!GiveUp, Duty!Read, OneOnDuty
    <2>8. CASE Duty!Publish \/ Duty!Unpublish
      BY <1>2, <2>8 DEF Duty!Publish, Duty!Unpublish, OneOnDuty
    <2>. QED
      BY <1>2, <2>1, <2>2, <2>3, <2>4, <2>5, <2>6, <2>7, <2>8 DEF Duty!Next
  <1>. QED
    BY <1>1, <1>2, PTL DEF Duty!Spec
=============================================================================
