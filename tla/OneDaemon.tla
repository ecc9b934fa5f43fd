------------------------------ MODULE OneDaemon ------------------------------
(***************************************************************************)
(* What the lock file and the port file promise, with pids, attempts, the  *)
(* port, the store and the clients left out.  A process claims the file    *)
(* once, serves under it, retires, and leaves.  A file is swept away by a  *)
(* process that has read in it the name of one that is gone.  As long as   *)
(* nobody lost its file so, there is one holder, the file names it until   *)
(* it leaves, and whoever serves is published.                             *)
(***************************************************************************)
CONSTANTS Procs, NoOne

VARIABLES
  file,        \* whom the file names
  holders,     \* the processes that have claimed it and not left
  serving,     \* those that serve
  retired,     \* those that will not serve any more
  published,   \* daemons can be found
  read,        \* whom each process has read in the file
  robbed       \* a holder's file was swept away

dutyVars == <<file, holders, serving, retired, published, read, robbed>>

Init ==
  /\ file = NoOne /\ published = FALSE /\ robbed = FALSE
  /\ holders = {} /\ serving = {} /\ retired = {}
  /\ read = [p \in Procs |-> NoOne]

Claim(p) ==
  /\ p \notin holders \cup retired /\ file = NoOne
  /\ robbed \/ holders = {}
  /\ file' = p /\ holders' = holders \cup {p}
  /\ UNCHANGED <<serving, retired, published, read, robbed>>

Serve(p) ==
  /\ p \in holders \ retired /\ serving = {}
  /\ robbed \/ (file = p /\ published)
  /\ serving' = {p}
  /\ UNCHANGED <<file, holders, retired, published, read, robbed>>

\* A start that fails, or a shutdown that begins; the first takes back what it
\* has published.
Retire(p) ==
  /\ p \in holders \ retired
  /\ retired' = retired \cup {p} /\ serving' = serving \ {p}
  /\ published' = published \/ (published' = FALSE /\ (robbed \/ serving = {}))
  /\ UNCHANGED <<file, holders, read, robbed>>

Publish == published' = TRUE /\ UNCHANGED <<file, holders, serving, retired, read, robbed>>

Unpublish ==
  /\ robbed \/ serving = {}
  /\ published' = FALSE
  /\ UNCHANGED <<file, holders, serving, retired, read, robbed>>

\* A holder's own file goes with it, or stays behind; it never takes another's.
Leave(p) ==
  /\ p \in holders
  /\ holders' = holders \ {p} /\ serving' = serving \ {p} /\ retired' = retired \cup {p}
  /\ file' = file \/ (file' = NoOne /\ (robbed \/ file = p))
  /\ UNCHANGED <<published, read, robbed>>

\* A process that wants the lock looks whose it is.
Read(p) ==
  /\ p \notin holders \cup retired /\ file \in Procs
  /\ read' = [read EXCEPT ![p] = file]
  /\ UNCHANGED <<file, holders, serving, retired, published, robbed>>

\* Having read the name of one that is gone, it takes the file away, whosever
\* it is by now.
Sweep(p) ==
  /\ p \notin holders \cup retired /\ read[p] \in retired \ holders
  /\ file' = NoOne /\ robbed' = (robbed \/ file \in holders)
  /\ retired' \in {retired, retired \cup {p}}
  /\ UNCHANGED <<holders, serving, published, read>>

GiveUp(p) ==
  /\ p \notin holders
  /\ retired' = retired \cup {p}
  /\ UNCHANGED <<file, holders, serving, published, read, robbed>>

Next ==
  \/ \E p \in Procs : Claim(p) \/ Serve(p) \/ Retire(p) \/ Leave(p) \/ Read(p) \/ Sweep(p) \/ GiveUp(p)
  \/ Publish \/ Unpublish

Spec == Init /\ [][Next]_dutyVars
=============================================================================
