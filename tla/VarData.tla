------------------------------ MODULE VarData -------------------------------
(***************************************************************************)
(* What var-disk-manager promises about the server's data, without disks,   *)
(* partitions, prompts or power cuts: a set of volumes, each holding some   *)
(* version of /var or none, and the volume the system runs on.              *)
(***************************************************************************)
EXTENDS Integers

CONSTANTS Disk, NoDisk, MaxVersion

Absent == -2
Fresh  == 0

VARIABLES
  store,     \* the version of /var on each volume
  running,   \* the volume /var is mounted from, NoDisk while the system is down
  latest,    \* the version written last
  accepted,  \* volumes an operator agreed to start with an empty /var
  missed     \* a volume with a /var was overlooked when it mattered

vars == <<store, running, latest, accepted, missed>>

Init ==
  /\ store \in [Disk -> {Absent, Fresh, 1}]
  /\ latest \in {0, 1}
  /\ latest = 1 <=> \E d \in Disk : store[d] = 1
  /\ running = NoDisk /\ accepted = {} /\ missed = FALSE

(* A volume of the server's own is taken for somebody else's.               *)
Overlook ==
  /\ running = NoDisk
  /\ missed' = TRUE
  /\ UNCHANGED <<store, running, latest, accepted>>

(* The system starts on the latest data, or on an empty /var if told to;    *)
(* on any /var once one was overlooked.                                     *)
Start(d) ==
  /\ running = NoDisk /\ store[d] # Absent
  /\ \/ store[d] = latest
     \/ store[d] = Fresh /\ d \in accepted
     \/ missed
  /\ running' = d
  /\ UNCHANGED <<store, latest, accepted, missed>>

Stop == running # NoDisk /\ running' = NoDisk /\ UNCHANGED <<store, latest, accepted, missed>>

Write ==
  /\ running # NoDisk /\ latest < MaxVersion
  /\ latest' = latest + 1
  /\ store' = [store EXCEPT ![running] = latest + 1]
  /\ accepted' = accepted \ {running}
  /\ UNCHANGED <<running, missed>>

(* An operator agrees to an empty /var on a volume that has none.           *)
Agree(d) ==
  /\ running = NoDisk
  /\ accepted' = accepted \cup {d}
  /\ UNCHANGED <<store, running, latest, missed>>

CreateEmpty(d) ==
  /\ running = NoDisk /\ d \in accepted /\ store[d] = Absent
  /\ store' = [store EXCEPT ![d] = Fresh]
  /\ UNCHANGED <<running, latest, accepted, missed>>

(* A whole copy of one volume's data appears on a volume that had none.     *)
Copy(from, to) ==
  /\ running = NoDisk /\ store[to] = Absent /\ store[from] # Absent
  /\ store' = [store EXCEPT ![to] = store[from]]
  /\ UNCHANGED <<running, latest, accepted, missed>>

Next ==
  \/ Stop \/ Write \/ Overlook
  \/ \E d \in Disk : Start(d) \/ Agree(d) \/ CreateEmpty(d)
  \/ \E from, to \in Disk : Copy(from, to)

Spec == Init /\ [][Next]_vars
=============================================================================
