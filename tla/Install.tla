-------------------------------- MODULE Install --------------------------------
(***************************************************************************)
(* The installation of a driver package on a machine: the script           *)
(* install_prebuilt.sh, the install record kept by verify_package.py, and  *)
(* beside them build_from_source.sh, which writes the same files without   *)
(* the lock and without the record.                                        *)
(*                                                                         *)
(* begin_install and finish_install are one step each: they write nothing  *)
(* but the record, atomically (save_state: fsync, os.replace, fsync of the *)
(* directory), and only the holder of the lock does.                       *)
(***************************************************************************)
EXTENDS Integers

CONSTANTS
  Installers,   \* the runs of install_prebuilt.sh
  Packages,     \* the packages, told apart by their content
  Version,      \* the version of each, its three numbers as one
  BuildNo,      \* the build number of each
  NFiles,       \* the files a package installs, in the order they are copied
  Modules,      \* those that are kernel modules
  Absent, Partial, Foreign,  \* a file not there, not written out, of no package
  None

Files == 1 .. NFiles

ASSUME PackagesAssumption ==
  /\ Version \in [Packages -> Nat] /\ BuildNo \in [Packages -> Nat]
  /\ {Absent, Partial, Foreign, None} \cap Packages = {}
  /\ Absent \notin {Partial, Foreign}
  /\ None \notin [package : Packages, status : {"pending", "installed"}]

ASSUME FilesAssumption == NFiles \in Nat \ {0} /\ Modules \subseteq Files

ASSUME InstallersAssumption == None \notin Installers

VARIABLES
  record,     \* install.json: [package, status], or None
  disk,       \* what each file holds
  dirty,      \* the files whose content is not on stable storage yet
  lock,       \* the run holding the flock on install.lock, or None
  pc,         \* where each run is
  tree,       \* the package in the directory a run was started from
  token,      \* the package begin_install recorded for the run
  at,         \* the file the run copies next
  builder,    \* the file build_from_source.sh writes next, 0 when it does not run
  disturbed   \* history: since a run began or finished last, a build or a loss
              \* of power changed a file, or another package was unpacked over
              \* the tree of a started run, one still waiting for the lock included

vars == <<record, disk, dirty, lock, pc, tree, token, at, builder, disturbed>>

Pending(p)   == [package |-> p, status |-> "pending"]
Installed(p) == [package |-> p, status |-> "installed"]

Init ==
  /\ record = None
  /\ disk = [f \in Files |-> Absent]
  /\ dirty = {}
  /\ lock = None
  /\ pc = [i \in Installers |-> "idle"]
  /\ tree \in [Installers -> Packages]
  /\ token = [i \in Installers |-> None]
  /\ at = [i \in Installers |-> 1]
  /\ builder = 0
  /\ disturbed = FALSE

Goto(i, l) == pc' = [pc EXCEPT ![i] = l]

\* Slip: the lock outlives the run.
Exit_locked(i) ==
  /\ Goto(i, "idle")
  /\ UNCHANGED lock
  /\ token' = [token EXCEPT ![i] = None]
  /\ at' = [at EXCEPT ![i] = 1]

\* The process ends, and with it its hold of the lock.
Exit(i) ==
  /\ Goto(i, "idle")
  /\ lock' = IF lock = i THEN None ELSE lock
  /\ token' = [token EXCEPT ![i] = None]
  /\ at' = [at EXCEPT ![i] = 1]

-----------------------------------------------------------------------------
(* install_prebuilt.sh *)

start(i) ==
  /\ pc[i] = "idle"
  /\ Goto(i, "flock")
  /\ UNCHANGED <<record, disk, dirty, lock, tree, token, at, builder, disturbed>>

\* Slip: the lock is not waited for.
flock_shared(i) ==
  /\ pc[i] = "flock"
  /\ lock' = i
  /\ Goto(i, "begin")
  /\ UNCHANGED <<record, disk, dirty, tree, token, at, builder, disturbed>>

flock(i) ==
  /\ pc[i] = "flock"
  /\ lock = None
  /\ lock' = i
  /\ Goto(i, "begin")
  /\ UNCHANGED <<record, disk, dirty, tree, token, at, builder, disturbed>>

installed_matches(p) == \A f \in Files : disk[f] = p

\* Slip: version and build number are compared with or.
Later_either(q, p) ==
  /\ BuildNo[q] >= BuildNo[p] \/ Version[q] >= Version[p]
  /\ BuildNo[q] = BuildNo[p] => q = p

\* q may replace the installed p: neither number is lower, and one build
\* number stands for one content.
Later(q, p) ==
  /\ BuildNo[q] >= BuildNo[p]
  /\ Version[q] >= Version[p]
  /\ BuildNo[q] = BuildNo[p] => q = p

\* begin_install lets package q in.
Admitted(q) ==
  \/ record = None /\ \A f \in Modules : disk[f] = Absent
  \/ record = Pending(q)
  \/ \E p \in Packages : record = Installed(p) /\ Later(q, p) /\ installed_matches(p)

begin_install(i) ==
  /\ pc[i] = "begin"
  /\ IF Admitted(tree[i])
       THEN /\ record' = Pending(tree[i])
            /\ token' = [token EXCEPT ![i] = tree[i]]
            /\ Goto(i, "install")
            /\ disturbed' = FALSE
            /\ UNCHANGED <<lock, at>>
       ELSE Exit(i) /\ UNCHANGED <<record, disturbed>>
  /\ UNCHANGED <<disk, dirty, tree, builder>>

\* install_files, a file at a time: removed or truncated first (rm -rf of the
\* firmware, install of the others) ...
clear_file(i) ==
  /\ pc[i] = "install"
  /\ disk' = [disk EXCEPT ![at[i]] = Partial]
  /\ dirty' = dirty \cup {at[i]}
  /\ Goto(i, "copy")
  /\ UNCHANGED <<record, lock, tree, token, at, builder, disturbed>>

\* Slip: the end of the files is missed.
copy_file_past(i) ==
  /\ pc[i] = "copy"
  /\ disk' = [disk EXCEPT ![at[i]] = tree[i]]
  /\ dirty' = dirty \cup {at[i]}
  /\ IF at[i] > NFiles
       THEN Goto(i, "load") /\ UNCHANGED at
       ELSE Goto(i, "install") /\ at' = [at EXCEPT ![i] = @ + 1]
  /\ UNCHANGED <<record, lock, tree, token, builder, disturbed>>

\* ... then written from the tree, whatever package is in it now.
copy_file(i) ==
  /\ pc[i] = "copy"
  /\ disk' = [disk EXCEPT ![at[i]] = tree[i]]
  /\ dirty' = dirty \cup {at[i]}
  /\ IF at[i] = NFiles
       THEN Goto(i, "load") /\ UNCHANGED at
       ELSE Goto(i, "install") /\ at' = [at EXCEPT ![i] = @ + 1]
  /\ UNCHANGED <<record, lock, tree, token, builder, disturbed>>

\* load_modules; a modprobe that fails ends the run (see stop).
load_modules(i) ==
  /\ pc[i] = "load"
  /\ Goto(i, "finish")
  /\ UNCHANGED <<record, disk, dirty, lock, tree, token, at, builder, disturbed>>

\* Slip: the files are not read back.
finish_install_blind(i) ==
  /\ pc[i] = "finish"
  /\ record' = Installed(tree[i])
  /\ disturbed' = FALSE
  /\ Exit(i)
  /\ UNCHANGED <<disk, dirty, tree, builder>>

\* The record becomes installed if tree, record, token and files agree.
finish_install(i) ==
  /\ pc[i] = "finish"
  /\ IF record = Pending(tree[i]) /\ token[i] = tree[i] /\ installed_matches(tree[i])
       THEN record' = Installed(tree[i]) /\ disturbed' = FALSE
       ELSE UNCHANGED <<record, disturbed>>
  /\ Exit(i)
  /\ UNCHANGED <<disk, dirty, tree, builder>>

\* A command fails under set -e, or the run is killed.
stop(i) ==
  /\ pc[i] # "idle"
  /\ Exit(i)
  /\ UNCHANGED <<record, disk, dirty, tree, builder, disturbed>>

-----------------------------------------------------------------------------
(* The surroundings. *)

\* Another package is unpacked over the directory of run i.
replace_tree(i) ==
  /\ \E p \in Packages : tree' = [tree EXCEPT ![i] = p]
  /\ disturbed' = (disturbed \/ pc[i] # "idle")
  /\ UNCHANGED <<record, disk, dirty, lock, pc, token, at, builder>>

\* build_from_source.sh: dkms installs its modules, then come firmware, rules
\* and the load list.  It starts at any time and may end after any file.
build_start ==
  /\ builder = 0
  /\ builder' = 1
  /\ UNCHANGED <<record, disk, dirty, lock, pc, tree, token, at, disturbed>>

build_file ==
  /\ builder \in Files
  /\ disk' = [disk EXCEPT ![builder] = Foreign]
  /\ dirty' = dirty \cup {builder}
  /\ disturbed' = TRUE
  /\ builder' \in {0, IF builder = NFiles THEN 0 ELSE builder + 1}
  /\ UNCHANGED <<record, lock, pc, tree, token, at>>

\* External: the kernel writes a file back to stable storage.
writeback ==
  /\ \E f \in dirty : dirty' = dirty \ {f}
  /\ UNCHANGED <<record, disk, lock, pc, tree, token, at, builder, disturbed>>

\* Power is lost: every process is gone, and of the files not yet written
\* back any may be incomplete afterwards.
power_loss ==
  /\ \E L \in SUBSET dirty :
       /\ disk' = [f \in Files |-> IF f \in L THEN Partial ELSE disk[f]]
       /\ disturbed' = (disturbed \/ L # {})
  /\ dirty' = {}
  /\ lock' = None
  /\ pc' = [i \in Installers |-> "idle"]
  /\ token' = [i \in Installers |-> None]
  /\ at' = [i \in Installers |-> 1]
  /\ builder' = 0
  /\ UNCHANGED <<record, tree>>

-----------------------------------------------------------------------------

Run(i) ==
  \/ flock(i) \/ begin_install(i) \/ clear_file(i) \/ copy_file(i)
  \/ load_modules(i) \/ finish_install(i)

Next ==
  \/ \E i \in Installers : start(i) \/ Run(i) \/ stop(i) \/ replace_tree(i)
  \/ build_start \/ build_file
  \/ writeback \/ power_loss

Spec == Init /\ [][Next]_vars

\* A run that is started goes on, and gets the lock when it is free often
\* enough.  Nobody need start a run, and any may be stopped.
FairSpec == Spec /\ \A i \in Installers : SF_vars(Run(i))

-----------------------------------------------------------------------------
(* Properties. *)

Labels == {"idle", "flock", "begin", "install", "copy", "load", "finish"}
Locked == Labels \ {"idle", "flock"}

TypeOK ==
  /\ record \in [package : Packages, status : {"pending", "installed"}] \cup {None}
  /\ disk \in [Files -> Packages \cup {Absent, Partial, Foreign}]
  /\ dirty \subseteq Files
  /\ lock \in Installers \cup {None}
  /\ pc \in [Installers -> Labels]
  /\ tree \in [Installers -> Packages]
  /\ token \in [Installers -> Packages \cup {None}]
  /\ at \in [Installers -> Files]
  /\ builder \in 0 .. NFiles
  /\ disturbed \in BOOLEAN

\* What the record calls installed is what the files hold, unless since then a
\* build from source or a loss of power changed them, or the tree of a run under
\* way was replaced (finish_install reads them back, and no second run writes
\* meanwhile).
InstalledMatches ==
  \A p \in Packages : record = Installed(p) /\ ~disturbed => installed_matches(p)

\* A run that nobody disturbed has, at its end, everything finish_install asks
\* for: a failed or stopped run before it costs a retry and no more.
UndisturbedFinishes ==
  \A i \in Installers : pc[i] = "finish" /\ ~disturbed =>
    /\ record = Pending(tree[i])
    /\ token[i] = tree[i]
    /\ installed_matches(tree[i])

\* The machine as the record and the files describe it.
stage ==
  IF record = None THEN "bare"
  ELSE IF record.status = "pending" THEN "changing"
  ELSE IF disturbed \/ installed_matches(record.package) THEN "complete" ELSE "broken"

Up == INSTANCE Upgrade WITH package <- IF record = None THEN {} ELSE {record.package}

\* Stopped, repeated and racing runs, trees changed meanwhile and lost power
\* never undo a begun change or bring back an earlier package.
UpgradesOnly == Up!Spec

\* A run ends, whatever state the runs before it left.
RunsEnd == \A i \in Installers : pc[i] = "flock" ~> pc[i] = "idle"
===============================================================================
