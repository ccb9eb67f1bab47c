------------------------------ MODULE InstallProofs ------------------------------
(***************************************************************************)
(* What holds of the installation for every number of runs, packages and   *)
(* files.                                                                  *)
(***************************************************************************)
EXTENDS Install, TLAPS

\* A run that passed flock holds the lock.
Exclusive == \A i \in Installers : pc[i] \in Locked => lock = i

\* A run that has not begun will copy the files from the first.
AtStart == \A i \in Installers : pc[i] \in {"idle", "flock", "begin"} => at[i] = 1

\* What a run between begin_install and finish_install has done so far.
Progress ==
  \A i \in Installers : pc[i] \in {"install", "copy", "load", "finish"} =>
    /\ token[i] \in Packages
    /\ record = Pending(token[i])
    /\ ~disturbed =>
         /\ token[i] = tree[i]
         /\ \A f \in Files : f < at[i] => disk[f] = tree[i]
         /\ pc[i] \in {"load", "finish"} => installed_matches(tree[i])

IInv == TypeOK /\ Exclusive /\ AtStart /\ Progress /\ InstalledMatches

-----------------------------------------------------------------------------

LEMMA InitIInv == Init => IInv
<1> SUFFICES ASSUME Init PROVE IInv
  OBVIOUS
<1> USE DEF Init
<1>1. TypeOK
  <2>1. 1 \in Files /\ 0 \in 0 .. NFiles
    BY FilesAssumption DEF Files
  <2>2. record \in [package : Packages, status : {"pending", "installed"}] \cup {None}
    OBVIOUS
  <2> QED
    BY <2>1, <2>2 DEF TypeOK, Labels
<1>2. Exclusive /\ AtStart /\ Progress
  BY DEF Exclusive, AtStart, Progress, Locked, Labels
<1>3. InstalledMatches
  BY PackagesAssumption DEF InstalledMatches, Installed
<1> QED
  BY <1>1, <1>2, <1>3 DEF IInv

LEMMA TypeStep == TypeOK /\ [Next]_vars => TypeOK'
<1> SUFFICES ASSUME TypeOK, [Next]_vars PROVE TypeOK'
  OBVIOUS
<1>a. /\ 1 \in Files /\ {0, 1} \subseteq 0 .. NFiles
      /\ \A f \in Files : f # NFiles => f + 1 \in Files /\ f + 1 \in 0 .. NFiles
  BY FilesAssumption DEF Files
<1> USE <1>a DEF TypeOK, Labels
<1>1. ASSUME NEW i \in Installers, start(i) PROVE TypeOK'
  BY <1>1 DEF start, Goto
<1>2. ASSUME NEW i \in Installers, flock(i) PROVE TypeOK'
  BY <1>2 DEF flock, Goto
<1>3. ASSUME NEW i \in Installers, begin_install(i) PROVE TypeOK'
  <2>1. Pending(tree[i]) \in [package : Packages, status : {"pending", "installed"}]
    BY DEF Pending
  <2>2. CASE Admitted(tree[i])
    <3>1. record' \in [package : Packages, status : {"pending", "installed"}] \cup {None}
      BY <1>3, <2>1, <2>2 DEF begin_install
    <3> QED
      BY <1>3, <2>2, <3>1 DEF begin_install, Goto
  <2>3. CASE ~Admitted(tree[i])
    BY <1>3, <2>3 DEF begin_install, Exit, Goto
  <2> QED
    BY <2>2, <2>3
<1>4. ASSUME NEW i \in Installers, clear_file(i) PROVE TypeOK'
  BY <1>4 DEF clear_file, Goto
<1>5. ASSUME NEW i \in Installers, copy_file(i) PROVE TypeOK'
  <2>1. CASE at[i] = NFiles
    BY <1>5, <2>1 DEF copy_file, Goto
  <2>2. CASE at[i] # NFiles
    BY <1>5, <2>2 DEF copy_file, Goto
  <2> QED
    BY <2>1, <2>2
<1>6. ASSUME NEW i \in Installers, load_modules(i) PROVE TypeOK'
  BY <1>6 DEF load_modules, Goto
<1>7. ASSUME NEW i \in Installers, finish_install(i) PROVE TypeOK'
  <2>1. Installed(tree[i]) \in [package : Packages, status : {"pending", "installed"}]
    BY DEF Installed
  <2>2. record' \in [package : Packages, status : {"pending", "installed"}] \cup {None}
    BY <1>7, <2>1 DEF finish_install
  <2>3. disturbed' \in BOOLEAN
    BY <1>7 DEF finish_install
  <2> QED
    BY <1>7, <2>2, <2>3 DEF finish_install, Exit, Goto
<1>8. ASSUME NEW i \in Installers, stop(i) PROVE TypeOK'
  BY <1>8 DEF stop, Exit, Goto
<1>9. ASSUME NEW i \in Installers, replace_tree(i) PROVE TypeOK'
  BY <1>9 DEF replace_tree
<1>10. CASE build_start
  BY <1>10 DEF build_start
<1>11. CASE build_file
  BY <1>11 DEF build_file
<1>12. CASE writeback
  BY <1>12 DEF writeback
<1>13. CASE power_loss
  BY <1>13 DEF power_loss
<1>14. CASE UNCHANGED vars
  BY <1>14 DEF vars
<1> QED
  BY <1>1, <1>2, <1>3, <1>4, <1>5, <1>6, <1>7, <1>8, <1>9, <1>10, <1>11, <1>12,
     <1>13, <1>14 DEF Next, Run

LEMMA ExclusiveStep == TypeOK /\ Exclusive /\ [Next]_vars => Exclusive'
<1> SUFFICES ASSUME TypeOK, Exclusive, [Next]_vars PROVE Exclusive'
  OBVIOUS
<1> USE InstallersAssumption DEF TypeOK, Exclusive, Locked, Labels
<1>1. ASSUME NEW i \in Installers, start(i) PROVE Exclusive'
  BY <1>1 DEF start, Goto
<1>2. ASSUME NEW i \in Installers, flock(i) PROVE Exclusive'
  BY <1>2 DEF flock, Goto
<1>3. ASSUME NEW i \in Installers, begin_install(i) PROVE Exclusive'
  BY <1>3 DEF begin_install, Exit, Goto
<1>4. ASSUME NEW i \in Installers, clear_file(i) \/ copy_file(i) \/ load_modules(i)
      PROVE Exclusive'
  BY <1>4 DEF clear_file, copy_file, load_modules, Goto
<1>5. ASSUME NEW i \in Installers, finish_install(i) \/ stop(i) PROVE Exclusive'
  BY <1>5 DEF finish_install, stop, Exit, Goto
<1>6. ASSUME NEW i \in Installers, replace_tree(i) PROVE Exclusive'
  BY <1>6 DEF replace_tree
<1>7. CASE build_start \/ build_file \/ writeback \/ UNCHANGED vars
  BY <1>7 DEF build_start, build_file, writeback, vars
<1>8. CASE power_loss
  BY <1>8 DEF power_loss
<1> QED
  BY <1>1, <1>2, <1>3, <1>4, <1>5, <1>6, <1>7, <1>8 DEF Next, Run

\* A run that holds the lock is the only one past flock.
LEMMA Alone ==
  ASSUME TypeOK, Exclusive,
         NEW i \in Installers, pc[i] \in Locked,
         NEW j \in Installers, j # i
  PROVE  pc[j] \notin Locked
  BY InstallersAssumption DEF Exclusive

LEMMA AtStartStep == TypeOK /\ AtStart /\ [Next]_vars => AtStart'
<1> SUFFICES ASSUME TypeOK, AtStart, [Next]_vars PROVE AtStart'
  OBVIOUS
<1> USE FilesAssumption DEF TypeOK, AtStart, Files
<1>1. ASSUME NEW i \in Installers, start(i) \/ flock(i) \/ begin_install(i)
      PROVE AtStart'
  BY <1>1 DEF start, flock, begin_install, Exit, Goto
<1>2. ASSUME NEW i \in Installers, clear_file(i) \/ copy_file(i) \/ load_modules(i)
      PROVE AtStart'
  BY <1>2 DEF clear_file, copy_file, load_modules, Goto
<1>3. ASSUME NEW i \in Installers, finish_install(i) \/ stop(i) PROVE AtStart'
  BY <1>3 DEF finish_install, stop, Exit, Goto
<1>4. ASSUME NEW i \in Installers, replace_tree(i) PROVE AtStart'
  BY <1>4 DEF replace_tree
<1>5. CASE build_start \/ build_file \/ writeback \/ UNCHANGED vars
  BY <1>5 DEF build_start, build_file, writeback, vars
<1>6. CASE power_loss
  BY <1>6 DEF power_loss
<1> QED
  BY <1>1, <1>2, <1>3, <1>4, <1>5, <1>6 DEF Next, Run

Past == {"install", "copy", "load", "finish"}

\* Progress, for one run.
Done(j) ==
  pc[j] \in Past =>
    /\ token[j] \in Packages
    /\ record = Pending(token[j])
    /\ ~disturbed =>
         /\ token[j] = tree[j]
         /\ \A f \in Files : f < at[j] => disk[f] = tree[j]
         /\ pc[j] \in {"load", "finish"} => installed_matches(tree[j])

LEMMA ProgressStep ==
  TypeOK /\ Exclusive /\ AtStart /\ Progress /\ [Next]_vars => Progress'
<1> SUFFICES ASSUME TypeOK, Exclusive, AtStart, Progress, [Next]_vars,
                    NEW j \in Installers
             PROVE  Done(j)'
  BY DEF Progress, Done, Past
<1>0. Done(j)
  BY DEF Progress, Done, Past
<1>a. Past \subseteq Locked /\ "begin" \in Locked /\ "idle" \notin Past
  BY DEF Past, Locked, Labels
<1> USE <1>0, FilesAssumption DEF TypeOK, Files
<1>1. ASSUME NEW i \in Installers, start(i) \/ flock(i) PROVE Done(j)'
  BY <1>1 DEF start, flock, Goto, Done, Past, installed_matches
<1>2. ASSUME NEW i \in Installers, begin_install(i) PROVE Done(j)'
  <2>1. CASE i = j
    <3>1. at[j] = 1
      BY <1>2, <2>1 DEF begin_install, AtStart
    <3>2. \A f \in Files : ~(f < 1)
      BY DEF Files
    <3> QED
      BY <1>2, <2>1, <3>1, <3>2 DEF begin_install, Exit, Goto, Done, Past
  <2>2. CASE i # j
    <3>1. pc[j] \notin Locked
      BY <1>2, <2>2, <1>a, Alone DEF begin_install
    <3>2. pc'[j] = pc[j]
      BY <1>2, <2>2 DEF begin_install, Exit, Goto
    <3> QED
      BY <3>1, <3>2, <1>a DEF Done
  <2> QED
    BY <2>1, <2>2
<1>3. ASSUME NEW i \in Installers, clear_file(i) \/ copy_file(i) \/ load_modules(i)
      PROVE Done(j)'
  <2>1. CASE i = j /\ clear_file(i)
    BY <2>1 DEF clear_file, Goto, Done, Past, installed_matches
  <2>2. CASE i = j /\ copy_file(i)
    <3>1. CASE at[j] = NFiles
      BY <2>2, <3>1 DEF copy_file, Goto, Done, Past, installed_matches
    <3>2. CASE at[j] # NFiles
      BY <2>2, <3>2 DEF copy_file, Goto, Done, Past
    <3> QED
      BY <3>1, <3>2
  <2>3. CASE i = j /\ load_modules(i)
    BY <2>3 DEF load_modules, Goto, Done, Past, installed_matches
  <2>4. CASE i # j
    <3>1. pc[i] \in Past
      BY <1>3 DEF clear_file, copy_file, load_modules, Past
    <3>2. pc[j] \notin Locked
      BY <2>4, <3>1, <1>a, Alone
    <3>3. pc'[j] = pc[j]
      BY <1>3, <2>4 DEF clear_file, copy_file, load_modules, Goto
    <3> QED
      BY <3>2, <3>3, <1>a DEF Done
  <2> QED
    BY <1>3, <2>1, <2>2, <2>3, <2>4
<1>4. ASSUME NEW i \in Installers, finish_install(i) PROVE Done(j)'
  <2>1. CASE i = j
    BY <1>4, <2>1 DEF finish_install, Exit, Goto, Done, Past
  <2>2. CASE i # j
    <3>1. pc[j] \notin Locked
      BY <1>4, <2>2, <1>a, Alone DEF finish_install, Past
    <3>2. pc'[j] = pc[j]
      BY <1>4, <2>2 DEF finish_install, Exit, Goto
    <3> QED
      BY <3>1, <3>2, <1>a DEF Done
  <2> QED
    BY <2>1, <2>2
<1>5. ASSUME NEW i \in Installers, stop(i) PROVE Done(j)'
  BY <1>5 DEF stop, Exit, Goto, Done, Past, installed_matches
<1>6. ASSUME NEW i \in Installers, replace_tree(i) PROVE Done(j)'
  BY <1>6 DEF replace_tree, Done, Past, installed_matches
<1>7. CASE build_file
  BY <1>7 DEF build_file, Done, Past
<1>8. CASE build_start \/ writeback \/ UNCHANGED vars
  BY <1>8 DEF build_start, writeback, vars, Done, Past, installed_matches
<1>9. CASE power_loss
  BY <1>9 DEF power_loss, Done, Past
<1> QED
  BY <1>1, <1>2, <1>3, <1>4, <1>5, <1>6, <1>7, <1>8, <1>9 DEF Next, Run

LEMMA MatchesStep ==
  TypeOK /\ Exclusive /\ Progress /\ InstalledMatches /\ [Next]_vars => InstalledMatches'
<1> SUFFICES ASSUME TypeOK, Exclusive, Progress, InstalledMatches, [Next]_vars,
                    NEW p \in Packages, record' = Installed(p), ~disturbed'
             PROVE  \A f \in Files : disk'[f] = p
  BY DEF InstalledMatches, installed_matches
<1>0. record = Installed(p) /\ ~disturbed => \A f \in Files : disk[f] = p
  BY DEF InstalledMatches, installed_matches
<1> USE <1>0 DEF TypeOK, Installed, Pending
<1>1. ASSUME NEW i \in Installers, start(i) \/ flock(i) \/ load_modules(i) \/ stop(i)
                                     \/ replace_tree(i)
      PROVE \A f \in Files : disk'[f] = p
  BY <1>1 DEF start, flock, load_modules, stop, replace_tree
<1>2. ASSUME NEW i \in Installers, begin_install(i)
      PROVE \A f \in Files : disk'[f] = p
  BY <1>2 DEF begin_install
<1>3. ASSUME NEW i \in Installers, clear_file(i) \/ copy_file(i)
      PROVE \A f \in Files : disk'[f] = p
  <2>1. record = Pending(token[i])
    BY <1>3 DEF clear_file, copy_file, Progress
  <2> QED
    BY <1>3, <2>1 DEF clear_file, copy_file
<1>4. ASSUME NEW i \in Installers, finish_install(i)
      PROVE \A f \in Files : disk'[f] = p
  BY <1>4 DEF finish_install, installed_matches
<1>5. CASE build_start \/ build_file \/ writeback \/ UNCHANGED vars
  BY <1>5 DEF build_start, build_file, writeback, vars
<1>6. CASE power_loss
  BY <1>6 DEF power_loss
<1> QED
  BY <1>1, <1>2, <1>3, <1>4, <1>5, <1>6 DEF Next, Run

LEMMA InvariantHolds == Spec => []IInv
<1>1. IInv /\ [Next]_vars => IInv'
  BY TypeStep, ExclusiveStep, AtStartStep, ProgressStep, MatchesStep DEF IInv
<1> QED
  BY InitIInv, <1>1, PTL DEF Spec

\* In every reachable state the record names a package and a status the script
\* writes, and every file is of one package, of a build, partial or absent.
THEOREM TypeCorrect == Spec => []TypeOK
<1>1. IInv => TypeOK
  BY DEF IInv
<1> QED
  BY InvariantHolds, <1>1, PTL

-----------------------------------------------------------------------------

\* However runs are stopped, repeated or raced, the record calls a package
\* installed only while its files are in place (finish_install), as long as
\* nobody but the installer has changed them since.
THEOREM InstalledMatchesAlways == Spec => []InstalledMatches
<1>1. IInv => InstalledMatches
  BY DEF IInv
<1> QED
  BY InvariantHolds, <1>1, PTL

\* finish_install refuses no run that was left alone.
THEOREM UndisturbedFinishesAlways == Spec => []UndisturbedFinishes
<1>1. IInv => UndisturbedFinishes
  BY DEF IInv, Progress, UndisturbedFinishes
<1> QED
  BY InvariantHolds, <1>1, PTL

\* The abstract state: what Up's variables stand for.
Upgraded == <<stage, IF record = None THEN {} ELSE {record.package}>>

\* The installation implements Upgrade: a begun change is completed with the
\* package it was begun with, and only a later package or the same replaces it.
THEOREM ImplementsUpgrade == Spec => UpgradesOnly
<1>1. Init => Up!Init
  BY DEF Init, Up!Init, stage
<1>2. IInv /\ IInv' /\ [Next]_vars => [Up!Next]_(Upgraded)
  <2> SUFFICES ASSUME IInv, IInv', [Next]_vars
               PROVE  [Up!Next]_(Upgraded)
    OBVIOUS
  <2> USE PackagesAssumption DEF Upgraded
  <2>1. TypeOK /\ (record # None /\ record.status = "installed" /\ ~disturbed
                      => installed_matches(record.package))
    BY DEF IInv, InstalledMatches, TypeOK, Installed
  <2>2. ASSUME NEW i \in Installers, begin_install(i) PROVE [Up!Next]_(Upgraded)
    <3>1. CASE record' = record /\ disturbed' = disturbed
      BY <2>2, <3>1 DEF begin_install, stage, installed_matches
    <3>2. CASE Admitted(tree[i]) /\ record' = Pending(tree[i])
      <4>1. tree[i] \in Packages
        BY <2>1 DEF TypeOK
      <4>2. record' # None /\ record'.package = tree[i] /\ stage' = "changing"
        BY <3>2, <4>1 DEF Pending, stage
      <4>3. CASE record = None
        BY <4>1, <4>2, <4>3 DEF Up!Next, Up!Begin, stage
      <4>4. CASE record = Pending(tree[i])
        BY <4>1, <4>2, <4>4 DEF stage, Pending
      <4>5. ASSUME NEW p \in Packages, record = Installed(p), Later(tree[i], p),
                   installed_matches(p)
            PROVE  Up!Begin(tree[i])
        <5>1. record # None /\ record.package = p /\ stage = "complete"
          BY <4>5 DEF Installed, stage
        <5> QED
          BY <4>1, <4>2, <4>5, <5>1 DEF Up!Begin, Up!Later, Later
      <4> QED
        BY <3>2, <4>1, <4>3, <4>4, <4>5 DEF Admitted, Up!Next
    <3> QED
      BY <2>2, <3>1, <3>2 DEF begin_install
  <2>3. ASSUME NEW i \in Installers, finish_install(i) PROVE [Up!Next]_(Upgraded)
    <3>1. CASE record = Pending(tree[i]) /\ record' = Installed(tree[i])
                 /\ disk' = disk /\ installed_matches(tree[i])
      <4>1. tree[i] \in Packages
        BY <2>1 DEF TypeOK
      <4>2. record # None /\ record.package = tree[i] /\ stage = "changing"
        BY <3>1, <4>1 DEF Pending, stage
      <4>3. record' # None /\ record'.package = tree[i] /\ stage' = "complete"
        BY <3>1, <4>1 DEF Installed, stage, installed_matches
      <4> QED
        BY <4>2, <4>3 DEF Up!Next, Up!Complete
    <3>2. CASE record' = record /\ disturbed' = disturbed /\ disk' = disk
      BY <3>2 DEF stage, installed_matches
    <3> QED
      BY <2>3, <3>1, <3>2 DEF finish_install
  <2>4. CASE record' = record /\ (disturbed = TRUE => disturbed' = TRUE)
    <3>1. stage # "broken" /\ stage' # "broken"
      BY <2>1, <2>4 DEF stage, IInv, InstalledMatches, TypeOK, Installed
    <3> QED
      BY <2>4, <3>1 DEF stage
  <2>5. \A i \in Installers :
          start(i) \/ flock(i) \/ clear_file(i) \/ copy_file(i) \/ load_modules(i)
            \/ stop(i) \/ replace_tree(i) => record' = record /\ (disturbed = TRUE => disturbed' = TRUE)
    BY DEF start, flock, clear_file, copy_file, load_modules, stop, replace_tree
  <2>6. build_start \/ build_file \/ writeback \/ power_loss \/ UNCHANGED vars
          => record' = record /\ (disturbed = TRUE => disturbed' = TRUE)
    BY DEF build_start, build_file, writeback, power_loss, vars
  <2> QED
    BY <2>2, <2>3, <2>4, <2>5, <2>6 DEF Next, Run
<1> QED
  BY InvariantHolds, <1>1, <1>2, PTL DEF Spec, UpgradesOnly, Up!Spec, Upgraded
==================================================================================
