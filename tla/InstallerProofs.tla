-------------------------- MODULE InstallerProofs --------------------------
(* What holds of Installer for every choice of settings, hosts and bounds. *)
EXTENDS Installer, TLAPS

USE DEF At, Goes, Ends, Ended, Deploying, Begin, counters, Written, Followed, First, Second, Changed,
        PasswordKept

(***************************************************************************)
(* Shapes: of the constant records, of a container that is started, of the *)
(* record of a command one of whose fields changes.                        *)
(***************************************************************************)
LEMMA Shapes ==
  /\ NoWish \in Settings /\ NoEnv.ip = NoAddress
  /\ Gone \in Container /\ NotMounted \in Mounts
  BY BoundAssumption DEF NoWish, Settings, Modes, Passwords, NoEnv, Gone, Where, Webs, Mounts,
     NotMounted, Secrets, Container

LEMMA IdleShape == Idle \in RunState
  BY Shapes DEF Idle, RunState, Commands, Steps, Webs, Answers

LEMMA MountedShape ==
  ASSUME TypeOK, NEW s \in Services
  PROVE  Runs(s) \in Container /\ Mounted(s) \in Mounts
<1>1. Mounted(s) \in Mounts
  BY DEF Mounted, Mounts, TypeOK
<1>2. Slice(s, env) \in Where
  BY DEF Slice, Where, TypeOK, RuntimeEnv, NoEnv, Webs
<1>3. QED
  BY <1>1, <1>2 DEF Runs, Container

LEMMA TodoShape ==
  \A r \in RunState : \A todo \in SUBSET Services : [r EXCEPT !.todo = todo] \in RunState
  BY DEF RunState

LEMMA RunShape ==
  ASSUME NEW r \in RunState, NEW step \in Steps
  PROVE  /\ [r EXCEPT !.step = step] \in RunState
         /\ \A todo \in SUBSET Services : [r EXCEPT !.step = step, !.todo = todo] \in RunState
         /\ \A fresh \in BOOLEAN : [r EXCEPT !.step = step, !.fresh = fresh] \in RunState
         /\ \A kept \in RuntimeEnv \cup {NoEnv} : [r EXCEPT !.step = step, !.kept = kept] \in RunState
         /\ \A ip \in Addresses \cup {NoAddress} :
              /\ [r EXCEPT !.step = step, !.ip = ip] \in RunState
              /\ \A kept \in RuntimeEnv \cup {NoEnv} :
                   [r EXCEPT !.step = step, !.ip = ip, !.kept = kept] \in RunState
         /\ \A answer \in Answers, web \in Webs :
              /\ [r EXCEPT !.step = step, !.answer = answer, !.web = web] \in RunState
              /\ \A needed \in BOOLEAN :
                   [r EXCEPT !.step = step, !.answer = answer, !.web = web, !.needed = needed]
                      \in RunState
<1>1. [r EXCEPT !.step = step] \in RunState
  BY DEF RunState
<1>2. \A todo \in SUBSET Services : [r EXCEPT !.step = step, !.todo = todo] \in RunState
  BY DEF RunState
<1>3. /\ \A fresh \in BOOLEAN : [r EXCEPT !.step = step, !.fresh = fresh] \in RunState
      /\ \A kept \in RuntimeEnv \cup {NoEnv} : [r EXCEPT !.step = step, !.kept = kept] \in RunState
  BY DEF RunState
<1>4. ASSUME NEW ip \in Addresses \cup {NoAddress}
      PROVE  /\ [r EXCEPT !.step = step, !.ip = ip] \in RunState
             /\ \A kept \in RuntimeEnv \cup {NoEnv} :
                  [r EXCEPT !.step = step, !.ip = ip, !.kept = kept] \in RunState
  BY DEF RunState
<1>5. ASSUME NEW answer \in Answers, NEW web \in Webs
      PROVE  /\ [r EXCEPT !.step = step, !.answer = answer, !.web = web] \in RunState
             /\ \A needed \in BOOLEAN :
                  [r EXCEPT !.step = step, !.answer = answer, !.web = web, !.needed = needed]
                     \in RunState
  BY DEF RunState
<1>6. QED
  BY <1>1, <1>2, <1>3, <1>4, <1>5

\* What the handlers read of the record of a command.
LEMMA RunFields ==
  ASSUME TypeOK
  PROVE  /\ run.want \in Settings /\ run.kept \in RuntimeEnv \cup {NoEnv} /\ run.web \in Webs
         /\ run.fresh \in BOOLEAN /\ run.todo \subseteq Services /\ run.ip \in Addresses \cup {NoAddress}
  BY DEF TypeOK, RunState

(***************************************************************************)
(* Which command a step belongs to, and what it has found there.           *)
(***************************************************************************)
StepInv ==
    /\ run.step \in {"sync", "token", "early", "build", "secrets", "second", "remove", "packages"}
          => run.name = "deploy"
    /\ run.step \in {"check", "root", "recheck", "env", "up"} => run.name \in {"deploy", "start", "restart"}
    /\ run.step = "address" => run.name \in {"start", "restart"}
    /\ run.step = "stop" => run.name \in {"stop", "restart"}
    /\ run.step \in {"down", "delete"} => run.name = "uninstall"
    /\ run.step \in {"done", "failed"} => run.name = "none"
    \* secrets are new from their step on until the containers have them
    /\ run.fresh => Deploying /\ run.step \in {"early", "build", "check", "root", "recheck", "env",
                                               "secrets", "second", "remove", "up"}
    \* the address is known, and from the first write on the runtime .env is there
    /\ run.step \in {"token", "early", "build", "check", "root", "recheck", "env"} => run.ip \in Addresses
    /\ run.step \in {"build", "check", "root", "recheck", "env", "secrets", "second", "remove", "up",
                     "packages", "address", "stop"} => env # NoEnv
    /\ run.step = "up" => run.todo \subseteq Wanted(env)

LEMMA TypeStep ==
  ASSUME TypeOK, StepInv, [Next]_vars
  PROVE  TypeOK'
<1> USE Shapes, IdleShape, RunFields
<1>1. CASE UNCHANGED vars
  BY <1>1 DEF vars, TypeOK
<1>2. CASE Deploy \/ Start \/ Stop \/ Restart \/ Uninstall
  <2>1. ASSUME NEW name \in Commands, NEW first \in Steps, Begin(name, first)
        PROVE  TypeOK'
    <3>1. run' \in RunState
      <4> DEFINE want == IF name = "deploy" THEN settings ELSE NoWish
                 todo == IF first \in {"stop", "down"} THEN Services ELSE {}
      <4>1. want \in Settings /\ todo \subseteq Services
        BY DEF TypeOK
      <4> HIDE DEF want, todo
      <4>2. [Idle EXCEPT !.name = name, !.step = first, !.want = want, !.todo = todo] \in RunState
        BY <4>1 DEF RunState
      <4>3. QED
        BY <2>1, <4>2 DEF want, todo
    <3>2. QED
      BY <2>1, <3>1 DEF TypeOK
  <2>2. QED
    BY <1>2, <2>1 DEF Deploy, Start, Stop, Restart, Uninstall, Commands, Steps
<1>3. CASE Sync
  <2>1. run' \in RunState
    BY <1>3, RunShape DEF Sync, TypeOK, Host, Steps
  <2>2. QED
    BY <1>3, <2>1 DEF Sync, TypeOK
<1>4. CASE EnsureToken
  <2>1. NewToken \in Nat
    <3> DEFINE t(s) == box[s].secrets["token"]
    <3>1. \E token \in Tokens : token # t("jupyterlab") /\ token # t("stats") /\ token # t("deps")
      BY DEF Tokens
    <3>2. \E token \in Tokens : \A s \in Services : t(s) # token
      BY <3>1 DEF Services
    <3>3. QED
      BY <3>2 DEF NewToken, Tokens
  <2>2. run' \in RunState
    BY <1>4, RunShape DEF EnsureToken, TypeOK, Steps
  <2>3. files' \in Mounts
    BY <1>4, <2>1 DEF EnsureToken, TypeOK, Mounts
  <2>4. QED
    BY <1>4, <2>2, <2>3 DEF EnsureToken, TypeOK
<1>5. CASE EarlyEnv
  <2> DEFINE old == IF env.ip = run.ip THEN env ELSE NoEnv
  <2>1. old \in RuntimeEnv \cup {NoEnv}
    BY DEF TypeOK
  <2>2. run' \in RunState
    BY <1>5, <2>1, RunShape DEF EarlyEnv, TypeOK, Steps
  <2>3. run.ip \in Addresses
    BY <1>5 DEF EarlyEnv, StepInv
  <2>4. Early(old) \in RuntimeEnv
    <3> HIDE DEF old
    <3>1. CASE old = NoEnv
      BY <2>3, <3>1 DEF Early, RuntimeEnv, NoEnv, Settings, Webs
    <3>2. CASE old \in RuntimeEnv /\ old # NoEnv
      BY <2>3, <3>2 DEF Early, RuntimeEnv, Settings
    <3>3. QED
      BY <2>1, <3>1, <3>2
  <2>5. QED
    BY <1>5, <2>2, <2>4 DEF EarlyEnv, TypeOK
<1>6. CASE Build
  <2>1. run' \in RunState
    BY <1>6, RunShape DEF Build, TypeOK, Steps
  <2>2. box' \in [Services -> Container]
    <3>1. \A s \in Services : box[s] \in Container /\ [box[s] EXCEPT !.current = FALSE] \in Container
      BY DEF TypeOK, Container
    <3>2. QED
      BY <1>6, <3>1 DEF Build, TypeOK
  <2>3. QED
    BY <1>6, <2>1, <2>2 DEF Build, TypeOK
<1>7. CASE Check
  <2>1. \A answer \in {"definite", "noName", "noCert"} : Keep(answer) \in Webs
    BY DEF Keep, Resolved, RuntimeEnv, NoEnv, Webs
  <2>2. run' \in RunState
    <3>1. PICK answer \in {"definite", "noName", "noCert"} :
              run' = [run EXCEPT !.step = "root", !.answer = answer, !.web = Keep(answer),
                        !.needed = /\ answer = "definite" /\ Mode = "auto"
                                   /\ host.name /\ host.cert # "good"]
      BY <1>7 DEF Check
    <3>2. Keep(answer) \in Webs /\ answer \in Answers /\ "root" \in Steps
      BY <2>1 DEF Answers, Steps
    <3>3. (answer = "definite" /\ Mode = "auto" /\ host.name /\ host.cert # "good") \in BOOLEAN
      OBVIOUS
    <3>4. run \in RunState
      BY DEF TypeOK
    <3>5. QED
      BY <3>1, <3>2, <3>3, <3>4, RunShape
  <2>3. QED
    BY <1>7, <2>2 DEF Check, TypeOK
<1>8. CASE RootStep
  <2>1. run' = [run EXCEPT !.step = "env"] \/ run' = [run EXCEPT !.step = "recheck"]
    BY <1>8 DEF RootStep
  <2>2. [run EXCEPT !.step = "env"] \in RunState /\ [run EXCEPT !.step = "recheck"] \in RunState
    BY RunShape DEF TypeOK, Steps
  <2>3. host' \in Host
    BY <1>8 DEF RootStep, TypeOK, Host
  <2>4. QED
    BY <1>8, <2>1, <2>2, <2>3 DEF RootStep, TypeOK
<1>9. CASE Recheck
  <2>1. run' \in RunState
    <3>1. PICK answer \in Answers, web \in Webs :
             run' = [run EXCEPT !.step = "env", !.answer = answer, !.web = web]
      BY <1>9 DEF Recheck, Answers, Webs
    <3>2. [run EXCEPT !.step = "env", !.answer = answer, !.web = web] \in RunState
      BY RunShape DEF TypeOK, Steps
    <3>3. QED
      BY <3>1, <3>2
  <2>2. QED
    BY <1>9, <2>1 DEF Recheck, TypeOK
<1>10. CASE WriteEnv
  <2>1. Wanted(env) \subseteq Services
    BY DEF Wanted, Services
  <2>2. run' \in RunState
    BY <1>10, <2>1, RunShape DEF WriteEnv, TypeOK, Steps
  <2>3. env' \in RuntimeEnv
    BY <1>10 DEF WriteEnv, TypeOK, StepInv, RuntimeEnv, Settings
  <2>4. QED
    BY <1>10, <2>2, <2>3 DEF WriteEnv, TypeOK
<1>11. CASE KeepSecrets \/ WriteHash \/ WritePassword
  <2>1. run' \in RunState
    <3>1. \/ run' = [run EXCEPT !.step = "remove"]
          \/ run' = [run EXCEPT !.step = "second"]
          \/ run' = [run EXCEPT !.step = "remove", !.fresh = TRUE]
      BY <1>11 DEF KeepSecrets, WriteHash, WritePassword
    <3>2. /\ [run EXCEPT !.step = "remove"] \in RunState
          /\ [run EXCEPT !.step = "second"] \in RunState
          /\ [run EXCEPT !.step = "remove", !.fresh = TRUE] \in RunState
      BY RunShape DEF TypeOK, Steps
    <3>3. QED
      BY <3>1, <3>2
  <2>2. run.want.password \in Nat
    BY BoundAssumption DEF Settings, Passwords
  <2>3. files' \in Mounts
    BY <1>11, <2>2 DEF KeepSecrets, WriteHash, WritePassword, TypeOK, Mounts, Secrets
  <2>4. QED
    BY <1>11, <2>1, <2>3 DEF KeepSecrets, WriteHash, WritePassword, TypeOK
<1>12. CASE RemoveStats
  <2>1. Wanted(env) \subseteq Services
    BY DEF Wanted, Services
  <2>2. run' \in RunState
    BY <1>12, <2>1, RunShape DEF RemoveStats, TypeOK, Steps
  <2>3. QED
    BY <1>12, <2>2 DEF RemoveStats, TypeOK
<1>13. ASSUME NEW s \in Services, UpOne(s) \/ StopOne(s) \/ Restarts(s)
       PROVE  TypeOK'
  <2>1. run' \in RunState
    <3>1. run.todo \ {s} \in SUBSET Services
      OBVIOUS
    <3>2. run' = run \/ run' = [run EXCEPT !.todo = run.todo \ {s}]
      BY <1>13 DEF UpOne, StopOne, Restarts
    <3>3. QED
      BY <3>1, <3>2, TodoShape DEF TypeOK
  <2>2. box' \in [Services -> Container]
    BY <1>13, MountedShape DEF UpOne, StopOne, Restarts, TypeOK, Container
  <2>3. QED
    BY <1>13, <2>1, <2>2 DEF UpOne, StopOne, Restarts, TypeOK
<1>14. CASE UpDone \/ Packages \/ StopDone
  <2>1. [Idle EXCEPT !.step = "done"] \in RunState
    BY RunShape DEF Steps
  <2>2. run' \in RunState
    <3>1. \/ run' = [Idle EXCEPT !.step = "done"]
          \/ run' = [run EXCEPT !.step = "address"]
          \/ run' = [run EXCEPT !.step = "packages", !.fresh = FALSE]
      BY <1>14 DEF UpDone, Packages, StopDone
    <3>2. run \in RunState /\ "address" \in Steps /\ "packages" \in Steps
      BY DEF TypeOK, Steps
    <3>3. QED
      BY <2>1, <3>1, <3>2, RunShape
  <2>3. cut' \in BOOLEAN
    BY <1>14 DEF UpDone, Packages, StopDone, TypeOK
  <2>4. QED
    BY <1>14, <2>2, <2>3 DEF UpDone, Packages, StopDone, TypeOK
<1>15. CASE Address
  <2>1. env' \in RuntimeEnv
    BY <1>15 DEF Address, TypeOK, StepInv, RuntimeEnv, Host
  <2>2. run' \in RunState
    BY <1>15, <2>1, RunShape DEF Address, TypeOK, Steps, Host
  <2>3. QED
    BY <1>15, <2>1, <2>2 DEF Address, TypeOK
<1>16. CASE Down
  <2>1. run' \in RunState
    BY <1>16, RunShape DEF Down, TypeOK, Steps
  <2>2. box' \in [Services -> Container]
    BY <1>16 DEF Down, TypeOK
  <2>3. QED
    BY <1>16, <2>1, <2>2 DEF Down, TypeOK
<1>17. CASE Delete \/ DeleteSome \/ Dies
  <2>1. [Idle EXCEPT !.step = "done"] \in RunState /\ [Idle EXCEPT !.step = "failed"] \in RunState
    BY RunShape DEF Steps
  <2>2. files' \in Mounts
    <3>1. \A lost \in SUBSET Secrets : [f \in Secrets |-> IF f \in lost THEN 0 ELSE files[f]] \in Mounts
      BY DEF TypeOK, Mounts
    <3>2. QED
      BY <1>17, <3>1 DEF Delete, DeleteSome, Dies, TypeOK
  <2>3. cut' \in BOOLEAN
    BY <1>17 DEF Delete, DeleteSome, Dies, TypeOK
  <2>4. QED
    <3>1. run' = [Idle EXCEPT !.step = "done"] \/ run' = [Idle EXCEPT !.step = "failed"]
      BY <1>17 DEF Delete, DeleteSome, Dies
    <3>2. faults' = faults \/ faults' = faults + 1
      BY <1>17 DEF Delete, DeleteSome, Dies
    <3>3. stack' \in {stack, FALSE} /\ env' \in {env, NoEnv}
      BY <1>17 DEF Delete, DeleteSome, Dies
    <3>4. UNCHANGED <<settings, host, box, commands, changes>>
      BY <1>17 DEF Delete, DeleteSome, Dies
    <3>5. run' \in RunState /\ faults' \in Nat
      BY <2>1, <3>1, <3>2 DEF TypeOK
    <3>6. stack' \in BOOLEAN /\ env' \in RuntimeEnv \cup {NoEnv}
      BY <3>3 DEF TypeOK
    <3>7. QED
      BY <2>2, <2>3, <3>4, <3>5, <3>6 DEF TypeOK
<1>18. CASE Edit \/ HostChanges
  BY <1>18, ChoiceAssumption DEF Edit, HostChanges, TypeOK
<1>19. CASE SecretLost
  <2>1. files' \in Mounts
    BY <1>19 DEF SecretLost, TypeOK, Mounts
  <2>2. QED
    BY <1>19, <2>1 DEF SecretLost, TypeOK
<1>20. QED
  BY <1>1, <1>2, <1>3, <1>4, <1>5, <1>6, <1>7, <1>8, <1>9, <1>10, <1>11, <1>12, <1>13, <1>14,
     <1>15, <1>16, <1>17, <1>18, <1>19 DEF Next

LEMMA StepStep ==
  ASSUME TypeOK, StepInv, [Next]_vars
  PROVE  StepInv'
<1> USE RunFields
<1>0. run \in RunState /\ env \in RuntimeEnv \cup {NoEnv} /\ host.ip \in Addresses
  BY DEF TypeOK, Host
<1>1. CASE UNCHANGED vars
  BY <1>1 DEF vars, StepInv, Wanted
<1>2. CASE Deploy \/ Start \/ Stop \/ Restart \/ Uninstall
  BY <1>2 DEF Deploy, Start, Stop, Restart, Uninstall, Installed, StepInv, Idle
<1>3. CASE Sync
  BY <1>0, <1>3 DEF Sync, StepInv, RunState
<1>4. CASE EnsureToken
  BY <1>0, <1>4 DEF EnsureToken, StepInv, RunState
<1>5. CASE EarlyEnv
  <2>1. env'.ip = run.ip
    BY <1>5, Shapes DEF EarlyEnv, Early
  <2>2. env' # NoEnv
    BY <1>5, <2>1, AddressAssumption, Shapes DEF EarlyEnv, StepInv
  <2>3. run' = [run EXCEPT !.step = "build", !.kept = run'.kept]
    BY <1>0, <1>5 DEF EarlyEnv, RunState
  <2>4. QED
    BY <1>0, <1>5, <2>2, <2>3 DEF EarlyEnv, StepInv, RunState
<1>6. CASE Build
  BY <1>0, <1>6 DEF Build, StepInv, RunState
<1>7. CASE Check
  <2>1. /\ run'.step = "root" /\ run'.name = run.name /\ run'.ip = run.ip /\ run'.fresh = run.fresh
        /\ run.step = "check" /\ env' = env
    BY <1>0, <1>7 DEF Check, RunState
  <2>2. QED
    BY <2>1 DEF StepInv
<1>8. CASE RootStep
  <2>1. /\ run'.step \in {"env", "recheck"} /\ run'.name = run.name /\ run'.ip = run.ip
        /\ run'.fresh = run.fresh /\ run.step = "root" /\ env' = env
    BY <1>0, <1>8 DEF RootStep, RunState
  <2>2. QED
    BY <2>1 DEF StepInv
<1>9. CASE Recheck
  <2>1. /\ run'.step = "env" /\ run'.name = run.name /\ run'.ip = run.ip /\ run'.fresh = run.fresh
        /\ run.step = "recheck" /\ env' = env
    BY <1>0, <1>9 DEF Recheck, RunState
  <2>2. QED
    BY <2>1 DEF StepInv
<1>10. CASE WriteEnv
  <2>1. /\ run.step = "env" /\ run'.name = run.name /\ run'.fresh = run.fresh
        /\ IF Deploying THEN run'.step = "secrets" /\ env'.ip = run.ip
                        ELSE run'.step = "up" /\ run'.todo = Wanted(env) /\ env' = [env EXCEPT !.web = run.web]
    BY <1>0, <1>10 DEF WriteEnv, RunState
  <2>2. env \in RuntimeEnv /\ env.ip \in Addresses
    BY <1>0, <2>1 DEF StepInv, RuntimeEnv
  <2>3. env'.ip \in Addresses
    BY <2>1, <2>2 DEF StepInv, RuntimeEnv
  <2>4. env' # NoEnv
    BY <2>3, AddressAssumption, Shapes
  <2>5. run.step = "env" /\ ~Deploying => Wanted(env') = Wanted(env)
    BY <2>1, <2>2 DEF Wanted, RuntimeEnv
  <2>6. QED
    BY <2>1, <2>4, <2>5 DEF StepInv
<1>11. CASE KeepSecrets \/ WriteHash \/ WritePassword
  BY <1>0, <1>11 DEF KeepSecrets, WriteHash, WritePassword, StepInv, RunState
<1>12. CASE RemoveStats
  BY <1>0, <1>12 DEF RemoveStats, StepInv, RunState, Wanted
<1>13. ASSUME NEW s \in Services, UpOne(s) \/ StopOne(s) \/ Restarts(s)
       PROVE  StepInv'
  BY <1>0, <1>13 DEF UpOne, StopOne, Restarts, StepInv, RunState, Wanted
<1>14. CASE UpDone \/ Packages \/ StopDone
  <2>1. CASE UpDone /\ Deploying
    <3>1. run'.step = "packages" /\ run'.name = "deploy" /\ ~run'.fresh /\ env' = env
      BY <1>0, <2>1 DEF UpDone, RunState
    <3>2. QED
      BY <2>1, <3>1 DEF UpDone, StepInv
  <2>2. CASE StopDone /\ run.name = "restart"
    BY <1>0, <2>2 DEF StopDone, StepInv, RunState
  <2>3. CASE run' = [Idle EXCEPT !.step = "done"]
    BY <2>3 DEF StepInv, Idle
  <2>4. QED
    BY <1>14, <2>1, <2>2, <2>3 DEF UpDone, Packages, StopDone
<1>15. CASE Address
  <2>1. env' \in RuntimeEnv
    BY <1>0, <1>15 DEF Address, StepInv, RuntimeEnv
  <2>2. env' # NoEnv
    BY <2>1, AddressAssumption, Shapes DEF RuntimeEnv
  <2>3. /\ run.step = "address" /\ run'.step = "check" /\ run'.name = run.name /\ run'.fresh = run.fresh
        /\ run'.ip = host.ip
    BY <1>0, <1>15 DEF Address, RunState
  <2>4. QED
    BY <1>0, <2>2, <2>3 DEF StepInv
<1>16. CASE Down
  BY <1>0, <1>16 DEF Down, StepInv, RunState
<1>17. CASE Delete \/ DeleteSome \/ Dies
  BY <1>17 DEF Delete, DeleteSome, Dies, StepInv, Idle
<1>18. CASE Edit \/ HostChanges \/ SecretLost
  BY <1>18 DEF Edit, HostChanges, SecretLost, StepInv, Wanted
<1>19. QED
  BY <1>1, <1>2, <1>3, <1>4, <1>5, <1>6, <1>7, <1>8, <1>9, <1>10, <1>11, <1>12, <1>13, <1>14,
     <1>15, <1>16, <1>17, <1>18 DEF Next

----------------------------------------------------------------------------
\* Whatever the settings, the host, the faults and the bounds, every variable keeps its shape.
THEOREM TypeCorrect == Spec => []TypeOK
<1>1. Init => TypeOK /\ StepInv
  <2> SUFFICES ASSUME Init PROVE TypeOK /\ StepInv
    OBVIOUS
  <2>1. TypeOK
    BY Shapes, IdleShape, ChoiceAssumption DEF Init, TypeOK
  <2>2. StepInv
    BY DEF Init, StepInv, Idle
  <2>3. QED
    BY <2>1, <2>2
<1>2. TypeOK /\ StepInv /\ [Next]_vars => (TypeOK /\ StepInv)'
  BY TypeStep, StepStep
<1>3. QED
  BY <1>1, <1>2, PTL DEF Spec

(***************************************************************************)
(* The hash and the password.  Passwords only ever go forward (~Reverts)   *)
(* and the hash is written first, so a hash that is there is never older   *)
(* than the password next to it, and neither is newer than what the deploy *)
(* that runs was given.  A password found equal to the deploy's then has   *)
(* the deploy's hash.                                                      *)
(***************************************************************************)
PasswordInv ==
    /\ files["hash"] # 0 => files["password"] <= files["hash"]
    /\ files["hash"] <= settings.password /\ files["password"] <= settings.password
    /\ Deploying => /\ run.want.password <= settings.password
                    /\ files["hash"] <= run.want.password /\ files["password"] <= run.want.password
    /\ Deploying /\ At("second") => files["hash"] = run.want.password
    /\ HashOfPassword

LEMMA PasswordStep ==
  ASSUME ~Reverts, TypeOK, StepInv, PasswordInv, [Next]_vars
  PROVE  PasswordInv'
<1> USE DEF PasswordInv, HashOfPassword
<1>0. /\ run \in RunState /\ settings.password \in Nat /\ run.want.password \in Nat
      /\ files \in Mounts /\ run.want.password # 0
      /\ files["hash"] \in Nat /\ files["password"] \in Nat
  BY BoundAssumption DEF TypeOK, RunState, Settings, Passwords, Mounts, Secrets
<1>1. CASE UNCHANGED vars
  BY <1>1 DEF vars
<1>2. CASE Deploy
  BY <1>0, <1>2 DEF Deploy, Idle
<1>3. CASE Start \/ Stop \/ Restart \/ Uninstall
  BY <1>0, <1>3 DEF Start, Stop, Restart, Uninstall, Idle
\* steps that leave the secrets alone and are not the end of ensure_secrets
<1>4. ASSUME UNCHANGED <<settings, files>>, run'.name = run.name, run'.want = run.want,
             run'.step \notin {"second", "remove", "up", "packages"} \/ run'.step = run.step
      PROVE  PasswordInv'
  BY <1>4
<1>5. CASE Sync \/ EarlyEnv \/ Build \/ Check \/ RootStep \/ Recheck
  <2>1. /\ UNCHANGED <<settings, files>> /\ run'.name = run.name /\ run'.want = run.want
        /\ run'.step \in {"token", "build", "check", "root", "recheck", "env"}
    BY <1>0, <1>5 DEF Sync, EarlyEnv, Build, Check, RootStep, Recheck, RunState
  <2>2. QED
    BY <1>4, <2>1
<1>6. CASE EnsureToken
  <2>1. files'["hash"] = files["hash"] /\ files'["password"] = files["password"]
    BY <1>0, <1>6 DEF EnsureToken, Mounts, Secrets
  <2>2. settings' = settings /\ run'.name = run.name /\ run'.want = run.want /\ run'.step = "early"
    BY <1>0, <1>6 DEF EnsureToken, RunState
  <2>3. QED
    BY <2>1, <2>2
<1>7. CASE WriteEnv
  <2>1. /\ UNCHANGED <<settings, files>> /\ run'.name = run.name /\ run'.want = run.want
        /\ run'.step = (IF Deploying THEN "secrets" ELSE "up")
    BY <1>0, <1>7 DEF WriteEnv, RunState
  <2>2. QED
    BY <2>1
<1>8. CASE KeepSecrets
  <2>1. files["hash"] = run.want.password /\ files["password"] = run.want.password
    BY <1>0, <1>8 DEF KeepSecrets, StepInv
  <2>2. /\ UNCHANGED <<settings, files>> /\ run'.name = run.name /\ run'.want = run.want
        /\ run'.step = "remove"
    BY <1>0, <1>8 DEF KeepSecrets, RunState
  <2>3. QED
    BY <2>1, <2>2
<1>9. CASE WriteHash \/ WritePassword
  <2>1. /\ settings' = settings /\ run'.name = run.name /\ run'.want = run.want /\ Deploying
        /\ \/ run'.step = "second" /\ files' = [files EXCEPT !["hash"] = run.want.password]
           \/ /\ run.step = "second" /\ run'.step = "remove"
              /\ files' = [files EXCEPT !["password"] = run.want.password]
    BY <1>0, <1>9 DEF WriteHash, WritePassword, RunState, StepInv
  <2>2. QED
    BY <1>0, <2>1 DEF Mounts, Secrets
<1>10. CASE RemoveStats
  <2>1. /\ UNCHANGED <<settings, files>> /\ run'.name = run.name /\ run'.want = run.want
        /\ run.step = "remove" /\ run'.step = "up"
    BY <1>0, <1>10 DEF RemoveStats, RunState
  <2>2. QED
    BY <2>1
<1>11. ASSUME NEW s \in Services, UpOne(s) \/ StopOne(s) \/ Restarts(s)
       PROVE  PasswordInv'
  <2>1. /\ UNCHANGED <<settings, files>> /\ run'.name = run.name /\ run'.want = run.want
        /\ run'.step = run.step
    BY <1>0, <1>11 DEF UpOne, StopOne, Restarts, RunState
  <2>2. QED
    BY <1>4, <2>1
<1>12. CASE UpDone /\ Deploying
  <2>1. /\ UNCHANGED <<settings, files>> /\ run'.name = run.name /\ run'.want = run.want
        /\ run.step = "up" /\ run'.step = "packages"
    BY <1>0, <1>12 DEF UpDone, RunState
  <2>2. QED
    BY <2>1
<1>13. CASE (StopDone /\ run.name = "restart") \/ Address
  <2>1. /\ UNCHANGED <<settings, files>> /\ run'.name = run.name /\ run'.want = run.want
        /\ run'.step \in {"address", "check"}
    BY <1>0, <1>13 DEF StopDone, Address, RunState
  <2>2. QED
    BY <1>4, <2>1
<1>14. CASE Down
  <2>1. /\ UNCHANGED <<settings, files>> /\ run'.name = run.name /\ run'.want = run.want
        /\ run'.step = "delete"
    BY <1>0, <1>14 DEF Down, RunState
  <2>2. QED
    BY <1>4, <2>1
\* a command ends: what it leaves of the secrets is what it found, or nothing
<1>15. ASSUME settings' = settings, run'.name = "none",
              files'["hash"] \in {0, files["hash"]}, files'["password"] \in {0, files["password"]}
       PROVE  PasswordInv'
  BY <1>0, <1>15
<1>16. CASE (UpDone /\ ~Deploying) \/ Packages \/ (StopDone /\ run.name # "restart") \/ Dies
  <2>1. settings' = settings /\ run'.name = "none" /\ files' = files
    BY <1>16 DEF UpDone, Packages, StopDone, Dies, Idle
  <2>2. QED
    BY <1>15, <2>1
<1>17. CASE Delete \/ DeleteSome
  <2>1. settings' = settings /\ run'.name = "none"
    BY <1>17 DEF Delete, DeleteSome, Idle
  <2>2. files'["hash"] \in {0, files["hash"]} /\ files'["password"] \in {0, files["password"]}
    BY <1>17 DEF Delete, DeleteSome, NotMounted, Secrets
  <2>3. QED
    BY <1>15, <2>1, <2>2
<1>18. CASE SecretLost
  <2>1. settings' = settings /\ run'.name = "none"
    BY <1>18 DEF SecretLost, StepInv
  <2>2. files'["hash"] \in {0, files["hash"]} /\ files'["password"] \in {0, files["password"]}
    BY <1>0, <1>18 DEF SecretLost, Mounts, Secrets
  <2>3. QED
    BY <1>15, <2>1, <2>2
<1>19. CASE Edit
  <2>1. UNCHANGED <<run, files>> /\ settings'.password >= settings.password /\ settings'.password \in Nat
    BY <1>19, BoundAssumption, ChoiceAssumption DEF Edit, Settings, Passwords
  <2>2. QED
    BY <1>0, <2>1
<1>20. CASE HostChanges
  BY <1>20 DEF HostChanges
<1>21. UpDone \/ Packages \/ StopDone \/ Address \/ Dies => PasswordInv'
  BY <1>12, <1>13, <1>16
<1> HIDE DEF PasswordInv
<1>22. QED
  BY <1>1, <1>2, <1>3, <1>5, <1>6, <1>7, <1>8, <1>9, <1>10, <1>11, <1>14, <1>17, <1>18, <1>19,
     <1>20, <1>21 DEF Next

\* Unless the user goes back to an earlier password, no deploy, however many before it died
\* wherever, goes past ensure_secrets with a hash that is not its password's.
THEOREM HashHolds ==
  ASSUME ~Reverts
  PROVE  Spec => []HashOfPassword
<1>1. Init => TypeOK /\ StepInv /\ PasswordInv
  <2> SUFFICES ASSUME Init PROVE TypeOK /\ StepInv /\ PasswordInv
    OBVIOUS
  <2>1. TypeOK
    BY Shapes, IdleShape, ChoiceAssumption DEF Init, TypeOK
  <2>2. StepInv
    BY DEF Init, StepInv, Idle
  <2>3. files["hash"] = 0 /\ files["password"] = 0 /\ run.name = "none"
    BY DEF Init, NotMounted, Secrets, Idle
  <2>4. settings.password \in Nat
    BY <2>1, BoundAssumption DEF TypeOK, Settings, Passwords
  <2>5. QED
    BY <2>1, <2>2, <2>3, <2>4 DEF PasswordInv, HashOfPassword
<1>2. TypeOK /\ StepInv /\ PasswordInv /\ [Next]_vars => (TypeOK /\ StepInv /\ PasswordInv)'
  BY TypeStep, StepStep, PasswordStep
<1>3. PasswordInv => HashOfPassword
  BY DEF PasswordInv
<1>4. QED
  BY <1>1, <1>2, <1>3, PTL DEF Spec

(***************************************************************************)
(* The scheme.  What a command keeps is what the runtime .env held, for    *)
(* the same address, before it wrote there (read_kept_https_state); what   *)
(* it found without an answer is what it kept.                             *)
(***************************************************************************)
KeptInv ==
    run.kept # NoEnv =>
        /\ run.step \in {"build", "check", "root", "recheck", "env"} =>
              env.web = run.kept.web /\ env.mode = run.kept.mode
        /\ run.step \in {"root", "env"} /\ run.answer \in {"noName", "noCert"} /\ run.kept.mode = Mode =>
              run.web = run.kept.web

LEMMA KeptStep ==
  ASSUME TypeOK, StepInv, KeptInv, [Next]_vars
  PROVE  KeptInv' /\ [SwitchNeeds({"definite", "again"})]_vars
<1> USE DEF KeptInv, SwitchNeeds
<1>0. run \in RunState /\ env \in RuntimeEnv \cup {NoEnv}
  BY DEF TypeOK
<1>1. CASE UNCHANGED vars
  BY <1>1 DEF vars, Mode
\* at the other steps nothing is kept that the invariant is about, and the .env stays
<1>2. ASSUME run'.step \notin {"build", "check", "root", "recheck", "env"}, env' = env
      PROVE  KeptInv' /\ SwitchNeeds({"definite", "again"})
  BY <1>2
<1>3. CASE Deploy \/ Start \/ Stop \/ Restart \/ Uninstall
  BY <1>2, <1>3 DEF Deploy, Start, Stop, Restart, Uninstall, Idle
<1>4. CASE Sync \/ EnsureToken \/ KeepSecrets \/ WriteHash \/ WritePassword \/ RemoveStats
  <2>1. run'.step \in {"token", "early", "remove", "second", "up"} /\ env' = env
    BY <1>0, <1>4 DEF Sync, EnsureToken, KeepSecrets, WriteHash, WritePassword, RemoveStats, RunState
  <2>2. QED
    BY <1>2, <2>1
<1>5. CASE EarlyEnv
  <2> DEFINE old == IF env.ip = run.ip THEN env ELSE NoEnv
  <2>1. env' = Early(old) /\ run'.kept = old /\ run'.step = "build" /\ run.ip \in Addresses
    BY <1>0, <1>5 DEF EarlyEnv, RunState, StepInv
  <2>2. env'.ip = run.ip /\ env'.web = old.web /\ (old # NoEnv => env'.mode = old.mode)
    BY <2>1 DEF Early
  <2>3. QED
    BY <2>1, <2>2
<1>6. CASE Build
  <2>1. run'.step = "check" /\ run'.kept = run.kept /\ env' = env /\ run.step = "build"
    BY <1>0, <1>6 DEF Build, RunState
  <2>2. QED
    BY <2>1
<1>7. CASE Check
  <2>1. PICK answer \in {"definite", "noName", "noCert"} :
          /\ run.step = "check" /\ run'.step = "root" /\ run'.kept = run.kept /\ env' = env
          /\ run'.answer = answer /\ run'.web = Keep(answer) /\ run'.name = run.name
          /\ run'.want = run.want
    BY <1>0, <1>7 DEF Check, RunState
  <2>2. Mode' = Mode
    BY <2>1 DEF Mode
  <2>3. QED
    BY <2>1, <2>2 DEF Keep
<1>8. CASE RootStep
  <2>1. /\ run'.step \in {"env", "recheck"} /\ run.step = "root" /\ run'.kept = run.kept /\ env' = env
        /\ run'.answer = run.answer /\ run'.web = run.web /\ run'.name = run.name
        /\ run'.want = run.want
    BY <1>0, <1>8 DEF RootStep, RunState
  <2>2. Mode' = Mode
    BY <2>1 DEF Mode
  <2>3. QED
    BY <2>1, <2>2
<1>9. CASE Recheck
  <2>1. /\ run'.step = "env" /\ run.step = "recheck" /\ run'.kept = run.kept /\ env' = env
        /\ run'.answer \in {"definite", "again"}
    BY <1>0, <1>9 DEF Recheck, RunState
  <2>2. QED
    BY <2>1
<1>10. CASE WriteEnv
  <2>1. /\ run.step = "env" /\ run'.step \in {"secrets", "up"} /\ run'.kept = run.kept
        /\ run.answer \in Answers /\ run.web \in Webs
    BY <1>0, <1>10 DEF WriteEnv, RunState
  <2>2. env \in RuntimeEnv
    BY <1>0, <2>1 DEF StepInv
  <2>3. env'.web = run.web /\ env'.mode = Mode
    BY <1>10, <2>2 DEF WriteEnv, Mode, RuntimeEnv
  <2>4. QED
    BY <2>1, <2>3 DEF Answers
<1>11. ASSUME NEW s \in Services, UpOne(s) \/ StopOne(s) \/ Restarts(s)
       PROVE  KeptInv' /\ SwitchNeeds({"definite", "again"})
  <2>1. /\ run'.step = run.step /\ run'.kept = run.kept /\ env' = env /\ run'.answer = run.answer
        /\ run'.web = run.web /\ run'.name = run.name /\ run'.want = run.want
    BY <1>0, <1>11 DEF UpOne, StopOne, Restarts, RunState
  <2>2. Mode' = Mode
    BY <2>1 DEF Mode
  <2>3. QED
    BY <2>1, <2>2
<1>12. CASE UpDone \/ Packages \/ StopDone
  <2>1. run'.step \in {"packages", "done", "address"} /\ env' = env
    BY <1>0, <1>12 DEF UpDone, Packages, StopDone, RunState, Idle
  <2>2. QED
    BY <1>2, <2>1
<1>13. CASE Address
  <2>1. run'.step = "check" /\ run'.kept = env' /\ env' = [env EXCEPT !.ip = host.ip]
    BY <1>0, <1>13 DEF Address, RunState
  <2>2. env' # NoEnv => env'.web = env.web
    BY <1>0, <2>1 DEF RuntimeEnv, NoEnv
  <2>3. QED
    BY <2>1, <2>2
<1>14. CASE Down
  <2>1. run'.step = "delete" /\ env' = env
    BY <1>0, <1>14 DEF Down, RunState
  <2>2. QED
    BY <1>2, <2>1
<1>15. CASE Delete \/ DeleteSome \/ Dies
  <2>1. run'.kept = NoEnv
    BY <1>15 DEF Delete, DeleteSome, Dies, Idle
  <2>2. QED
    BY <2>1
<1>16. CASE Edit \/ HostChanges \/ SecretLost
  <2>1. UNCHANGED <<run, env>>
    BY <1>16 DEF Edit, HostChanges, SecretLost
  <2>2. QED
    BY <2>1 DEF Mode
<1>17. QED
  BY <1>1, <1>3, <1>4, <1>5, <1>6, <1>7, <1>8, <1>9, <1>10, <1>11, <1>12, <1>13, <1>14, <1>15,
     <1>16 DEF Next

\* No build that fails, and no check without an answer, switches the scheme or the host of a
\* deployment: for every host, whatever the commands, the edits and the faults.
THEOREM SwitchHolds == Spec => SwitchOnlyOnAnswer
<1>1. Init => TypeOK /\ StepInv /\ KeptInv
  <2> SUFFICES ASSUME Init PROVE TypeOK /\ StepInv /\ KeptInv
    OBVIOUS
  <2>1. TypeOK
    BY Shapes, IdleShape, ChoiceAssumption DEF Init, TypeOK
  <2>2. StepInv /\ KeptInv
    BY DEF Init, StepInv, KeptInv, Idle
  <2>3. QED
    BY <2>1, <2>2
<1>2. TypeOK /\ StepInv /\ KeptInv /\ [Next]_vars => (TypeOK /\ StepInv /\ KeptInv)'
  BY TypeStep, StepStep, KeptStep
<1>3. TypeOK /\ StepInv /\ KeptInv /\ [Next]_vars => [SwitchNeeds({"definite", "again"})]_vars
  BY KeptStep
<1>4. QED
  BY <1>1, <1>2, <1>3, PTL DEF Spec, SwitchOnlyOnAnswer

(***************************************************************************)
(* Delivery.  A running container knows the secrets in the files, but for  *)
(* one that was lost and for a hash that is still without its password;    *)
(* the next deploy makes a new one of either, and then recreates every     *)
(* wanted container.  `cut` says that this may have been interrupted.      *)
(***************************************************************************)
Knows(s) ==
    /\ \A f \in Uses(s) :
          \/ files[f] = 0 \/ box[s].secrets[f] = files[f]
          \/ f = "hash" /\ files["hash"] > files["password"]
    /\ "hash" \in Uses(s) => files["password"] <= box[s].secrets["hash"]

BoxOK(s) ==
    /\ \A f \in Secrets \ Uses(s) : box[s].secrets[f] = 0
    /\ box[s].state = "running" =>
          /\ box[s].secrets["hash"] <= settings.password
          /\ Deploying => box[s].secrets["hash"] <= run.want.password
          /\ ~cut /\ ~run.fresh => Knows(s)

BoxInv   == \A s \in Services : BoxOK(s)
TokenInv == Deploying /\ run.step \notin {"sync", "token"} => files["token"] # 0

\* A stop has stopped what it is done with, a restart also what it will start.
Stopped(s) ==
    \/ run.step = "stop" /\ s \notin run.todo
    \/ run.name = "restart" /\ run.step \in {"address", "check", "root", "recheck", "env"}
    \/ run.name = "restart" /\ run.step = "up" /\ s \in run.todo

StoppedInv == \A s \in Services : Stopped(s) => box[s].state # "running"

\* A container that a deploy or a restart is done with.
Bare(container) == [container EXCEPT !.secrets = NotMounted]

Up(s) ==
    /\ Bare(box[s]) = Bare(Runs(s)) /\ \A f \in Uses(s) : files[f] # 0
    /\ box[s].secrets = Mounted(s) \/ (cut /\ ~run.fresh)

UpInv ==
    run.name \in {"deploy", "restart"} /\ run.step \in {"up", "packages"} =>
        \A s \in Wanted(env) : Up(s) \/ (run.step = "up" /\ s \in run.todo)

LEMMA PasswordTypes ==
  ASSUME TypeOK
  PROVE  /\ run \in RunState /\ settings.password \in Nat /\ run.want.password \in Nat \ {0}
         /\ files \in Mounts /\ \A f \in Secrets : files[f] \in Nat
         /\ \A s \in Services : /\ box[s] \in Container /\ \A f \in Secrets : box[s].secrets[f] \in Nat
                                /\ Uses(s) \subseteq Secrets
         /\ box \in [Services -> Container] /\ Services = {"jupyterlab", "stats", "deps"}
<1>1. /\ run \in RunState /\ settings.password \in Nat /\ run.want.password \in Nat \ {0}
      /\ files \in Mounts
  BY BoundAssumption DEF TypeOK, RunState, Settings, Passwords
<1>2. \A f \in Secrets : files[f] \in Nat
  BY <1>1 DEF Mounts
<1>3. \A s \in Services : box[s] \in Container
  BY DEF TypeOK
<1>4. \A s \in Services : \A f \in Secrets : box[s].secrets[f] \in Nat
  BY <1>3 DEF Container, Mounts
<1>5. QED
  BY <1>1, <1>2, <1>3, <1>4 DEF TypeOK, Uses, Secrets, Services

\* A container that has just been started or started again.
LEMMA Fresh ==
  ASSUME TypeOK, PasswordInv, NEW s \in Services, UNCHANGED <<settings, files>>,
         run'.name = run.name, run'.want = run.want, box'[s].secrets = Mounted(s), \A f \in Uses(s) : files[f] # 0
  PROVE  BoxOK(s)'
<1>1. /\ \A f \in Secrets : box'[s].secrets[f] = IF f \in Uses(s) THEN files[f] ELSE 0
      /\ Uses(s)' = Uses(s) /\ Uses(s) \subseteq Secrets
  BY PasswordTypes DEF Mounted, Uses
<1>2. \A f \in Secrets \ Uses(s) : box'[s].secrets[f] = 0
  BY <1>1
<1>3. /\ box'[s].secrets["hash"] <= settings.password
      /\ Deploying => box'[s].secrets["hash"] <= run.want.password
  BY <1>1, PasswordTypes DEF PasswordInv, Secrets
<1>4. "hash" \in Uses(s) => files["password"] <= box'[s].secrets["hash"]
  BY <1>1, PasswordTypes DEF PasswordInv, Secrets
<1>5. QED
  BY <1>1, <1>2, <1>3, <1>4 DEF BoxOK, Knows

LEMMA BoxStep ==
  ASSUME ~Reverts, TypeOK, StepInv, PasswordInv, BoxInv, StoppedInv, UpInv, [Next]_vars
  PROVE  BoxInv'
<1> SUFFICES ASSUME NEW s \in Services PROVE BoxOK(s)'
  BY DEF BoxInv
<1> USE PasswordTypes
<1>0. BoxOK(s) /\ Uses(s)' = Uses(s)
  BY DEF BoxInv, Uses
\* steps that leave files and containers alone
<1>1. ASSUME files' = files, box'[s].secrets = box[s].secrets, box'[s].state = box[s].state,
             ~cut' /\ ~run'.fresh => ~cut /\ ~run.fresh,
             settings'.password >= settings.password, settings'.password \in Nat,
             run'.name = "deploy" => \/ run.name = "deploy" /\ run'.want = run.want
                                     \/ run'.want = settings
      PROVE  BoxOK(s)'
  BY <1>0, <1>1, PasswordTypes DEF BoxOK, Knows, Secrets
<1>2. CASE UNCHANGED vars
  BY <1>0, <1>2 DEF vars, BoxOK, Knows
<1>3. CASE Deploy \/ Start \/ Stop \/ Restart \/ Uninstall
  <2>1. /\ UNCHANGED <<files, box, cut, settings>> /\ ~run.fresh
        /\ run'.name = "deploy" => run'.want = settings
    BY <1>3 DEF Deploy, Start, Stop, Restart, Uninstall, StepInv, Idle
  <2>2. QED
    BY <1>1, <2>1
<1>4. CASE Sync \/ EarlyEnv \/ Check \/ RootStep \/ Recheck \/ WriteEnv \/ KeepSecrets \/ Address
  <2>1. /\ UNCHANGED <<files, box, cut, settings>> /\ run'.fresh = run.fresh
        /\ run'.name = run.name /\ run'.want = run.want
    <3>1. UNCHANGED <<files, box, cut, settings>>
      BY <1>4 DEF Sync, EarlyEnv, Check, RootStep, Recheck, WriteEnv, KeepSecrets, Address
    <3>2. CASE Sync \/ EarlyEnv \/ KeepSecrets \/ Address
      BY <3>1, <3>2 DEF Sync, EarlyEnv, KeepSecrets, Address, RunState
    <3>3. CASE Check \/ Recheck
      BY <3>1, <3>3 DEF Check, Recheck, RunState
    <3>4. CASE RootStep \/ WriteEnv
      BY <3>1, <3>4 DEF RootStep, WriteEnv, RunState
    <3>5. QED
      BY <1>4, <3>2, <3>3, <3>4
  <2>2. QED
    BY <1>1, <2>1
<1>5. CASE Build
  <2>1. /\ UNCHANGED <<files, cut, settings>> /\ run'.fresh = run.fresh
        /\ run'.name = run.name /\ run'.want = run.want
    BY <1>5 DEF Build, RunState
  <2>2. box'[s].secrets = box[s].secrets /\ box'[s].state = box[s].state
    BY <1>5 DEF Build, Container
  <2>3. QED
    BY <1>1, <2>1, <2>2
<1>6. CASE EnsureToken
  <2>1. /\ UNCHANGED <<cut, settings, box>> /\ ~run.fresh
        /\ run'.name = run.name /\ run'.want = run.want
        /\ run'.fresh = (files'["token"] # files["token"])
    BY <1>6 DEF EnsureToken, RunState, StepInv, Mounts, Secrets
  <2>2. files'["hash"] = files["hash"] /\ files'["password"] = files["password"]
    BY <1>6 DEF EnsureToken, Mounts, Secrets
  <2>3. CASE files'["token"] = files["token"]
    <3>1. \A f \in Uses(s) : files'[f] = files[f]
      BY <2>2, <2>3 DEF Secrets
    <3>2. QED
      BY <1>0, <2>1, <2>2, <3>1 DEF BoxOK, Knows
  <2>4. CASE files'["token"] # files["token"]
    BY <1>0, <2>1, <2>4 DEF BoxOK
  <2>5. QED
    BY <2>3, <2>4
<1>7. CASE WriteHash
  <2>1. /\ UNCHANGED <<cut, settings, box>> /\ run'.fresh = run.fresh
        /\ run'.name = run.name /\ run'.want = run.want /\ run.name = "deploy"
        /\ files' = [files EXCEPT !["hash"] = run.want.password]
        /\ files["hash"] = 0 \/ files["password"] # run.want.password
    BY <1>7 DEF WriteHash, RunState, StepInv
  <2>2. /\ files'["hash"] = run.want.password /\ files'["password"] = files["password"]
        /\ files'["token"] = files["token"]
    BY <2>1 DEF Mounts, Secrets
  <2>3. ASSUME box[s].state = "running", Knows(s), "hash" \in Uses(s)
        PROVE  \/ box[s].secrets["hash"] = files'["hash"] \/ files'["hash"] > files'["password"]
    BY <1>0, <2>1, <2>2, <2>3 DEF BoxOK, Knows, PasswordInv, Secrets
  <2>4. QED
    BY <1>0, <2>1, <2>2, <2>3 DEF BoxOK, Knows, Secrets
<1>8. CASE WritePassword
  <2>1. /\ UNCHANGED <<cut, settings, box>> /\ run'.fresh = TRUE
        /\ run'.name = run.name /\ run'.want = run.want
    BY <1>8 DEF WritePassword, RunState
  <2>2. QED
    BY <1>0, <2>1 DEF BoxOK
\* a container that is gone, or stopped
<1>9. ASSUME box'[s].state # "running", \A f \in Secrets \ Uses(s) : box'[s].secrets[f] = 0
      PROVE  BoxOK(s)'
  BY <1>0, <1>9 DEF BoxOK
<1>10. Gone.state # "running" /\ \A f \in Secrets : Gone.secrets[f] = 0
  BY DEF Gone, NotMounted
<1>11. CASE RemoveStats \/ Down
  <2>1. /\ UNCHANGED <<files, cut, settings>> /\ run'.fresh = run.fresh
        /\ run'.name = run.name /\ run'.want = run.want
        /\ box'[s] = box[s] \/ box'[s] = Gone
    BY <1>11 DEF RemoveStats, Down, RunState
  <2>2. QED
    BY <1>1, <1>9, <1>10, <2>1
<1>12. ASSUME NEW t \in Services, UpOne(t)
       PROVE  BoxOK(s)'
  <2>1. /\ UNCHANGED <<files, cut, settings>> /\ run'.fresh = run.fresh
        /\ run'.name = run.name /\ run'.want = run.want
        /\ \/ box'[s] = box[s]
           \/ box'[s] = Runs(s) /\ \A f \in Uses(s) : files[f] # 0
    BY <1>12 DEF UpOne, RunState
  <2>2. Runs(s).secrets = Mounted(s)
    BY DEF Runs
  <2>3. QED
    BY <1>1, <2>1, <2>2, Fresh
<1>13. ASSUME NEW t \in Services, StopOne(t) \/ Restarts(t)
       PROVE  BoxOK(s)'
  <2>1. /\ UNCHANGED <<files, cut, settings>> /\ run'.fresh = run.fresh
        /\ run'.name = run.name /\ run'.want = run.want
    BY <1>13 DEF StopOne, Restarts, RunState
  <2>2. \/ box'[s] = box[s]
        \/ box'[s].secrets = Mounted(s) /\ \A f \in Uses(s) : files[f] # 0
        \/ box'[s].secrets = box[s].secrets /\ box'[s].state # "running"
    BY <1>13 DEF StopOne, Restarts, Container
  <2>3. QED
    BY <1>0, <1>1, <1>9, <2>1, <2>2, Fresh DEF BoxOK
<1>14. CASE StopDone
  <2>1. box'[s] = box[s] /\ box[s].state # "running"
    BY <1>14 DEF StopDone, StoppedInv, Stopped
  <2>2. QED
    BY <1>0, <1>9, <2>1 DEF BoxOK
<1>15. CASE Packages \/ Dies
  <2>1. /\ UNCHANGED <<files, box, settings>> /\ run'.name = "none" /\ run'.fresh = FALSE
        /\ ~cut' => ~cut /\ ~run.fresh
    <3>1. CASE Packages
      BY <3>1 DEF Packages, Idle, StepInv, RunState
    <3>2. CASE Dies
      BY <3>2 DEF Dies, Idle
    <3>3. QED
      BY <1>15, <3>1, <3>2
  <2>2. QED
    BY <1>1, <2>1
<1>16. CASE UpDone
  <2>1. /\ UNCHANGED <<files, box, settings>>
        /\ run'.name = "deploy" => run'.want = run.want /\ run.name = "deploy"
        /\ run'.fresh = FALSE
    BY <1>16 DEF UpDone, Idle, RunState, StepInv
  <2>2. CASE ~run.fresh
    BY <1>1, <1>16, <2>1, <2>2 DEF UpDone
  <2>3. CASE run.fresh /\ box[s].state = "running" /\ ~cut'
    <3>1. s \in Wanted(env) /\ run.name = "deploy" /\ run.step = "up" /\ run.todo = {}
      BY <1>16, <2>3 DEF UpDone, StepInv
    <3>2. Up(s)
      BY <3>1 DEF UpInv
    <3>3. box[s].secrets = Mounted(s) /\ \A f \in Uses(s) : files[f] # 0
      BY <2>3, <3>2 DEF Up
    <3>4. QED
      BY <1>16, <2>1, <3>1, <3>3, Fresh DEF UpDone, RunState
  <2>4. CASE run.fresh /\ (box[s].state # "running" \/ cut')
    BY <1>0, <2>1, <2>4 DEF BoxOK
  <2>5. QED
    BY <2>2, <2>3, <2>4
<1>17. CASE Delete \/ DeleteSome \/ SecretLost
  <2>1. /\ UNCHANGED <<box, settings, cut>> /\ run'.name # "deploy" /\ run'.fresh = FALSE /\ run.fresh = FALSE
    BY <1>17 DEF Delete, DeleteSome, SecretLost, Idle, StepInv, RunState
  <2>2. \A f \in Secrets : files'[f] \in {0, files[f]}
    BY <1>17 DEF Delete, DeleteSome, SecretLost, Mounts, NotMounted
  <2>3. "hash" \in Uses(s) /\ box[s].state = "running" /\ ~cut => files["password"] <= box[s].secrets["hash"]
    BY <1>0, <2>1 DEF BoxOK, Knows
  <2>4. QED
    BY <1>0, <2>1, <2>2, <2>3 DEF BoxOK, Knows, Secrets
<1>18. CASE Edit
  <2>1. /\ UNCHANGED <<run, files, box, cut>> /\ settings'.password >= settings.password /\ settings'.password \in Nat
    BY <1>18, BoundAssumption, ChoiceAssumption DEF Edit, Settings, Passwords
  <2>2. QED
    BY <1>1, <2>1
<1>19. CASE HostChanges
  BY <1>1, <1>19 DEF HostChanges
<1>20. QED
  BY <1>2, <1>3, <1>4, <1>5, <1>6, <1>7, <1>8, <1>11, <1>12, <1>13, <1>14, <1>15, <1>16, <1>17,
     <1>18, <1>19 DEF Next
LEMMA TokenStep ==
  ASSUME TypeOK, StepInv, TokenInv, [Next]_vars
  PROVE  TokenInv'
<1> USE PasswordTypes DEF TokenInv
<1>1. CASE UNCHANGED vars
  BY <1>1 DEF vars
<1>2. CASE Deploy \/ Start \/ Stop \/ Restart \/ Uninstall
  BY <1>2 DEF Deploy, Start, Stop, Restart, Uninstall, Idle
<1>3. CASE Sync
  BY <1>3 DEF Sync, RunState
<1>4. CASE EnsureToken
  <2>1. NewToken \in Tokens
    <3> DEFINE t(s) == box[s].secrets["token"]
    <3>1. \E token \in Tokens : token # t("jupyterlab") /\ token # t("stats") /\ token # t("deps")
      BY DEF Tokens
    <3>2. \E token \in Tokens : \A s \in Services : t(s) # token
      BY <3>1 DEF Services
    <3>3. QED
      BY <3>2 DEF NewToken
  <2>2. QED
    BY <1>4, <2>1 DEF EnsureToken, Tokens, Mounts, Secrets
<1>5. ASSUME files'["token"] = files["token"], run'.name = "deploy" => run.name = "deploy" /\ run.step \notin {"sync", "token"}
      PROVE  TokenInv'
  BY <1>5
<1>6. CASE EarlyEnv \/ KeepSecrets \/ Address \/ Down \/ RemoveStats \/ Build
  BY <1>5, <1>6 DEF EarlyEnv, KeepSecrets, Address, Down, RemoveStats, Build, RunState
<1>7. CASE Check \/ Recheck \/ RootStep \/ WriteEnv
  BY <1>5, <1>7 DEF Check, Recheck, RootStep, WriteEnv, RunState
<1>8. CASE WriteHash \/ WritePassword
  <2>1. files'["token"] = files["token"]
    BY <1>8 DEF WriteHash, WritePassword, Mounts, Secrets
  <2>2. QED
    BY <1>8, <2>1 DEF WriteHash, WritePassword, RunState
<1>9. ASSUME NEW s \in Services, UpOne(s) \/ StopOne(s) \/ Restarts(s)
      PROVE  TokenInv'
  <2>1. files' = files /\ run'.name = run.name /\ run'.step = run.step
    BY <1>9 DEF UpOne, StopOne, Restarts, RunState
  <2>2. QED
    BY <2>1
<1>10. CASE UpDone \/ Packages \/ StopDone
  <2>1. files' = files /\ (run'.name = "deploy" => run.name = "deploy" /\ run.step \in {"up", "stop"})
    BY <1>10 DEF UpDone, Packages, StopDone, Idle, RunState
  <2>2. QED
    BY <1>5, <2>1
<1>11. CASE Delete \/ DeleteSome \/ Dies \/ SecretLost
  BY <1>11 DEF Delete, DeleteSome, Dies, SecretLost, Idle, StepInv
<1>12. CASE Edit \/ HostChanges
  BY <1>12 DEF Edit, HostChanges
<1>13. QED
  BY <1>1, <1>2, <1>3, <1>4, <1>6, <1>7, <1>8, <1>9, <1>10, <1>11, <1>12 DEF Next

LEMMA StoppedStep ==
  ASSUME TypeOK, StepInv, StoppedInv, [Next]_vars
  PROVE  StoppedInv'
<1> SUFFICES ASSUME NEW s \in Services, Stopped(s)' PROVE box'[s].state # "running"
  BY DEF StoppedInv
<1> USE PasswordTypes DEF Stopped
<1>0. Stopped(s) => box[s].state # "running"
  BY DEF StoppedInv
<1>1. CASE UNCHANGED vars
  BY <1>0, <1>1 DEF vars
<1>2. CASE Deploy \/ Start \/ Stop \/ Restart \/ Uninstall
  BY <1>2 DEF Deploy, Start, Stop, Restart, Uninstall, Idle
<1>3. CASE Sync \/ EnsureToken \/ EarlyEnv \/ KeepSecrets \/ WriteHash \/ WritePassword \/ RemoveStats
  BY <1>3 DEF Sync, EnsureToken, EarlyEnv, KeepSecrets, WriteHash, WritePassword, RemoveStats, RunState, StepInv
<1>4. CASE Build
  BY <1>4 DEF Build, StepInv, RunState
<1>5. CASE Check \/ RootStep \/ Recheck
  <2>1. /\ box' = box /\ run'.name = run.name /\ run.step \in {"check", "root", "recheck"}
        /\ run'.step \in {"root", "recheck", "env"}
    BY <1>5 DEF Check, RootStep, Recheck, RunState
  <2>2. QED
    BY <1>0, <2>1
<1>6. CASE WriteEnv
  <2>1. /\ box' = box /\ run'.name = run.name /\ run.step = "env" /\ run'.step \in {"secrets", "up"}
    BY <1>6 DEF WriteEnv, RunState
  <2>2. QED
    BY <1>0, <2>1
<1>7. ASSUME NEW t \in Services, UpOne(t)
      PROVE  box'[s].state # "running"
  <2>1. /\ run.step = "up" /\ run'.step = "up" /\ run'.name = run.name /\ run'.todo = run.todo \ {t}
        /\ s # t => box'[s] = box[s]
    BY <1>7 DEF UpOne, RunState
  <2>2. QED
    BY <1>0, <2>1
<1>8. ASSUME NEW t \in Services, StopOne(t)
      PROVE  box'[s].state # "running"
  <2>1. /\ run.step = "stop" /\ run'.step = "stop" /\ run'.name = run.name /\ run'.todo = run.todo \ {t}
        /\ s # t => box'[s] = box[s]
        /\ s = t => box'[s].state # "running"
    BY <1>8 DEF StopOne, RunState, Container
  <2>2. QED
    BY <1>0, <2>1
<1>9. ASSUME NEW t \in Services, Restarts(t)
      PROVE  box'[s].state # "running"
  <2>1. run' = run /\ (s # t => box'[s] = box[s]) /\ box[t].state = "running"
    BY <1>9 DEF Restarts
  <2>2. QED
    BY <1>0, <2>1
<1>10. CASE UpDone \/ Packages
  BY <1>10 DEF UpDone, Packages, Idle, RunState
<1>11. CASE StopDone
  <2>1. box' = box /\ Stopped(s)
    BY <1>11 DEF StopDone
  <2>2. QED
    BY <1>0, <2>1
<1>12. CASE Address
  <2>1. box' = box /\ run'.name = run.name /\ run.step = "address" /\ run'.step = "check"
    BY <1>12 DEF Address, RunState
  <2>2. QED
    BY <1>0, <2>1
<1>13. CASE Down
  BY <1>13 DEF Down, RunState, StepInv
<1>14. CASE Delete \/ DeleteSome \/ Dies
  BY <1>14 DEF Delete, DeleteSome, Dies, Idle
<1>15. CASE Edit \/ HostChanges \/ SecretLost
  BY <1>0, <1>15 DEF Edit, HostChanges, SecretLost
<1>16. QED
  BY <1>1, <1>2, <1>3, <1>4, <1>5, <1>6, <1>7, <1>8, <1>9, <1>10, <1>11, <1>12, <1>13, <1>14, <1>15
     DEF Next

\* A container that compose leaves alone knows the secrets, or `cut` says why not.
LEMMA LeftAlone ==
  ASSUME TypeOK, PasswordInv, BoxInv, TokenInv, NEW s \in Services, run.name = "deploy", run.step = "up",
         ~run.fresh, Bare(box[s]) = Bare(Runs(s))
  PROVE  (\A f \in Uses(s) : files[f] # 0) /\ (box[s].secrets = Mounted(s) \/ cut)
<1> USE PasswordTypes
<1>1. box[s].state = "running"
  <2>1. Bare(box[s]).state = box[s].state /\ Bare(Runs(s)).state = "running"
    BY DEF Bare, Runs, Container
  <2>2. QED
    BY <2>1
<1>2. \A f \in Secrets : files[f] # 0
  BY DEF PasswordInv, HashOfPassword, TokenInv, Secrets
<1>3. files["hash"] = files["password"]
  BY DEF PasswordInv, HashOfPassword
<1>4. ASSUME ~cut
      PROVE  box[s].secrets = Mounted(s)
  <2>1. BoxOK(s) /\ Knows(s)
    BY <1>1, <1>4 DEF BoxInv, BoxOK
  <2>2. \A f \in Secrets : box[s].secrets[f] = IF f \in Uses(s) THEN files[f] ELSE 0
    BY <1>2, <1>3, <2>1 DEF BoxOK, Knows
  <2>3. box[s].secrets \in [Secrets -> Nat]
    BY DEF Container, Mounts
  <2>4. QED
    BY <2>2, <2>3 DEF Mounted
<1>5. QED
  BY <1>2, <1>4

LEMMA UpStep ==
  ASSUME TypeOK, StepInv, PasswordInv, BoxInv, TokenInv, StoppedInv, UpInv, [Next]_vars
  PROVE  UpInv'
<1> USE PasswordTypes
<1>0. \A e : Wanted(e) \subseteq Services
  BY DEF Wanted, Services
<1>1. CASE UNCHANGED vars
  BY <1>1 DEF vars, UpInv, Up, Runs, Slice, Mounted
\* nothing is claimed of the other steps
<1>2. ASSUME run'.step \notin {"up", "packages"} PROVE UpInv'
  BY <1>2 DEF UpInv
\* the containers are still to do
<1>3. ASSUME run'.step = "up", run'.todo = Wanted(env') PROVE UpInv'
  BY <1>3 DEF UpInv
<1>4. CASE Deploy \/ Start \/ Stop \/ Restart \/ Uninstall
  BY <1>2, <1>4 DEF Deploy, Start, Stop, Restart, Uninstall, Idle
<1>5. CASE Sync \/ EnsureToken \/ EarlyEnv \/ Build
  BY <1>2, <1>5 DEF Sync, EnsureToken, EarlyEnv, Build, RunState
<1>6. CASE KeepSecrets \/ WriteHash \/ WritePassword
  BY <1>2, <1>6 DEF KeepSecrets, WriteHash, WritePassword, RunState
<1>7. CASE Check \/ RootStep \/ Recheck
  BY <1>2, <1>7 DEF Check, RootStep, Recheck, RunState
<1>8. CASE StopDone \/ Address \/ Down
  BY <1>2, <1>8 DEF StopDone, Address, Down, RunState, Idle
<1>9. CASE Delete \/ DeleteSome \/ Dies \/ Packages
  BY <1>2, <1>9 DEF Delete, DeleteSome, Dies, Packages, Idle
<1>10. CASE RemoveStats
  BY <1>3, <1>10 DEF RemoveStats, RunState
<1>11. CASE WriteEnv
  <2>1. CASE run.name = "deploy"
    BY <1>2, <1>11, <2>1 DEF WriteEnv, RunState
  <2>2. CASE run.name # "deploy"
    <3>1. run'.step = "up" /\ run'.todo = Wanted(env) /\ env'.stats = env.stats
      BY <1>11, <2>2 DEF WriteEnv, RunState, TypeOK, RuntimeEnv, NoEnv
    <3>2. QED
      BY <1>3, <3>1 DEF Wanted
  <2>3. QED
    BY <2>1, <2>2
<1>12. CASE UpDone
  <2>1. CASE run.name = "deploy"
    <3>1. /\ UNCHANGED <<box, files, env>> /\ run.step = "up" /\ run.todo = {} /\ run'.step = "packages"
          /\ run'.name = "deploy" /\ run'.fresh = FALSE
          /\ cut' = IF run.fresh THEN \E s \in Services \ Wanted(env) : box[s].state = "running" ELSE cut
      BY <1>12, <2>1 DEF UpDone, RunState
    <3>2. SUFFICES ASSUME NEW s \in Wanted(env) PROVE Up(s)'
      BY <3>1 DEF UpInv, Wanted
    <3>3. Up(s)
      BY <2>1, <3>1 DEF UpInv
    <3>4. Runs(s)' = Runs(s) /\ Mounted(s)' = Mounted(s) /\ Uses(s)' = Uses(s)
      BY <3>1 DEF Runs, Slice, Mounted, Uses
    <3>5. QED
      BY <3>1, <3>3, <3>4 DEF Up
  <2>2. CASE run.name # "deploy"
    BY <1>2, <1>12, <2>2 DEF UpDone, Idle
  <2>3. QED
    BY <2>1, <2>2
<1>13. ASSUME NEW t \in Services, UpOne(t)
       PROVE  UpInv'
  <2>1. /\ UNCHANGED <<files, env, cut>> /\ run.step = "up" /\ run'.step = "up" /\ t \in run.todo
        /\ run'.todo = run.todo \ {t} /\ run'.name = run.name /\ run'.fresh = run.fresh
        /\ \A s \in Services : s # t => box'[s] = box[s]
    BY <1>13 DEF UpOne, RunState
  <2>2. SUFFICES ASSUME NEW s \in Wanted(env), s \notin run'.todo, run.name \in {"deploy", "restart"}
                 PROVE  Up(s)'
    BY <2>1 DEF UpInv, Wanted
  <2>3. Runs(s)' = Runs(s) /\ Mounted(s)' = Mounted(s) /\ Uses(s)' = Uses(s) /\ s \in Services
    BY <1>0, <2>1 DEF Runs, Slice, Mounted, Uses
  <2>4. CASE s # t
    <3>1. Up(s)
      BY <2>1, <2>2, <2>4 DEF UpInv
    <3>2. QED
      BY <2>1, <2>3, <2>4, <3>1 DEF Up
  <2>5. CASE s = t /\ (run.fresh \/ Bare(box[s]) # Bare(Runs(s)))
    <3>1. box'[s] = Runs(s) /\ \A f \in Uses(s) : files[f] # 0
      BY <1>13, <2>5 DEF UpOne, Bare
    <3>2. Runs(s).secrets = Mounted(s)
      BY DEF Runs
    <3>3. QED
      BY <2>1, <2>3, <3>1, <3>2 DEF Up, Bare
  <2>6. CASE s = t /\ ~run.fresh /\ Bare(box[s]) = Bare(Runs(s))
    <3>1. box' = box
      BY <1>13, <2>6 DEF UpOne, Bare
    <3>2. run.name = "deploy"
      <4>1. box[s].state = "running"
        <5>1. Bare(box[s]).state = box[s].state /\ Bare(Runs(s)).state = "running"
          BY <2>3 DEF Bare, Runs, Container
        <5>2. QED
          BY <2>6, <5>1
      <4>2. QED
        BY <2>1, <2>2, <2>3, <2>6, <4>1 DEF StoppedInv, Stopped
    <3>3. (\A f \in Uses(s) : files[f] # 0) /\ (box[s].secrets = Mounted(s) \/ cut)
      BY <2>1, <2>3, <2>6, <3>2, LeftAlone
    <3>4. QED
      BY <2>1, <2>3, <2>6, <3>1, <3>3 DEF Up
  <2>7. QED
    BY <2>4, <2>5, <2>6
<1>14. ASSUME NEW t \in Services, StopOne(t)
       PROVE  UpInv'
  BY <1>2, <1>14 DEF StopOne, RunState
<1>15. ASSUME NEW t \in Services, Restarts(t)
       PROVE  UpInv'
  <2>1. UNCHANGED <<files, env, run, cut>> /\ \A s \in Services : s # t => box'[s] = box[s]
    BY <1>15 DEF Restarts
  <2>2. SUFFICES ASSUME NEW s \in Wanted(env), Up(s) PROVE Up(s)'
    BY <2>1 DEF UpInv, Wanted
  <2>3. Runs(s)' = Runs(s) /\ Mounted(s)' = Mounted(s) /\ Uses(s)' = Uses(s) /\ s \in Services
    BY <1>0, <2>1 DEF Runs, Slice, Mounted, Uses
  <2>4. CASE s # t
    BY <2>1, <2>2, <2>3, <2>4 DEF Up
  <2>5. CASE s = t
    <3>1. box'[s] = [box[s] EXCEPT !.secrets = Mounted(s)]
      BY <1>15, <2>2, <2>5 DEF Restarts, Up
    <3>2. Bare(box'[s]) = Bare(box[s]) /\ box'[s].secrets = Mounted(s)
      BY <2>3, <3>1 DEF Bare, Container
    <3>3. QED
      BY <2>1, <2>2, <2>3, <3>2 DEF Up
  <2>6. QED
    BY <2>4, <2>5
<1>16. CASE Edit \/ HostChanges
  BY <1>16 DEF Edit, HostChanges, UpInv, Up, Runs, Slice, Mounted
<1>17. CASE SecretLost
  BY <1>2, <1>17 DEF SecretLost, RunState
<1>18. QED
  BY <1>1, <1>4, <1>5, <1>6, <1>7, <1>8, <1>9, <1>10, <1>11, <1>12, <1>13, <1>14, <1>15, <1>16, <1>17
     DEF Next

\* A deploy or a restart ends well only after its last container.
LEMMA LastStep ==
  ASSUME TypeOK, StepInv, Next, run.name \in {"deploy", "restart"}, ~Ended, run'.step = "done"
  PROVE  box' = box /\ run.step \in {"up", "packages"} /\ (run.step = "up" => run.todo = {})
<1>0. run \in RunState
  BY PasswordTypes
<1>1. ~(Deploy \/ Start \/ Stop \/ Restart \/ Uninstall)
  BY DEF Deploy, Start, Stop, Restart, Uninstall
<1>2. ~(Sync \/ EnsureToken \/ EarlyEnv \/ Build)
  BY <1>0 DEF Sync, EnsureToken, EarlyEnv, Build, RunState
<1>3. ~(Check \/ RootStep \/ Recheck \/ WriteEnv)
  BY <1>0 DEF Check, RootStep, Recheck, WriteEnv, RunState
<1>4. ~(KeepSecrets \/ WriteHash \/ WritePassword \/ RemoveStats)
  BY <1>0 DEF KeepSecrets, WriteHash, WritePassword, RemoveStats, RunState
<1>5. ~(\E s \in Services : UpOne(s) \/ StopOne(s) \/ Restarts(s))
  BY <1>0 DEF UpOne, StopOne, Restarts, RunState
<1>6. ~(Address \/ Down \/ Delete \/ DeleteSome \/ Dies)
  BY <1>0 DEF Address, Down, Delete, DeleteSome, Dies, RunState, Idle, StepInv
<1>7. ~(Edit \/ HostChanges \/ SecretLost)
  BY DEF Edit, HostChanges, SecretLost
<1>8. UpDone \/ Packages \/ StopDone
  BY <1>1, <1>2, <1>3, <1>4, <1>5, <1>6, <1>7 DEF Next
<1>9. QED
  BY <1>0, <1>8 DEF UpDone, Packages, StopDone, RunState, StepInv

\* Unless the user goes back to an earlier password: a deploy or a restart that reports success
\* leaves every wanted container as it should be, for every host, whatever was lost, edited or
\* interrupted before, and however often Docker started a container again meanwhile.
THEOREM DeliveredHolds ==
  ASSUME ~Reverts
  PROVE  Spec => Delivered
<1> DEFINE Inv == TypeOK /\ StepInv /\ PasswordInv /\ BoxInv /\ TokenInv /\ StoppedInv /\ UpInv
<1>1. Init => Inv
  <2> SUFFICES ASSUME Init PROVE Inv
    OBVIOUS
  <2>1. TypeOK
    BY Shapes, IdleShape, ChoiceAssumption DEF Init, TypeOK
  <2>2. StepInv
    BY DEF Init, StepInv, Idle
  <2>3. files["hash"] = 0 /\ files["password"] = 0 /\ run.name = "none" /\ run.step = "done"
    BY DEF Init, NotMounted, Secrets, Idle
  <2>4. settings.password \in Nat
    BY <2>1, BoundAssumption DEF TypeOK, Settings, Passwords
  <2>5. \A s \in Services : box[s].state # "running" /\ \A f \in Secrets : box[s].secrets[f] = 0
    BY DEF Init, Gone, NotMounted
  <2>6. PasswordInv
    BY <2>3, <2>4 DEF PasswordInv, HashOfPassword
  <2>7. QED
    BY <2>1, <2>2, <2>3, <2>5, <2>6 DEF BoxInv, BoxOK, TokenInv, StoppedInv, Stopped, UpInv
<1>2. Inv /\ [Next]_vars => Inv'
  BY TypeStep, StepStep, PasswordStep, BoxStep, TokenStep, StoppedStep, UpStep
<1>3. Inv /\ [Next]_vars =>
        [run.name \in {"deploy", "restart"} /\ ~Ended /\ run'.step = "done" =>
          \A s \in Wanted(env) :
              /\ [box'[s] EXCEPT !.secrets = NotMounted] = [Runs(s) EXCEPT !.secrets = NotMounted]
              /\ cut \/ box'[s].secrets = Mounted(s)]_vars
  <2> SUFFICES ASSUME Inv, Next, run.name \in {"deploy", "restart"}, ~Ended, run'.step = "done",
                      NEW s \in Wanted(env)
               PROVE  /\ Bare(box'[s]) = Bare(Runs(s))
                      /\ cut \/ box'[s].secrets = Mounted(s)
    BY DEF Bare
  <2>1. box' = box /\ run.step \in {"up", "packages"} /\ (run.step = "up" => run.todo = {})
    BY LastStep
  <2>2. QED
    BY <2>1 DEF UpInv, Up
<1>4. QED
  BY <1>1, <1>2, <1>3, PTL DEF Spec, Delivered
=============================================================================
