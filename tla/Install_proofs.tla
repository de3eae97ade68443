--------------------------- MODULE Install_proofs ---------------------------
(***************************************************************************)
(* Proofs about Install, for every set of directories and sandboxes and    *)
(* every number of requests and failures.                                  *)
(***************************************************************************)
EXTENDS Install, TLAPS

\* Who runs, and what the result file says of it.
Calls ==
    /\ command = "destroying" => helper = "gone"
    /\ command = "install" => helper \in Installing \cup {"answer", "gone"}
    /\ command = "uninstall" => helper \in Uninstalling \cup {"answer", "gone"}
    /\ helper # "gone" \/ command = "destroying" => result = "empty" /\ requests >= 1
    /\ command \in {"install", "uninstall"} /\ helper = "gone" /\ ~failed => result = "ok"
    /\ last # "none" => command = "idle" /\ helper = "gone"
    /\ FailsOnlyByFault

\* A request makes two SIDs at most.
SidsLeft ==
    /\ sids <= 2 * requests
    /\ helper = "group" => sids <= 2 * requests - 1
    /\ helper = "user" => sids <= 2 * requests - 2

\* Nothing names an account or a group that is gone.
Owners ==
    /\ \A p \in RunnerPath : access[p] \subseteq {account}
    /\ ~quiet => \A d \in SystemDir : deny[d] \subseteq {group}
    /\ ~leftover => profiles \subseteq {account}
    /\ ~leftover => \A s \in Sandbox : mounts[s] \in {0, group}

\* The answer to a request is on its way.
Success(c) == command = c /\ (helper = "answer" \/ (helper = "gone" /\ result = "ok"))

\* How far install has come.
BuiltUsers ==
    /\ helper \in Installing \ {"user"} => account # 0 /\ password = requests
    /\ helper \in Installing \ {"user", "group"} => group # 0
    /\ helper \in Installing \ {"user", "group", "member"} => member
    /\ helper \in {"access", "lock", "unrule", "block", "allow"} => creds = requests

BuiltAcls ==
    /\ helper = "access" => \A p \in RunnerPath \ todo : account \in access[p]
    /\ helper \in {"lock", "unrule", "block", "allow"} =>
           \A p \in RunnerPath : account \in access[p]
    /\ helper = "lock" => \A d \in SystemDir \ todo : group \in deny[d]
    /\ helper \in {"unrule", "block", "allow"} => \A d \in SystemDir : group \in deny[d]

BuiltRules ==
    /\ helper \in {"unrule", "un_rules"} /\ ~quiet =>
           \A k \in Kind \ todo : rules[k] = NoRules[k]
    /\ helper \in {"block"} \cup (Uninstalling \ {"un_rules"}) /\ ~quiet => rules = NoRules
    /\ helper = "allow" =>
           /\ rules["block"][account] >= 1
           /\ ~quiet => rules = [NoRules EXCEPT !["block"][account] = 1]

\* How far uninstall has come.
Unmounted ==
    /\ command = "destroying" /\ ~leftover => \A s \in Sandbox \ todo : mounts[s] = 0
    /\ helper \in Uninstalling /\ ~leftover => \A s \in Sandbox : mounts[s] = 0

Cleaned ==
    /\ helper = "un_access" => \A p \in RunnerPath \ todo : access[p] = {}
    /\ helper \in {"un_lock", "un_user", "un_group", "un_creds"} =>
           \A p \in RunnerPath : access[p] = {}
    /\ helper = "un_lock" /\ ~quiet => \A d \in SystemDir \ todo : deny[d] = {}
    /\ helper \in {"un_user", "un_group", "un_creds"} /\ ~quiet =>
           \A d \in SystemDir : deny[d] = {}
    /\ helper \in {"un_user", "un_group", "un_creds"} /\ ~leftover => profiles = {}
    /\ helper \in {"un_group", "un_creds"} => account = 0
    /\ helper = "un_creds" => group = 0

\* What the requests report is so.
Reports ==
    /\ Success("install") \/ last = "installed" => Installed
    /\ Success("uninstall") \/ last = "uninstalled" => Removed

IInv ==
    /\ TypeOK /\ Calls /\ SidsLeft /\ Owners
    /\ BuiltUsers /\ BuiltAcls /\ BuiltRules /\ Unmounted /\ Cleaned /\ Reports

-----------------------------------------------------------------------------
(* The steps *)

\* What is left of a directory's ACEs when the helper is interrupted.
LEMMA InterruptedLeaves ==
  ASSUME TypeOK, Interrupted
  PROVE  /\ deny' \in [SystemDir -> SUBSET Sid]
         /\ \A d \in SystemDir : deny'[d] \subseteq deny[d]
<1>1. CASE UNCHANGED deny
  BY <1>1 DEF TypeOK
<1>2. ASSUME NEW d \in todo, deny' = [deny EXCEPT ![d] = @ \ {group}]
      PROVE  /\ deny' \in [SystemDir -> SUBSET Sid]
             /\ \A e \in SystemDir : deny'[e] \subseteq deny[e]
  BY <1>2 DEF TypeOK
<1> QED BY <1>1, <1>2 DEF Interrupted

\* Every step keeps the types, and enough numbers for new SIDs.
LEMMA TypeStep ==
  ASSUME TypeOK, Calls, SidsLeft, BuiltUsers, [Next]_vars
  PROVE  (TypeOK /\ SidsLeft)'
<1> USE MaxRequestsIsNat, MaxFaultsIsNat DEF Calls, SidsLeft, BuiltUsers,
        TypeOK, Sid, SidOrNone, Kind, Installing, Uninstalling, users, acls,
        machine, request, history
<1>1. CASE BeginInstall
  <2>1. requests' \in 0..MaxRequests /\ SidsLeft'
    BY <1>1 DEF BeginInstall, Begin
  <2> QED BY <2>1, <1>1 DEF BeginInstall, Begin
<1>2. CASE BeginUninstall
  <2>1. requests' \in 0..MaxRequests /\ SidsLeft'
    BY <1>2 DEF BeginUninstall, Begin
  <2> QED BY <2>1, <1>2 DEF BeginUninstall, Begin
<1>3. CASE ListFails
  <2>1. requests' \in 0..MaxRequests /\ SidsLeft'
    BY <1>3 DEF ListFails, Begin
  <2> QED BY <2>1, <1>3 DEF ListFails, Begin
<1>4. ASSUME NEW s \in Sandbox, DestroyOne(s) PROVE (TypeOK /\ SidsLeft)'
  BY <1>4 DEF DestroyOne
<1>5. ASSUME NEW s \in Sandbox, DestroyFails(s) PROVE (TypeOK /\ SidsLeft)'
  BY <1>5 DEF DestroyFails, Fault
<1>6. ASSUME NEW s \in Sandbox, CreateSandbox(s) PROVE (TypeOK /\ SidsLeft)'
  BY <1>6 DEF CreateSandbox
<1>7. CASE AskCleanup
  BY <1>7 DEF AskCleanup
<1>8. CASE Refused
  BY <1>8 DEF Refused, Fault
<1>9. CASE ReadResult
  BY <1>9 DEF ReadResult
<1>10. CASE CommandLost
  BY <1>10 DEF CommandLost, Fault
<1>11. CASE StartSandbox
  BY <1>11 DEF StartSandbox
<1>12. CASE MakeUser
  <2>1. account' \in SidOrNone /\ sids' \in 0..(2 * MaxRequests) /\ SidsLeft'
    BY <1>12 DEF MakeUser, Goto, Calm
  <2> QED BY <2>1, <1>12 DEF MakeUser, Goto, Calm
<1>13. CASE MakeGroup
  <2>1. group' \in SidOrNone /\ sids' \in 0..(2 * MaxRequests) /\ SidsLeft'
    BY <1>13 DEF MakeGroup, Goto, Calm
  <2> QED BY <2>1, <1>13 DEF MakeGroup, Goto, Calm
<1>14. CASE AddMember
  BY <1>14 DEF AddMember, Goto, Calm
<1>15. CASE TruncateCredentials
  BY <1>15 DEF TruncateCredentials, Goto, Calm
<1>16. CASE WriteCredentials
  BY <1>16 DEF WriteCredentials, Goto, Calm
<1>17. ASSUME NEW p \in RunnerPath, GrantPath(p) PROVE (TypeOK /\ SidsLeft)'
  BY <1>17 DEF GrantPath, Calm
<1>18. CASE AccessGranted
  BY <1>18 DEF AccessGranted, Goto, Calm
<1>19. ASSUME NEW d \in SystemDir, LockDir(d) PROVE (TypeOK /\ SidsLeft)'
  BY <1>19 DEF LockDir, Calm
<1>20. CASE DirsLocked
  BY <1>20 DEF DirsLocked, Goto, Calm
<1>21. ASSUME NEW k \in Kind, Unrule(k) PROVE (TypeOK /\ SidsLeft)'
  <2>1. rules' \in [Kind -> [Sid -> Nat]]
    BY <1>21 DEF Unrule, Calm, NoRules
  <2> QED BY <2>1, <1>21 DEF Unrule, Calm, NoRules
<1>22. ASSUME NEW k \in Kind, UnruleFails(k) PROVE (TypeOK /\ SidsLeft)'
  BY <1>22 DEF UnruleFails, Fault
<1>23. CASE RulesCleared
  BY <1>23 DEF RulesCleared, Goto, Calm
<1>24. CASE AddBlockRule
  BY <1>24 DEF AddBlockRule, Goto, Calm
<1>25. CASE AddAllowRule
  <2>1. rules' \in [Kind -> [Sid -> Nat]]
    BY <1>25 DEF AddAllowRule, Goto, Calm
  <2> QED BY <2>1, <1>25 DEF AddAllowRule, Goto, Calm
<1>26. CASE RulesRemoved
  BY <1>26 DEF RulesRemoved, Goto, Calm
<1>27. ASSUME NEW p \in RunnerPath, RevokePath(p) PROVE (TypeOK /\ SidsLeft)'
  BY <1>27 DEF RevokePath, Calm
<1>28. CASE AccessRevoked
  BY <1>28 DEF AccessRevoked, Goto, Calm
<1>29. ASSUME NEW d \in SystemDir, UnlockDir(d) PROVE (TypeOK /\ SidsLeft)'
  BY <1>29 DEF UnlockDir, Calm
<1>30. CASE UnlockFails
  BY <1>30 DEF UnlockFails, Fault
<1>31. CASE DeleteProfile
  BY <1>31 DEF DeleteProfile, Goto, Calm
<1>32. CASE DeleteUser
  BY <1>32 DEF DeleteUser, Goto, Calm
<1>33. CASE DeleteGroup
  BY <1>33 DEF DeleteGroup, Goto, Calm
<1>34. CASE UnlinkCredentials
  BY <1>34 DEF UnlinkCredentials, Goto, Calm
<1>35. CASE Answer
  BY <1>35 DEF Answer, Goto
<1>36. CASE HelperFails
  <2>1. deny' \in [SystemDir -> SUBSET Sid]
    BY <1>36, InterruptedLeaves DEF HelperFails
  <2> QED BY <2>1, <1>36 DEF HelperFails, Interrupted, Goto, Fault
<1>37. CASE HelperLost
  <2>1. deny' \in [SystemDir -> SUBSET Sid]
    BY <1>37, InterruptedLeaves DEF HelperLost
  <2> QED BY <2>1, <1>37 DEF HelperLost, Interrupted, Goto, Fault
<1>38. CASE UNCHANGED vars
  BY <1>38 DEF vars
<1>39. CASE StopProxyFails
  BY <1>39 DEF StopProxyFails, Fault
<1> QED BY <1>1, <1>2, <1>3, <1>4, <1>5, <1>6, <1>7, <1>8, <1>9, <1>10, <1>11,
      <1>12, <1>13, <1>14, <1>15, <1>16, <1>17, <1>18, <1>19, <1>20, <1>21,
      <1>22, <1>23, <1>24, <1>25, <1>26, <1>27, <1>28, <1>29, <1>30, <1>31,
      <1>32, <1>33, <1>34, <1>35, <1>36, <1>37, <1>38, <1>39 DEF Next, InstallSteps,
      UninstallSteps

\* Every step keeps the result file true to the helper.
LEMMA CallsStep ==
  ASSUME TypeOK, Calls, [Next]_vars
  PROVE  Calls'
<1> USE MaxRequestsIsNat, MaxFaultsIsNat DEF Calls, FailsOnlyByFault, TypeOK,
        Sid, SidOrNone, Kind, Installing, Uninstalling, users, acls, machine,
        request, history
<1>1. CASE BeginInstall
  BY <1>1 DEF BeginInstall, Begin
<1>2. CASE BeginUninstall
  BY <1>2 DEF BeginUninstall, Begin
<1>3. CASE ListFails
  BY <1>3 DEF ListFails, Begin
<1>4. ASSUME NEW s \in Sandbox, DestroyOne(s) PROVE Calls'
  BY <1>4 DEF DestroyOne
<1>5. ASSUME NEW s \in Sandbox, DestroyFails(s) PROVE Calls'
  BY <1>5 DEF DestroyFails, Fault
<1>6. ASSUME NEW s \in Sandbox, CreateSandbox(s) PROVE Calls'
  BY <1>6 DEF CreateSandbox
<1>7. CASE AskCleanup
  BY <1>7 DEF AskCleanup
<1>8. CASE Refused
  BY <1>8 DEF Refused, Fault
<1>9. CASE ReadResult
  BY <1>9 DEF ReadResult
<1>10. CASE CommandLost
  BY <1>10 DEF CommandLost, Fault
<1>11. CASE StartSandbox
  BY <1>11 DEF StartSandbox
<1>12. CASE MakeUser
  BY <1>12 DEF MakeUser, Goto, Calm
<1>13. CASE MakeGroup
  BY <1>13 DEF MakeGroup, Goto, Calm
<1>14. CASE AddMember
  BY <1>14 DEF AddMember, Goto, Calm
<1>15. CASE TruncateCredentials
  BY <1>15 DEF TruncateCredentials, Goto, Calm
<1>16. CASE WriteCredentials
  BY <1>16 DEF WriteCredentials, Goto, Calm
<1>17. ASSUME NEW p \in RunnerPath, GrantPath(p) PROVE Calls'
  BY <1>17 DEF GrantPath, Calm
<1>18. CASE AccessGranted
  BY <1>18 DEF AccessGranted, Goto, Calm
<1>19. ASSUME NEW d \in SystemDir, LockDir(d) PROVE Calls'
  BY <1>19 DEF LockDir, Calm
<1>20. CASE DirsLocked
  BY <1>20 DEF DirsLocked, Goto, Calm
<1>21. ASSUME NEW k \in Kind, Unrule(k) PROVE Calls'
  BY <1>21 DEF Unrule, Calm
<1>22. ASSUME NEW k \in Kind, UnruleFails(k) PROVE Calls'
  BY <1>22 DEF UnruleFails, Fault
<1>23. CASE RulesCleared
  BY <1>23 DEF RulesCleared, Goto, Calm
<1>24. CASE AddBlockRule
  BY <1>24 DEF AddBlockRule, Goto, Calm
<1>25. CASE AddAllowRule
  BY <1>25 DEF AddAllowRule, Goto, Calm
<1>26. CASE RulesRemoved
  BY <1>26 DEF RulesRemoved, Goto, Calm
<1>27. ASSUME NEW p \in RunnerPath, RevokePath(p) PROVE Calls'
  BY <1>27 DEF RevokePath, Calm
<1>28. CASE AccessRevoked
  BY <1>28 DEF AccessRevoked, Goto, Calm
<1>29. ASSUME NEW d \in SystemDir, UnlockDir(d) PROVE Calls'
  BY <1>29 DEF UnlockDir, Calm
<1>30. CASE UnlockFails
  BY <1>30 DEF UnlockFails, Fault
<1>31. CASE DeleteProfile
  BY <1>31 DEF DeleteProfile, Goto, Calm
<1>32. CASE DeleteUser
  BY <1>32 DEF DeleteUser, Goto, Calm
<1>33. CASE DeleteGroup
  BY <1>33 DEF DeleteGroup, Goto, Calm
<1>34. CASE UnlinkCredentials
  BY <1>34 DEF UnlinkCredentials, Goto, Calm
<1>35. CASE Answer
  BY <1>35 DEF Answer, Goto
<1>36. CASE HelperFails
  BY <1>36 DEF HelperFails, Interrupted, Goto, Fault
<1>37. CASE HelperLost
  BY <1>37 DEF HelperLost, Interrupted, Goto, Fault
<1>38. CASE UNCHANGED vars
  BY <1>38 DEF vars
<1>39. CASE StopProxyFails
  BY <1>39 DEF StopProxyFails, Fault
<1> QED BY <1>1, <1>2, <1>3, <1>4, <1>5, <1>6, <1>7, <1>8, <1>9, <1>10, <1>11,
      <1>12, <1>13, <1>14, <1>15, <1>16, <1>17, <1>18, <1>19, <1>20, <1>21,
      <1>22, <1>23, <1>24, <1>25, <1>26, <1>27, <1>28, <1>29, <1>30, <1>31,
      <1>32, <1>33, <1>34, <1>35, <1>36, <1>37, <1>38, <1>39 DEF Next, InstallSteps,
      UninstallSteps

\* No step leaves what names an account or a group behind it.
LEMMA OwnersStep ==
  ASSUME TypeOK, Calls, Owners, Unmounted, Cleaned, [Next]_vars
  PROVE  Owners'
<1> USE MaxRequestsIsNat, MaxFaultsIsNat DEF Calls, Owners, Unmounted, Cleaned,
        TypeOK, Sid, SidOrNone, Kind, Installing, Uninstalling, users, acls,
        machine, request, history
<1>1. CASE BeginInstall
  BY <1>1 DEF BeginInstall, Begin
<1>2. CASE BeginUninstall
  BY <1>2 DEF BeginUninstall, Begin
<1>3. CASE ListFails
  BY <1>3 DEF ListFails, Begin
<1>4. ASSUME NEW s \in Sandbox, DestroyOne(s) PROVE Owners'
  BY <1>4 DEF DestroyOne
<1>5. ASSUME NEW s \in Sandbox, DestroyFails(s) PROVE Owners'
  BY <1>5 DEF DestroyFails, Fault
<1>6. ASSUME NEW s \in Sandbox, CreateSandbox(s) PROVE Owners'
  BY <1>6 DEF CreateSandbox
<1>7. CASE AskCleanup
  BY <1>7 DEF AskCleanup
<1>8. CASE Refused
  BY <1>8 DEF Refused, Fault
<1>9. CASE ReadResult
  BY <1>9 DEF ReadResult
<1>10. CASE CommandLost
  BY <1>10 DEF CommandLost, Fault
<1>11. CASE StartSandbox
  BY <1>11 DEF StartSandbox
<1>12. CASE MakeUser
  BY <1>12 DEF MakeUser, Goto, Calm
<1>13. CASE MakeGroup
  BY <1>13 DEF MakeGroup, Goto, Calm
<1>14. CASE AddMember
  BY <1>14 DEF AddMember, Goto, Calm
<1>15. CASE TruncateCredentials
  BY <1>15 DEF TruncateCredentials, Goto, Calm
<1>16. CASE WriteCredentials
  BY <1>16 DEF WriteCredentials, Goto, Calm
<1>17. ASSUME NEW p \in RunnerPath, GrantPath(p) PROVE Owners'
  BY <1>17 DEF GrantPath, Calm
<1>18. CASE AccessGranted
  BY <1>18 DEF AccessGranted, Goto, Calm
<1>19. ASSUME NEW d \in SystemDir, LockDir(d) PROVE Owners'
  BY <1>19 DEF LockDir, Calm
<1>20. CASE DirsLocked
  BY <1>20 DEF DirsLocked, Goto, Calm
<1>21. ASSUME NEW k \in Kind, Unrule(k) PROVE Owners'
  BY <1>21 DEF Unrule, Calm
<1>22. ASSUME NEW k \in Kind, UnruleFails(k) PROVE Owners'
  BY <1>22 DEF UnruleFails, Fault
<1>23. CASE RulesCleared
  BY <1>23 DEF RulesCleared, Goto, Calm
<1>24. CASE AddBlockRule
  BY <1>24 DEF AddBlockRule, Goto, Calm
<1>25. CASE AddAllowRule
  BY <1>25 DEF AddAllowRule, Goto, Calm
<1>26. CASE RulesRemoved
  BY <1>26 DEF RulesRemoved, Goto, Calm
<1>27. ASSUME NEW p \in RunnerPath, RevokePath(p) PROVE Owners'
  BY <1>27 DEF RevokePath, Calm
<1>28. CASE AccessRevoked
  BY <1>28 DEF AccessRevoked, Goto, Calm
<1>29. ASSUME NEW d \in SystemDir, UnlockDir(d) PROVE Owners'
  BY <1>29 DEF UnlockDir, Calm
<1>30. CASE UnlockFails
  BY <1>30 DEF UnlockFails, Fault
<1>31. CASE DeleteProfile
  BY <1>31 DEF DeleteProfile, Goto, Calm
<1>32. CASE DeleteUser
  BY <1>32 DEF DeleteUser, Goto, Calm
<1>33. CASE DeleteGroup
  BY <1>33 DEF DeleteGroup, Goto, Calm
<1>34. CASE UnlinkCredentials
  BY <1>34 DEF UnlinkCredentials, Goto, Calm
<1>35. CASE Answer
  BY <1>35 DEF Answer, Goto
<1>36. CASE HelperFails
  BY <1>36, InterruptedLeaves DEF HelperFails, Interrupted, Goto
<1>37. CASE HelperLost
  BY <1>37, InterruptedLeaves DEF HelperLost, Interrupted, Goto
<1>38. CASE UNCHANGED vars
  BY <1>38 DEF vars
<1>39. CASE StopProxyFails
  BY <1>39 DEF StopProxyFails, Fault
<1> QED BY <1>1, <1>2, <1>3, <1>4, <1>5, <1>6, <1>7, <1>8, <1>9, <1>10, <1>11,
      <1>12, <1>13, <1>14, <1>15, <1>16, <1>17, <1>18, <1>19, <1>20, <1>21,
      <1>22, <1>23, <1>24, <1>25, <1>26, <1>27, <1>28, <1>29, <1>30, <1>31,
      <1>32, <1>33, <1>34, <1>35, <1>36, <1>37, <1>38, <1>39 DEF Next, InstallSteps,
      UninstallSteps

\* Every step keeps what install has built so far: the account, the group,
\* the membership and the password.
LEMMA UsersStep ==
  ASSUME TypeOK, Calls, BuiltUsers, [Next]_vars
  PROVE  BuiltUsers'
<1> USE MaxRequestsIsNat, MaxFaultsIsNat DEF Calls, BuiltUsers, TypeOK, Sid,
        SidOrNone, Kind, Installing, Uninstalling, users, acls, machine,
        request, history
<1>1. CASE BeginInstall
  BY <1>1 DEF BeginInstall, Begin
<1>2. CASE BeginUninstall
  BY <1>2 DEF BeginUninstall, Begin
<1>3. CASE ListFails
  BY <1>3 DEF ListFails, Begin
<1>4. ASSUME NEW s \in Sandbox, DestroyOne(s) PROVE BuiltUsers'
  BY <1>4 DEF DestroyOne
<1>5. ASSUME NEW s \in Sandbox, DestroyFails(s) PROVE BuiltUsers'
  BY <1>5 DEF DestroyFails, Fault
<1>6. ASSUME NEW s \in Sandbox, CreateSandbox(s) PROVE BuiltUsers'
  BY <1>6 DEF CreateSandbox
<1>7. CASE AskCleanup
  BY <1>7 DEF AskCleanup
<1>8. CASE Refused
  BY <1>8 DEF Refused, Fault
<1>9. CASE ReadResult
  BY <1>9 DEF ReadResult
<1>10. CASE CommandLost
  BY <1>10 DEF CommandLost, Fault
<1>11. CASE StartSandbox
  BY <1>11 DEF StartSandbox
<1>12. CASE MakeUser
  BY <1>12 DEF MakeUser, Goto, Calm
<1>13. CASE MakeGroup
  BY <1>13 DEF MakeGroup, Goto, Calm
<1>14. CASE AddMember
  BY <1>14 DEF AddMember, Goto, Calm
<1>15. CASE TruncateCredentials
  BY <1>15 DEF TruncateCredentials, Goto, Calm
<1>16. CASE WriteCredentials
  BY <1>16 DEF WriteCredentials, Goto, Calm
<1>17. ASSUME NEW p \in RunnerPath, GrantPath(p) PROVE BuiltUsers'
  BY <1>17 DEF GrantPath, Calm
<1>18. CASE AccessGranted
  BY <1>18 DEF AccessGranted, Goto, Calm
<1>19. ASSUME NEW d \in SystemDir, LockDir(d) PROVE BuiltUsers'
  BY <1>19 DEF LockDir, Calm
<1>20. CASE DirsLocked
  BY <1>20 DEF DirsLocked, Goto, Calm
<1>21. ASSUME NEW k \in Kind, Unrule(k) PROVE BuiltUsers'
  BY <1>21 DEF Unrule, Calm
<1>22. ASSUME NEW k \in Kind, UnruleFails(k) PROVE BuiltUsers'
  BY <1>22 DEF UnruleFails, Fault
<1>23. CASE RulesCleared
  BY <1>23 DEF RulesCleared, Goto, Calm
<1>24. CASE AddBlockRule
  BY <1>24 DEF AddBlockRule, Goto, Calm
<1>25. CASE AddAllowRule
  BY <1>25 DEF AddAllowRule, Goto, Calm
<1>26. CASE RulesRemoved
  BY <1>26 DEF RulesRemoved, Goto, Calm
<1>27. ASSUME NEW p \in RunnerPath, RevokePath(p) PROVE BuiltUsers'
  BY <1>27 DEF RevokePath, Calm
<1>28. CASE AccessRevoked
  BY <1>28 DEF AccessRevoked, Goto, Calm
<1>29. ASSUME NEW d \in SystemDir, UnlockDir(d) PROVE BuiltUsers'
  BY <1>29 DEF UnlockDir, Calm
<1>30. CASE UnlockFails
  BY <1>30 DEF UnlockFails, Fault
<1>31. CASE DeleteProfile
  BY <1>31 DEF DeleteProfile, Goto, Calm
<1>32. CASE DeleteUser
  BY <1>32 DEF DeleteUser, Goto, Calm
<1>33. CASE DeleteGroup
  BY <1>33 DEF DeleteGroup, Goto, Calm
<1>34. CASE UnlinkCredentials
  BY <1>34 DEF UnlinkCredentials, Goto, Calm
<1>35. CASE Answer
  BY <1>35 DEF Answer, Goto
<1>36. CASE HelperFails
  BY <1>36 DEF HelperFails, Interrupted, Goto, Fault
<1>37. CASE HelperLost
  BY <1>37 DEF HelperLost, Interrupted, Goto, Fault
<1>38. CASE UNCHANGED vars
  BY <1>38 DEF vars
<1>39. CASE StopProxyFails
  BY <1>39 DEF StopProxyFails, Fault
<1> QED BY <1>1, <1>2, <1>3, <1>4, <1>5, <1>6, <1>7, <1>8, <1>9, <1>10, <1>11,
      <1>12, <1>13, <1>14, <1>15, <1>16, <1>17, <1>18, <1>19, <1>20, <1>21,
      <1>22, <1>23, <1>24, <1>25, <1>26, <1>27, <1>28, <1>29, <1>30, <1>31,
      <1>32, <1>33, <1>34, <1>35, <1>36, <1>37, <1>38, <1>39 DEF Next, InstallSteps,
      UninstallSteps

\* Every step keeps the access granted and the directories locked.
LEMMA AclsStep ==
  ASSUME TypeOK, Calls, BuiltAcls, [Next]_vars
  PROVE  BuiltAcls'
<1> USE MaxRequestsIsNat, MaxFaultsIsNat DEF Calls, BuiltAcls, TypeOK, Sid,
        SidOrNone, Kind, Installing, Uninstalling, users, acls, machine,
        request, history
<1>1. CASE BeginInstall
  BY <1>1 DEF BeginInstall, Begin
<1>2. CASE BeginUninstall
  BY <1>2 DEF BeginUninstall, Begin
<1>3. CASE ListFails
  BY <1>3 DEF ListFails, Begin
<1>4. ASSUME NEW s \in Sandbox, DestroyOne(s) PROVE BuiltAcls'
  BY <1>4 DEF DestroyOne
<1>5. ASSUME NEW s \in Sandbox, DestroyFails(s) PROVE BuiltAcls'
  BY <1>5 DEF DestroyFails, Fault
<1>6. ASSUME NEW s \in Sandbox, CreateSandbox(s) PROVE BuiltAcls'
  BY <1>6 DEF CreateSandbox
<1>7. CASE AskCleanup
  BY <1>7 DEF AskCleanup
<1>8. CASE Refused
  BY <1>8 DEF Refused, Fault
<1>9. CASE ReadResult
  BY <1>9 DEF ReadResult
<1>10. CASE CommandLost
  BY <1>10 DEF CommandLost, Fault
<1>11. CASE StartSandbox
  BY <1>11 DEF StartSandbox
<1>12. CASE MakeUser
  BY <1>12 DEF MakeUser, Goto, Calm
<1>13. CASE MakeGroup
  BY <1>13 DEF MakeGroup, Goto, Calm
<1>14. CASE AddMember
  BY <1>14 DEF AddMember, Goto, Calm
<1>15. CASE TruncateCredentials
  BY <1>15 DEF TruncateCredentials, Goto, Calm
<1>16. CASE WriteCredentials
  BY <1>16 DEF WriteCredentials, Goto, Calm
<1>17. ASSUME NEW p \in RunnerPath, GrantPath(p) PROVE BuiltAcls'
  BY <1>17 DEF GrantPath, Calm
<1>18. CASE AccessGranted
  BY <1>18 DEF AccessGranted, Goto, Calm
<1>19. ASSUME NEW d \in SystemDir, LockDir(d) PROVE BuiltAcls'
  BY <1>19 DEF LockDir, Calm
<1>20. CASE DirsLocked
  BY <1>20 DEF DirsLocked, Goto, Calm
<1>21. ASSUME NEW k \in Kind, Unrule(k) PROVE BuiltAcls'
  BY <1>21 DEF Unrule, Calm
<1>22. ASSUME NEW k \in Kind, UnruleFails(k) PROVE BuiltAcls'
  BY <1>22 DEF UnruleFails, Fault
<1>23. CASE RulesCleared
  BY <1>23 DEF RulesCleared, Goto, Calm
<1>24. CASE AddBlockRule
  BY <1>24 DEF AddBlockRule, Goto, Calm
<1>25. CASE AddAllowRule
  BY <1>25 DEF AddAllowRule, Goto, Calm
<1>26. CASE RulesRemoved
  BY <1>26 DEF RulesRemoved, Goto, Calm
<1>27. ASSUME NEW p \in RunnerPath, RevokePath(p) PROVE BuiltAcls'
  BY <1>27 DEF RevokePath, Calm
<1>28. CASE AccessRevoked
  BY <1>28 DEF AccessRevoked, Goto, Calm
<1>29. ASSUME NEW d \in SystemDir, UnlockDir(d) PROVE BuiltAcls'
  BY <1>29 DEF UnlockDir, Calm
<1>30. CASE UnlockFails
  BY <1>30 DEF UnlockFails, Fault
<1>31. CASE DeleteProfile
  BY <1>31 DEF DeleteProfile, Goto, Calm
<1>32. CASE DeleteUser
  BY <1>32 DEF DeleteUser, Goto, Calm
<1>33. CASE DeleteGroup
  BY <1>33 DEF DeleteGroup, Goto, Calm
<1>34. CASE UnlinkCredentials
  BY <1>34 DEF UnlinkCredentials, Goto, Calm
<1>35. CASE Answer
  BY <1>35 DEF Answer, Goto
<1>36. CASE HelperFails
  BY <1>36 DEF HelperFails, Interrupted, Goto, Fault
<1>37. CASE HelperLost
  BY <1>37 DEF HelperLost, Interrupted, Goto, Fault
<1>38. CASE UNCHANGED vars
  BY <1>38 DEF vars
<1>39. CASE StopProxyFails
  BY <1>39 DEF StopProxyFails, Fault
<1> QED BY <1>1, <1>2, <1>3, <1>4, <1>5, <1>6, <1>7, <1>8, <1>9, <1>10, <1>11,
      <1>12, <1>13, <1>14, <1>15, <1>16, <1>17, <1>18, <1>19, <1>20, <1>21,
      <1>22, <1>23, <1>24, <1>25, <1>26, <1>27, <1>28, <1>29, <1>30, <1>31,
      <1>32, <1>33, <1>34, <1>35, <1>36, <1>37, <1>38, <1>39 DEF Next, InstallSteps,
      UninstallSteps

\* Every step keeps the rules as far as they are added or removed.
LEMMA RulesStep ==
  ASSUME TypeOK, Calls, BuiltUsers, BuiltRules, [Next]_vars
  PROVE  BuiltRules'
<1> USE MaxRequestsIsNat, MaxFaultsIsNat DEF Calls, BuiltUsers, BuiltRules,
        NoRules, TypeOK, Sid, SidOrNone, Kind, Installing, Uninstalling, users,
        acls, machine, request, history
<1>1. CASE BeginInstall
  BY <1>1 DEF BeginInstall, Begin
<1>2. CASE BeginUninstall
  BY <1>2 DEF BeginUninstall, Begin
<1>3. CASE ListFails
  BY <1>3 DEF ListFails, Begin
<1>4. ASSUME NEW s \in Sandbox, DestroyOne(s) PROVE BuiltRules'
  BY <1>4 DEF DestroyOne
<1>5. ASSUME NEW s \in Sandbox, DestroyFails(s) PROVE BuiltRules'
  BY <1>5 DEF DestroyFails, Fault
<1>6. ASSUME NEW s \in Sandbox, CreateSandbox(s) PROVE BuiltRules'
  BY <1>6 DEF CreateSandbox
<1>7. CASE AskCleanup
  BY <1>7 DEF AskCleanup
<1>8. CASE Refused
  BY <1>8 DEF Refused, Fault
<1>9. CASE ReadResult
  BY <1>9 DEF ReadResult
<1>10. CASE CommandLost
  BY <1>10 DEF CommandLost, Fault
<1>11. CASE StartSandbox
  BY <1>11 DEF StartSandbox
<1>12. CASE MakeUser
  BY <1>12 DEF MakeUser, Goto, Calm
<1>13. CASE MakeGroup
  BY <1>13 DEF MakeGroup, Goto, Calm
<1>14. CASE AddMember
  BY <1>14 DEF AddMember, Goto, Calm
<1>15. CASE TruncateCredentials
  BY <1>15 DEF TruncateCredentials, Goto, Calm
<1>16. CASE WriteCredentials
  BY <1>16 DEF WriteCredentials, Goto, Calm
<1>17. ASSUME NEW p \in RunnerPath, GrantPath(p) PROVE BuiltRules'
  BY <1>17 DEF GrantPath, Calm
<1>18. CASE AccessGranted
  BY <1>18 DEF AccessGranted, Goto, Calm
<1>19. ASSUME NEW d \in SystemDir, LockDir(d) PROVE BuiltRules'
  BY <1>19 DEF LockDir, Calm
<1>20. CASE DirsLocked
  BY <1>20 DEF DirsLocked, Goto, Calm
<1>21. ASSUME NEW k \in Kind, Unrule(k) PROVE BuiltRules'
  BY <1>21 DEF Unrule, Calm
<1>22. ASSUME NEW k \in Kind, UnruleFails(k) PROVE BuiltRules'
  BY <1>22 DEF UnruleFails, Fault
<1>23. CASE RulesCleared
  BY <1>23 DEF RulesCleared, Goto, Calm
<1>24. CASE AddBlockRule
  <2>1. account \in Sid /\ helper' = "allow" /\ UNCHANGED <<account, quiet>>
    BY <1>24 DEF AddBlockRule, Goto, Calm
  <2>2. rules' = [rules EXCEPT !["block"][account] = rules["block"][account] + 1]
    BY <1>24 DEF AddBlockRule
  <2>3. rules'["block"][account] = rules["block"][account] + 1
    BY <2>1, <2>2
  <2>4. rules["block"][account] \in Nat
    BY <2>1
  <2>5. ~quiet => rules = NoRules /\ rules["block"][account] = 0
    BY <2>1, <1>24 DEF AddBlockRule
  <2>6. ~quiet => rules' = [NoRules EXCEPT !["block"][account] = 1]
    <3> SUFFICES ASSUME ~quiet
                 PROVE  rules' = [NoRules EXCEPT !["block"][account] = 1]
      OBVIOUS
    <3>1. rules = NoRules
      BY <2>5
    <3>2. rules["block"][account] + 1 = 1
      BY <2>5
    <3>3. rules' = [rules EXCEPT !["block"][account] = 1]
      BY <2>2, <3>2 DEF NoRules
    <3> HIDE DEF NoRules
    <3> QED BY <3>1, <3>3
  <2> QED BY <2>1, <2>3, <2>4, <2>6
<1>25. CASE AddAllowRule
  BY <1>25 DEF AddAllowRule, Goto, Calm
<1>26. CASE RulesRemoved
  BY <1>26 DEF RulesRemoved, Goto, Calm
<1>27. ASSUME NEW p \in RunnerPath, RevokePath(p) PROVE BuiltRules'
  BY <1>27 DEF RevokePath, Calm
<1>28. CASE AccessRevoked
  BY <1>28 DEF AccessRevoked, Goto, Calm
<1>29. ASSUME NEW d \in SystemDir, UnlockDir(d) PROVE BuiltRules'
  BY <1>29 DEF UnlockDir, Calm
<1>30. CASE UnlockFails
  BY <1>30 DEF UnlockFails, Fault
<1>31. CASE DeleteProfile
  BY <1>31 DEF DeleteProfile, Goto, Calm
<1>32. CASE DeleteUser
  BY <1>32 DEF DeleteUser, Goto, Calm
<1>33. CASE DeleteGroup
  BY <1>33 DEF DeleteGroup, Goto, Calm
<1>34. CASE UnlinkCredentials
  BY <1>34 DEF UnlinkCredentials, Goto, Calm
<1>35. CASE Answer
  BY <1>35 DEF Answer, Goto
<1>36. CASE HelperFails
  BY <1>36 DEF HelperFails, Interrupted, Goto, Fault
<1>37. CASE HelperLost
  BY <1>37 DEF HelperLost, Interrupted, Goto, Fault
<1>38. CASE UNCHANGED vars
  BY <1>38 DEF vars
<1>39. CASE StopProxyFails
  BY <1>39 DEF StopProxyFails, Fault
<1> QED BY <1>1, <1>2, <1>3, <1>4, <1>5, <1>6, <1>7, <1>8, <1>9, <1>10, <1>11,
      <1>12, <1>13, <1>14, <1>15, <1>16, <1>17, <1>18, <1>19, <1>20, <1>21,
      <1>22, <1>23, <1>24, <1>25, <1>26, <1>27, <1>28, <1>29, <1>30, <1>31,
      <1>32, <1>33, <1>34, <1>35, <1>36, <1>37, <1>38, <1>39 DEF Next, InstallSteps,
      UninstallSteps

\* Every step keeps uninstall ahead of the mounts.
LEMMA UnmountedStep ==
  ASSUME TypeOK, Calls, Unmounted, [Next]_vars
  PROVE  Unmounted'
<1> USE MaxRequestsIsNat, MaxFaultsIsNat DEF Calls, Unmounted, TypeOK, Sid,
        SidOrNone, Kind, Installing, Uninstalling, users, acls, machine,
        request, history
<1>1. CASE BeginInstall
  BY <1>1 DEF BeginInstall, Begin
<1>2. CASE BeginUninstall
  BY <1>2 DEF BeginUninstall, Begin
<1>3. CASE ListFails
  BY <1>3 DEF ListFails, Begin
<1>4. ASSUME NEW s \in Sandbox, DestroyOne(s) PROVE Unmounted'
  BY <1>4 DEF DestroyOne
<1>5. ASSUME NEW s \in Sandbox, DestroyFails(s) PROVE Unmounted'
  BY <1>5 DEF DestroyFails, Fault
<1>6. ASSUME NEW s \in Sandbox, CreateSandbox(s) PROVE Unmounted'
  BY <1>6 DEF CreateSandbox
<1>7. CASE AskCleanup
  BY <1>7 DEF AskCleanup
<1>8. CASE Refused
  BY <1>8 DEF Refused, Fault
<1>9. CASE ReadResult
  BY <1>9 DEF ReadResult
<1>10. CASE CommandLost
  BY <1>10 DEF CommandLost, Fault
<1>11. CASE StartSandbox
  BY <1>11 DEF StartSandbox
<1>12. CASE MakeUser
  BY <1>12 DEF MakeUser, Goto, Calm
<1>13. CASE MakeGroup
  BY <1>13 DEF MakeGroup, Goto, Calm
<1>14. CASE AddMember
  BY <1>14 DEF AddMember, Goto, Calm
<1>15. CASE TruncateCredentials
  BY <1>15 DEF TruncateCredentials, Goto, Calm
<1>16. CASE WriteCredentials
  BY <1>16 DEF WriteCredentials, Goto, Calm
<1>17. ASSUME NEW p \in RunnerPath, GrantPath(p) PROVE Unmounted'
  BY <1>17 DEF GrantPath, Calm
<1>18. CASE AccessGranted
  BY <1>18 DEF AccessGranted, Goto, Calm
<1>19. ASSUME NEW d \in SystemDir, LockDir(d) PROVE Unmounted'
  BY <1>19 DEF LockDir, Calm
<1>20. CASE DirsLocked
  BY <1>20 DEF DirsLocked, Goto, Calm
<1>21. ASSUME NEW k \in Kind, Unrule(k) PROVE Unmounted'
  BY <1>21 DEF Unrule, Calm
<1>22. ASSUME NEW k \in Kind, UnruleFails(k) PROVE Unmounted'
  BY <1>22 DEF UnruleFails, Fault
<1>23. CASE RulesCleared
  BY <1>23 DEF RulesCleared, Goto, Calm
<1>24. CASE AddBlockRule
  BY <1>24 DEF AddBlockRule, Goto, Calm
<1>25. CASE AddAllowRule
  BY <1>25 DEF AddAllowRule, Goto, Calm
<1>26. CASE RulesRemoved
  BY <1>26 DEF RulesRemoved, Goto, Calm
<1>27. ASSUME NEW p \in RunnerPath, RevokePath(p) PROVE Unmounted'
  BY <1>27 DEF RevokePath, Calm
<1>28. CASE AccessRevoked
  BY <1>28 DEF AccessRevoked, Goto, Calm
<1>29. ASSUME NEW d \in SystemDir, UnlockDir(d) PROVE Unmounted'
  BY <1>29 DEF UnlockDir, Calm
<1>30. CASE UnlockFails
  BY <1>30 DEF UnlockFails, Fault
<1>31. CASE DeleteProfile
  BY <1>31 DEF DeleteProfile, Goto, Calm
<1>32. CASE DeleteUser
  BY <1>32 DEF DeleteUser, Goto, Calm
<1>33. CASE DeleteGroup
  BY <1>33 DEF DeleteGroup, Goto, Calm
<1>34. CASE UnlinkCredentials
  BY <1>34 DEF UnlinkCredentials, Goto, Calm
<1>35. CASE Answer
  BY <1>35 DEF Answer, Goto
<1>36. CASE HelperFails
  BY <1>36 DEF HelperFails, Interrupted, Goto, Fault
<1>37. CASE HelperLost
  BY <1>37 DEF HelperLost, Interrupted, Goto, Fault
<1>38. CASE UNCHANGED vars
  BY <1>38 DEF vars
<1>39. CASE StopProxyFails
  BY <1>39 DEF StopProxyFails, Fault
<1> QED BY <1>1, <1>2, <1>3, <1>4, <1>5, <1>6, <1>7, <1>8, <1>9, <1>10, <1>11,
      <1>12, <1>13, <1>14, <1>15, <1>16, <1>17, <1>18, <1>19, <1>20, <1>21,
      <1>22, <1>23, <1>24, <1>25, <1>26, <1>27, <1>28, <1>29, <1>30, <1>31,
      <1>32, <1>33, <1>34, <1>35, <1>36, <1>37, <1>38, <1>39 DEF Next, InstallSteps,
      UninstallSteps

\* Every step keeps what uninstall has removed so far removed.
LEMMA CleanedStep ==
  ASSUME TypeOK, Calls, Owners, Unmounted, Cleaned, [Next]_vars
  PROVE  Cleaned'
<1> USE MaxRequestsIsNat, MaxFaultsIsNat DEF Calls, Owners, Unmounted, Cleaned,
        TypeOK, Sid, SidOrNone, Kind, Installing, Uninstalling, users, acls,
        machine, request, history
<1>1. CASE BeginInstall
  BY <1>1 DEF BeginInstall, Begin
<1>2. CASE BeginUninstall
  BY <1>2 DEF BeginUninstall, Begin
<1>3. CASE ListFails
  BY <1>3 DEF ListFails, Begin
<1>4. ASSUME NEW s \in Sandbox, DestroyOne(s) PROVE Cleaned'
  BY <1>4 DEF DestroyOne
<1>5. ASSUME NEW s \in Sandbox, DestroyFails(s) PROVE Cleaned'
  BY <1>5 DEF DestroyFails, Fault
<1>6. ASSUME NEW s \in Sandbox, CreateSandbox(s) PROVE Cleaned'
  BY <1>6 DEF CreateSandbox
<1>7. CASE AskCleanup
  BY <1>7 DEF AskCleanup
<1>8. CASE Refused
  BY <1>8 DEF Refused, Fault
<1>9. CASE ReadResult
  BY <1>9 DEF ReadResult
<1>10. CASE CommandLost
  BY <1>10 DEF CommandLost, Fault
<1>11. CASE StartSandbox
  BY <1>11 DEF StartSandbox
<1>12. CASE MakeUser
  BY <1>12 DEF MakeUser, Goto, Calm
<1>13. CASE MakeGroup
  BY <1>13 DEF MakeGroup, Goto, Calm
<1>14. CASE AddMember
  BY <1>14 DEF AddMember, Goto, Calm
<1>15. CASE TruncateCredentials
  BY <1>15 DEF TruncateCredentials, Goto, Calm
<1>16. CASE WriteCredentials
  BY <1>16 DEF WriteCredentials, Goto, Calm
<1>17. ASSUME NEW p \in RunnerPath, GrantPath(p) PROVE Cleaned'
  BY <1>17 DEF GrantPath, Calm
<1>18. CASE AccessGranted
  BY <1>18 DEF AccessGranted, Goto, Calm
<1>19. ASSUME NEW d \in SystemDir, LockDir(d) PROVE Cleaned'
  BY <1>19 DEF LockDir, Calm
<1>20. CASE DirsLocked
  BY <1>20 DEF DirsLocked, Goto, Calm
<1>21. ASSUME NEW k \in Kind, Unrule(k) PROVE Cleaned'
  BY <1>21 DEF Unrule, Calm
<1>22. ASSUME NEW k \in Kind, UnruleFails(k) PROVE Cleaned'
  BY <1>22 DEF UnruleFails, Fault
<1>23. CASE RulesCleared
  BY <1>23 DEF RulesCleared, Goto, Calm
<1>24. CASE AddBlockRule
  BY <1>24 DEF AddBlockRule, Goto, Calm
<1>25. CASE AddAllowRule
  BY <1>25 DEF AddAllowRule, Goto, Calm
<1>26. CASE RulesRemoved
  BY <1>26 DEF RulesRemoved, Goto, Calm
<1>27. ASSUME NEW p \in RunnerPath, RevokePath(p) PROVE Cleaned'
  BY <1>27 DEF RevokePath, Calm
<1>28. CASE AccessRevoked
  BY <1>28 DEF AccessRevoked, Goto, Calm
<1>29. ASSUME NEW d \in SystemDir, UnlockDir(d) PROVE Cleaned'
  BY <1>29 DEF UnlockDir, Calm
<1>30. CASE UnlockFails
  BY <1>30 DEF UnlockFails, Fault
<1>31. CASE DeleteProfile
  BY <1>31 DEF DeleteProfile, Goto, Calm
<1>32. CASE DeleteUser
  BY <1>32 DEF DeleteUser, Goto, Calm
<1>33. CASE DeleteGroup
  BY <1>33 DEF DeleteGroup, Goto, Calm
<1>34. CASE UnlinkCredentials
  BY <1>34 DEF UnlinkCredentials, Goto, Calm
<1>35. CASE Answer
  BY <1>35 DEF Answer, Goto
<1>36. CASE HelperFails
  BY <1>36 DEF HelperFails, Interrupted, Goto, Fault
<1>37. CASE HelperLost
  BY <1>37 DEF HelperLost, Interrupted, Goto, Fault
<1>38. CASE UNCHANGED vars
  BY <1>38 DEF vars
<1>39. CASE StopProxyFails
  BY <1>39 DEF StopProxyFails, Fault
<1> QED BY <1>1, <1>2, <1>3, <1>4, <1>5, <1>6, <1>7, <1>8, <1>9, <1>10, <1>11,
      <1>12, <1>13, <1>14, <1>15, <1>16, <1>17, <1>18, <1>19, <1>20, <1>21,
      <1>22, <1>23, <1>24, <1>25, <1>26, <1>27, <1>28, <1>29, <1>30, <1>31,
      <1>32, <1>33, <1>34, <1>35, <1>36, <1>37, <1>38, <1>39 DEF Next, InstallSteps,
      UninstallSteps

\* What a request has reported stays so until the next one.
LEMMA ReportsStep ==
  ASSUME IInv, [Next]_vars
  PROVE  Reports'
<1> USE MaxRequestsIsNat, MaxFaultsIsNat DEF IInv, Calls, Owners, BuiltUsers,
        BuiltAcls, BuiltRules, Unmounted, Cleaned, Reports, Success, Installed,
        Removed, CanStart, NoRules, TypeOK, Sid, SidOrNone, Kind, Installing,
        Uninstalling, users, acls, machine, request, history
<1>1. CASE BeginInstall
  BY <1>1 DEF BeginInstall, Begin
<1>2. CASE BeginUninstall
  BY <1>2 DEF BeginUninstall, Begin
<1>3. CASE ListFails
  BY <1>3 DEF ListFails, Begin
<1>4. ASSUME NEW s \in Sandbox, DestroyOne(s) PROVE Reports'
  BY <1>4 DEF DestroyOne
<1>5. ASSUME NEW s \in Sandbox, DestroyFails(s) PROVE Reports'
  BY <1>5 DEF DestroyFails, Fault
<1>6. ASSUME NEW s \in Sandbox, CreateSandbox(s) PROVE Reports'
  BY <1>6 DEF CreateSandbox
<1>7. CASE AskCleanup
  BY <1>7 DEF AskCleanup
<1>8. CASE Refused
  BY <1>8 DEF Refused, Fault
<1>9. CASE ReadResult
  BY <1>9 DEF ReadResult
<1>10. CASE CommandLost
  BY <1>10 DEF CommandLost, Fault
<1>11. CASE StartSandbox
  BY <1>11 DEF StartSandbox
<1>12. CASE MakeUser
  BY <1>12 DEF MakeUser, Goto, Calm
<1>13. CASE MakeGroup
  BY <1>13 DEF MakeGroup, Goto, Calm
<1>14. CASE AddMember
  BY <1>14 DEF AddMember, Goto, Calm
<1>15. CASE TruncateCredentials
  BY <1>15 DEF TruncateCredentials, Goto, Calm
<1>16. CASE WriteCredentials
  BY <1>16 DEF WriteCredentials, Goto, Calm
<1>17. ASSUME NEW p \in RunnerPath, GrantPath(p) PROVE Reports'
  BY <1>17 DEF GrantPath, Calm
<1>18. CASE AccessGranted
  BY <1>18 DEF AccessGranted, Goto, Calm
<1>19. ASSUME NEW d \in SystemDir, LockDir(d) PROVE Reports'
  BY <1>19 DEF LockDir, Calm
<1>20. CASE DirsLocked
  BY <1>20 DEF DirsLocked, Goto, Calm
<1>21. ASSUME NEW k \in Kind, Unrule(k) PROVE Reports'
  BY <1>21 DEF Unrule, Calm
<1>22. ASSUME NEW k \in Kind, UnruleFails(k) PROVE Reports'
  BY <1>22 DEF UnruleFails, Fault
<1>23. CASE RulesCleared
  BY <1>23 DEF RulesCleared, Goto, Calm
<1>24. CASE AddBlockRule
  BY <1>24 DEF AddBlockRule, Goto, Calm
<1>25. CASE AddAllowRule
  <2>1. /\ account \in Sid /\ helper' = "answer" /\ CanStart
        /\ UNCHANGED <<users, creds, access, deny, mounts, quiet, leftover, command, result,
                       last>>
    BY <1>25 DEF AddAllowRule, Goto, Calm
  <2>2. rules' = [rules EXCEPT !["allow"][account] = rules["allow"][account] + 1]
    BY <1>25 DEF AddAllowRule
  <2>3. rules["block"][account] >= 1 /\ rules["allow"][account] \in Nat
    BY <2>1, <1>25 DEF AddAllowRule
  <2>4. \A k \in Kind : rules'[k][account] >= 1
    BY <2>1, <2>2, <2>3
  <2>5. ~quiet => rules' = [k \in Kind |-> [NoRules[k] EXCEPT ![account] = 1]]
    <3> SUFFICES ASSUME ~quiet
                 PROVE  rules' = [k \in Kind |-> [NoRules[k] EXCEPT ![account] = 1]]
      OBVIOUS
    <3>1. rules = [NoRules EXCEPT !["block"][account] = 1]
      BY <1>25 DEF AddAllowRule
    <3>2. rules["allow"][account] = 0 /\ rules["allow"] = NoRules["allow"]
      BY <2>1, <3>1
    <3>3. rules'["allow"] = [NoRules["allow"] EXCEPT ![account] = 1]
      BY <2>1, <2>2, <3>2
    <3>4. rules'["block"] = [NoRules["block"] EXCEPT ![account] = 1]
      BY <2>1, <2>2, <3>1
    <3>5. rules' \in [Kind -> [Sid -> Nat]]
      BY <2>1, <2>2, <2>3
    <3> QED BY <3>3, <3>4, <3>5
  <2>6. command' \in {"idle", "install"} /\ last' = "none"
    BY <2>1, <1>25 DEF AddAllowRule
  <2>7. \A d \in SystemDir : group \in deny[d]
    BY <1>25 DEF AddAllowRule
  <2>8. Installed'
    BY <2>1, <2>4, <2>5, <2>7, <1>25 DEF AddAllowRule
  <2> QED BY <2>6, <2>8
<1>26. CASE RulesRemoved
  BY <1>26 DEF RulesRemoved, Goto, Calm
<1>27. ASSUME NEW p \in RunnerPath, RevokePath(p) PROVE Reports'
  BY <1>27 DEF RevokePath, Calm
<1>28. CASE AccessRevoked
  BY <1>28 DEF AccessRevoked, Goto, Calm
<1>29. ASSUME NEW d \in SystemDir, UnlockDir(d) PROVE Reports'
  BY <1>29 DEF UnlockDir, Calm
<1>30. CASE UnlockFails
  BY <1>30 DEF UnlockFails, Fault
<1>31. CASE DeleteProfile
  BY <1>31 DEF DeleteProfile, Goto, Calm
<1>32. CASE DeleteUser
  BY <1>32 DEF DeleteUser, Goto, Calm
<1>33. CASE DeleteGroup
  BY <1>33 DEF DeleteGroup, Goto, Calm
<1>34. CASE UnlinkCredentials
  BY <1>34 DEF UnlinkCredentials, Goto, Calm
<1>35. CASE Answer
  BY <1>35 DEF Answer, Goto
<1>36. CASE HelperFails
  BY <1>36 DEF HelperFails, Interrupted, Goto, Fault
<1>37. CASE HelperLost
  BY <1>37 DEF HelperLost, Interrupted, Goto, Fault
<1>38. CASE UNCHANGED vars
  BY <1>38 DEF vars
<1>39. CASE StopProxyFails
  BY <1>39 DEF StopProxyFails, Fault
<1> QED BY <1>1, <1>2, <1>3, <1>4, <1>5, <1>6, <1>7, <1>8, <1>9, <1>10, <1>11,
      <1>12, <1>13, <1>14, <1>15, <1>16, <1>17, <1>18, <1>19, <1>20, <1>21,
      <1>22, <1>23, <1>24, <1>25, <1>26, <1>27, <1>28, <1>29, <1>30, <1>31,
      <1>32, <1>33, <1>34, <1>35, <1>36, <1>37, <1>38, <1>39 DEF Next, InstallSteps,
      UninstallSteps

-----------------------------------------------------------------------------
(* The theorems *)

LEMMA InvInit == Init => IInv
<1> SUFFICES ASSUME Init PROVE IInv
  OBVIOUS
<1>1. TypeOK
  <2>1. member \in BOOLEAN /\ failed \in BOOLEAN /\ quiet \in BOOLEAN /\ leftover \in BOOLEAN
    BY Zenon DEF Init
  <2>2. sids \in 0..(2 * MaxRequests) /\ requests \in 0..MaxRequests /\ faults \in 0..MaxFaults
        /\ password \in 0..MaxRequests
    BY MaxRequestsIsNat, MaxFaultsIsNat DEF Init
  <2> QED BY <2>1, <2>2 DEF Init, TypeOK, NoRules, SidOrNone, Kind
<1>2. Calls /\ SidsLeft /\ Owners /\ Unmounted /\ Cleaned
  BY DEF Init, Calls, FailsOnlyByFault, SidsLeft, Owners, Unmounted, Cleaned, Uninstalling
<1>3. BuiltUsers /\ BuiltAcls /\ BuiltRules /\ Reports
  BY DEF Init, BuiltUsers, BuiltAcls, BuiltRules, Reports, Success, Installing, Uninstalling
<1> QED BY <1>1, <1>2, <1>3 DEF IInv

\* The invariant that carries the other theorems.
THEOREM Inductive == Spec => []IInv
<1>1. IInv /\ [Next]_vars => IInv'
  <2> SUFFICES ASSUME IInv, [Next]_vars PROVE IInv'
    OBVIOUS
  <2>1. (TypeOK /\ Calls /\ SidsLeft /\ Owners)'
    BY TypeStep, CallsStep, OwnersStep DEF IInv
  <2>2. (BuiltUsers /\ BuiltAcls /\ BuiltRules)'
    BY UsersStep, AclsStep, RulesStep DEF IInv
  <2>3. (Unmounted /\ Cleaned /\ Reports)'
    BY UnmountedStep, CleanedStep, ReportsStep DEF IInv
  <2> QED BY <2>1, <2>2, <2>3 DEF IInv
<1> QED BY InvInit, <1>1, PTL DEF Spec

\* The types hold for every number of requests, directories and sandboxes.
THEOREM Types == Spec => []TypeOK
<1>1. IInv => TypeOK
  BY DEF IInv
<1> QED BY Inductive, <1>1, PTL

\* Only a call of the request itself can make it fail, never what earlier
\* requests left behind (identity.py:66-83, 139-152, elevation.py:165-168).
THEOREM RetryHelps == Spec => []FailsOnlyByFault
<1>1. IInv => FailsOnlyByFault
  BY DEF IInv, Calls
<1> QED BY Inductive, <1>1, PTL

\* An install that reports success is complete (elevation.py:113-118).
THEOREM SuccessMeansInstalled == Spec => []InstalledWorks
<1>1. IInv => InstalledWorks
  BY DEF IInv, Reports, InstalledWorks
<1> QED BY Inductive, <1>1, PTL

\* An uninstall that reports success has left nothing (elevation.py:162-170).
THEOREM SuccessMeansRemoved == Spec => []UninstalledClean
<1>1. IInv => UninstalledClean
  BY DEF IInv, Reports, UninstalledClean
<1> QED BY Inductive, <1>1, PTL
=============================================================================
