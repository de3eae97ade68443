------------------------------- MODULE Install -------------------------------
(***************************************************************************)
(* sbx install and sbx uninstall (sbx/engine.py, sbx/identity.py, the      *)
(* firewall rules of sbx/network.py), carried out by an elevated helper    *)
(* (sbx/elevation.py) that can fail at every call and be lost between any  *)
(* two, so that each request finds whatever the ones before it left.       *)
(*                                                                         *)
(* An account or a group is its SID: a new one every time it is created,   *)
(* 0 when there is none.  A password is the number of the request that     *)
(* chose it.  A sandbox is the group SID its mounts grant (Mounts).  The   *)
(* user waits for a request and its helper before the next one.            *)
(***************************************************************************)
EXTENDS Integers

CONSTANTS RunnerPath,   \* the directories runner_paths() names
          SystemDir,    \* the directories system_writable_dirs() names
          Sandbox,
          MaxRequests,  \* bound: install and uninstall commands
          MaxFaults     \* how many calls may fail or processes be lost

ASSUME MaxRequestsIsNat == MaxRequests \in Nat
ASSUME MaxFaultsIsNat == MaxFaults \in Nat

VARIABLES
    account,   \* sbx-user
    password,  \* its password
    group,     \* sbx-users
    member,    \* sbx-user is in sbx-users
    creds,     \* the password in credentials.json, or NoFile, or Torn
    access,    \* for each runner path, the accounts granted read+execute
    deny,      \* for each system directory, the groups denied creating in it
    rules,     \* how many firewall rules of each kind name each account
    profiles,  \* accounts that have a profile directory
    mounts,    \* each sandbox's group ACE, 0 without a sandbox
    sids,      \* SIDs given out so far
    requests,  \* requests so far
    command,   \* where the command stands
    helper,    \* where the elevated helper stands
    todo,      \* what the loop it is in has still to do
    result,    \* the result file
    last,      \* how the last request ended
    failed,    \* a call of it failed, or its helper was lost
    quiet,     \* history: a failure was swallowed by the helper
    leftover,  \* history: uninstall went on past a sandbox it did not destroy
    faults

users == <<account, password, group, member>>
acls == <<access, deny, rules, profiles>>
machine == <<users, creds, acls, mounts, sids>>
request == <<requests, command, result, last>>
history == <<failed, quiet, leftover, faults>>
vars == <<machine, request, helper, todo, history>>

NoFile == -1
Torn == 0
Kind == {"block", "allow"}

\* Every request creates at most one account and one group.
Sid == 1..(2 * MaxRequests)
SidOrNone == Sid \cup {0}

Installing == {"user", "group", "member", "store", "storing", "access", "lock",
               "unrule", "block", "allow"}
Uninstalling == {"un_rules", "un_access", "un_lock", "un_user", "un_group", "un_creds"}

TypeOK ==
    /\ account \in SidOrNone
    /\ password \in 0..MaxRequests
    /\ group \in SidOrNone
    /\ member \in BOOLEAN
    /\ creds \in {NoFile, Torn} \cup (1..MaxRequests)
    /\ access \in [RunnerPath -> SUBSET Sid]
    /\ deny \in [SystemDir -> SUBSET Sid]
    /\ rules \in [Kind -> [Sid -> Nat]]
    /\ profiles \in SUBSET Sid
    /\ mounts \in [Sandbox -> SidOrNone]
    /\ sids \in 0..(2 * MaxRequests)
    /\ requests \in 0..MaxRequests
    /\ command \in {"idle", "destroying", "install", "uninstall"}
    /\ helper \in Installing \cup Uninstalling \cup {"answer", "gone"}
    /\ todo \in SUBSET (RunnerPath \cup SystemDir \cup Sandbox \cup Kind)
    /\ result \in {"empty", "ok", "error"}
    /\ last \in {"none", "installed", "uninstalled", "error"}
    /\ failed \in BOOLEAN
    /\ quiet \in BOOLEAN
    /\ leftover \in BOOLEAN
    /\ faults \in 0..MaxFaults

NoRules == [k \in Kind |-> [s \in Sid |-> 0]]

Init ==
    /\ account = 0 /\ password = 0 /\ group = 0 /\ member = FALSE
    /\ creds = NoFile
    /\ access = [p \in RunnerPath |-> {}]
    /\ deny = [d \in SystemDir |-> {}]
    /\ rules = NoRules
    /\ profiles = {}
    /\ mounts = [s \in Sandbox |-> 0]
    /\ sids = 0 /\ requests = 0
    /\ command = "idle" /\ helper = "gone" /\ todo = {}
    /\ result = "empty" /\ last = "none"
    /\ failed = FALSE /\ quiet = FALSE /\ leftover = FALSE /\ faults = 0

Fault == faults < MaxFaults /\ faults' = faults + 1

-----------------------------------------------------------------------------
(* The commands *)

\* What create_process_with_logon needs (process.py:181, 204-208): readable
\* credentials that are the account's and access to python and to sbx.
CanStart ==
    /\ account # 0 /\ creds = password
    /\ \A p \in RunnerPath : account \in access[p]

Begin(c) ==
    /\ command = "idle" /\ helper = "gone"
    /\ requests < MaxRequests
    /\ requests' = requests + 1
    /\ command' = c
    /\ result' = "empty" /\ last' = "none"
    /\ failed' = FALSE
    /\ UNCHANGED <<machine, quiet, faults>>

\* Engine.install (engine.py:33-34): run_elevated writes the two files and
\* launches the helper (elevation.py:31-41).
BeginInstall ==
    /\ Begin("install")
    /\ helper' = "user"
    /\ UNCHANGED <<todo, leftover>>

\* Engine.uninstall lists the sandboxes (engine.py:211).
BeginUninstall ==
    /\ Begin("destroying")
    /\ todo' = {s \in Sandbox : mounts[s] # 0}
    /\ UNCHANGED <<helper, leftover>>

\* ... and sees none while sandboxes.json cannot be read (store.py:130-135).
ListFails ==
    /\ Begin("destroying")
    /\ todo' = {}
    /\ leftover' = (leftover \/ \E s \in Sandbox : mounts[s] # 0)
    /\ UNCHANGED helper

\* self.destroy (213), in a helper of its own (Mounts, Lifecycle), which has to
\* find the group whose ACE it takes away (mounts.py:129-130, 150-155).
DestroyOne(s) ==
    /\ command = "destroying"
    /\ s \in todo
    /\ group # 0
    /\ todo' = todo \ {s}
    /\ mounts' = [mounts EXCEPT ![s] = 0]
    /\ UNCHANGED <<users, creds, acls, sids, request, helper, history>>

\* ... fails, always without a group, which is only logged (214-215).
DestroyFails(s) ==
    /\ command = "destroying"
    /\ s \in todo
    /\ \/ group = 0 /\ UNCHANGED faults
       \/ Fault
    /\ todo' = todo \ {s}
    /\ leftover' = TRUE
    /\ UNCHANGED <<machine, request, helper, failed, quiet>>

\* stop_proxy raises (218; network.py:161-183): the command ends with it, before
\* it asks for anything.
StopProxyFails ==
    /\ command = "destroying"
    /\ todo = {}
    /\ Fault
    /\ command' = "idle"
    /\ last' = "error"
    /\ failed' = TRUE
    /\ UNCHANGED <<machine, requests, result, helper, todo, quiet, leftover>>

\* stop_proxy (ProxyProcess), then run_elevated (218-219)
AskCleanup ==
    /\ command = "destroying"
    /\ todo = {}
    /\ command' = "uninstall"
    /\ helper' = "un_rules"
    /\ todo' = Kind
    /\ UNCHANGED <<machine, requests, result, last, history>>

\* The user refuses the prompt: ShellExecuteEx fails (elevation.py:41).
Refused ==
    /\ helper \in {"user", "un_rules"} /\ command # "idle" /\ result = "empty"
    /\ helper = "un_rules" => todo = Kind
    /\ Fault
    /\ helper' = "gone"
    /\ todo' = {}
    /\ failed' = TRUE
    /\ UNCHANGED <<machine, request, quiet, leftover>>

\* Mutant: an empty result file is a success.
ReadResultEmpty ==
    /\ command \in {"install", "uninstall"}
    /\ helper = "gone"
    /\ last' = IF result = "error" THEN "error"
               ELSE IF command = "install" THEN "installed" ELSE "uninstalled"
    /\ command' = "idle"
    /\ UNCHANGED <<machine, requests, result, helper, todo, history>>

\* The helper has ended and its result is read (42-56): nothing in the file is
\* an error too.
ReadResult ==
    /\ command \in {"install", "uninstall"}
    /\ helper = "gone"
    /\ last' = IF result # "ok" THEN "error"
               ELSE IF command = "install" THEN "installed" ELSE "uninstalled"
    /\ command' = "idle"
    /\ UNCHANGED <<machine, requests, result, helper, todo, history>>

\* The command is killed; its helper, another user's process, goes on.
CommandLost ==
    /\ command # "idle"
    /\ Fault
    /\ command' = "idle"
    /\ todo' = IF command = "destroying" THEN {} ELSE todo
    /\ UNCHANGED <<machine, requests, result, last, helper, failed, quiet, leftover>>

\* Between requests the user creates sandboxes.
CreateSandbox(s) ==
    /\ command = "idle" /\ helper = "gone"
    /\ group # 0 /\ mounts[s] = 0
    /\ mounts' = [mounts EXCEPT ![s] = group]
    /\ UNCHANGED <<users, creds, acls, sids, request, helper, todo, history>>

\* ... and starts them: the first logon of the account makes its profile, whether
\* or not python can then be started (winapi.py:1218-1220).
StartSandbox ==
    /\ account # 0 /\ creds = password
    /\ account \notin profiles
    /\ \E s \in Sandbox : mounts[s] # 0
    /\ profiles' = profiles \cup {account}
    /\ UNCHANGED <<users, creds, access, deny, rules, mounts, sids, request, helper, todo,
                   history>>

-----------------------------------------------------------------------------
(* The helper: install (elevation.py:102-118, identity.py:66-127) *)

Goto(label) == helper' = label
Calm == UNCHANGED <<request, history>>

\* NetUserAdd, or NetUserSetInfo if there is an account (identity.py:67-77)
MakeUser ==
    /\ helper = "user"
    /\ IF account = 0
       THEN account' = sids + 1 /\ sids' = sids + 1
       ELSE UNCHANGED <<account, sids>>
    /\ password' = requests
    /\ Goto("group")
    /\ UNCHANGED <<group, member, creds, acls, mounts, todo>> /\ Calm

\* Mutant: nothing makes the group.
MakeGroupNever ==
    /\ helper = "group"
    /\ Goto("member")
    /\ UNCHANGED <<users, creds, acls, mounts, sids, todo>> /\ Calm

\* Mutant: the group is made anew every time.
MakeGroupAnew ==
    /\ helper = "group"
    /\ group' = sids + 1 /\ sids' = sids + 1
    /\ Goto("member")
    /\ UNCHANGED <<account, password, member, creds, acls, mounts, todo>> /\ Calm

\* create_local_group, a no-op if it exists (79)
MakeGroup ==
    /\ helper = "group"
    /\ IF group = 0
       THEN group' = sids + 1 /\ sids' = sids + 1
       ELSE UNCHANGED <<group, sids>>
    /\ Goto("member")
    /\ UNCHANGED <<account, password, member, creds, acls, mounts, todo>> /\ Calm

\* add_local_group_member (80)
AddMember ==
    /\ helper = "member"
    /\ member' = TRUE
    /\ Goto("store")
    /\ UNCHANGED <<account, password, group, creds, acls, mounts, sids, todo>> /\ Calm

\* write_bytes of store_credentials (50): the file is truncated, then written.
TruncateCredentials ==
    /\ helper = "store"
    /\ creds' = Torn
    /\ Goto("storing")
    /\ UNCHANGED <<users, acls, mounts, sids, todo>> /\ Calm

WriteCredentials ==
    /\ helper = "storing"
    /\ creds' = requests
    /\ Goto("access")
    /\ todo' = RunnerPath
    /\ UNCHANGED <<users, acls, mounts, sids>> /\ Calm

\* grant_runner_access (94-111): one path, or the end of the loop
GrantPath(p) ==
    /\ helper = "access"
    /\ p \in todo
    /\ access' = [access EXCEPT ![p] = @ \cup {account}]
    /\ todo' = todo \ {p}
    /\ UNCHANGED <<users, creds, deny, rules, profiles, mounts, sids, helper>> /\ Calm

AccessGranted ==
    /\ helper = "access" /\ todo = {}
    /\ Goto("lock")
    /\ todo' = SystemDir
    /\ UNCHANGED machine /\ Calm

\* lock_system_dirs (118-127) takes the ACEs of the group from a directory and
\* denies it creating there.
LockDir(d) ==
    /\ helper = "lock"
    /\ d \in todo
    /\ deny' = [deny EXCEPT ![d] = @ \cup {group}]
    /\ todo' = todo \ {d}
    /\ UNCHANGED <<users, creds, access, rules, profiles, mounts, sids, helper>> /\ Calm

DirsLocked ==
    /\ helper = "lock" /\ todo = {}
    /\ Goto("unrule")
    /\ todo' = Kind
    /\ UNCHANGED machine /\ Calm

\* Remove-NetFirewallRule by name (network.py:68-75) takes every rule of a
\* kind; what makes it fail is not looked at.
Unrule(k) ==
    /\ helper \in {"unrule", "un_rules"}
    /\ k \in todo
    /\ todo' = todo \ {k}
    /\ rules' = [rules EXCEPT ![k] = NoRules[k]]
    /\ UNCHANGED <<users, creds, access, deny, profiles, mounts, sids, helper>> /\ Calm

UnruleFails(k) ==
    /\ helper \in {"unrule", "un_rules"}
    /\ k \in todo
    /\ todo' = todo \ {k}
    /\ Fault
    /\ quiet' = TRUE
    /\ UNCHANGED <<machine, request, helper, failed, leftover>>

RulesCleared ==
    /\ helper = "unrule" /\ todo = {}
    /\ Goto("block")
    /\ UNCHANGED <<machine, todo>> /\ Calm

\* New-NetFirewallRule: the block rule (32-38), then the allow rule (40-49)
AddBlockRule ==
    /\ helper = "block"
    /\ rules' = [rules EXCEPT !["block"][account] = @ + 1]
    /\ Goto("allow")
    /\ UNCHANGED <<users, creds, access, deny, profiles, mounts, sids, todo>> /\ Calm

AddAllowRule ==
    /\ helper = "allow"
    /\ rules' = [rules EXCEPT !["allow"][account] = @ + 1]
    /\ Goto("answer")
    /\ UNCHANGED <<users, creds, access, deny, profiles, mounts, sids, todo>> /\ Calm

-----------------------------------------------------------------------------
(* The helper: uninstall (elevation.py:155-170, identity.py:130-152) *)

\* The account, if there is one, loses its access to each path (163-164).
RulesRemoved ==
    /\ helper = "un_rules" /\ todo = {}
    /\ Goto("un_access")
    /\ todo' = IF account = 0 THEN {} ELSE RunnerPath
    /\ UNCHANGED machine /\ Calm

RevokePath(p) ==
    /\ helper = "un_access"
    /\ p \in todo
    /\ access' = [access EXCEPT ![p] = @ \ {account}]
    /\ todo' = todo \ {p}
    /\ UNCHANGED <<users, creds, deny, rules, profiles, mounts, sids, helper>> /\ Calm

\* Mutant: unlocking without a group raises instead of being passed over.
AccessRevokedNeedsGroup ==
    /\ helper = "un_access" /\ todo = {}
    /\ Goto(IF group = 0 THEN "gone" ELSE "un_lock")
    /\ todo' = SystemDir
    /\ UNCHANGED machine /\ Calm

\* unlock_system_dirs; account_sid of a group that is gone raises, and that
\* is passed over (165-168).
AccessRevoked ==
    /\ helper = "un_access" /\ todo = {}
    /\ Goto("un_lock")
    /\ todo' = IF group = 0 THEN {} ELSE SystemDir
    /\ UNCHANGED machine /\ Calm

UnlockDir(d) ==
    /\ helper = "un_lock"
    /\ d \in todo
    /\ deny' = [deny EXCEPT ![d] = @ \ {group}]
    /\ todo' = todo \ {d}
    /\ UNCHANGED <<users, creds, access, rules, profiles, mounts, sids, helper>> /\ Calm

\* A directory that refuses ends the loop, and is passed over in the same way.
UnlockFails ==
    /\ helper = "un_lock" /\ todo # {}
    /\ Fault
    /\ quiet' = TRUE
    /\ todo' = {}
    /\ UNCHANGED <<machine, request, helper, failed, leftover>>

\* uninstall_user: the profile of the account, if there is one
\* (identity.py:141-143)
DeleteProfile ==
    /\ helper = "un_lock" /\ todo = {}
    /\ profiles' = profiles \ {account}
    /\ Goto("un_user")
    /\ UNCHANGED <<users, creds, access, deny, rules, mounts, sids, todo>> /\ Calm

\* delete_user, if it exists (144); its membership goes with it
DeleteUser ==
    /\ helper = "un_user"
    /\ account' = 0 /\ member' = FALSE
    /\ Goto("un_group")
    /\ UNCHANGED <<password, group, creds, acls, mounts, sids, todo>> /\ Calm

\* delete_local_group, if it exists (147)
DeleteGroup ==
    /\ helper = "un_group"
    /\ group' = 0 /\ member' = FALSE
    /\ Goto("un_creds")
    /\ UNCHANGED <<account, password, creds, acls, mounts, sids, todo>> /\ Calm

\* creds_path.unlink(), if it exists (149-151)
UnlinkCredentials ==
    /\ helper = "un_creds"
    /\ creds' = NoFile
    /\ Goto("answer")
    /\ UNCHANGED <<users, acls, mounts, sids, todo>> /\ Calm

-----------------------------------------------------------------------------
(* How a helper ends (elevation.py:59-77) *)

Answer ==
    /\ helper = "answer"
    /\ result' = "ok"
    /\ Goto("gone")
    /\ UNCHANGED <<machine, requests, command, last, todo, history>>

\* What a helper in the middle of its work leaves: while it locks a directory
\* the old ACEs of the group may be gone already.
Interrupted ==
    /\ helper # "gone"
    /\ Fault
    /\ \/ UNCHANGED deny
       \/ helper = "lock" /\ \E d \in todo : deny' = [deny EXCEPT ![d] = @ \ {group}]
    /\ Goto("gone")
    /\ todo' = {}
    /\ failed' = TRUE
    /\ UNCHANGED <<users, creds, access, rules, profiles, mounts, sids, requests, command,
                   last, quiet, leftover>>

\* A call raises: the exception is the result (74-77).  Removing rules and
\* unlocking never raise.
HelperFails ==
    /\ helper \notin {"answer", "unrule", "un_rules"}
    /\ helper = "un_lock" => todo = {}
    /\ result' = "error"
    /\ Interrupted

\* The helper is lost, or its result cannot be written: the file stays empty.
HelperLost ==
    /\ UNCHANGED result
    /\ Interrupted

InstallSteps ==
    \/ MakeUser \/ MakeGroup \/ AddMember \/ TruncateCredentials \/ WriteCredentials
    \/ (\E p \in RunnerPath : GrantPath(p)) \/ AccessGranted
    \/ (\E d \in SystemDir : LockDir(d)) \/ DirsLocked
    \/ RulesCleared \/ AddBlockRule \/ AddAllowRule

UninstallSteps ==
    \/ RulesRemoved
    \/ (\E p \in RunnerPath : RevokePath(p)) \/ AccessRevoked
    \/ (\E d \in SystemDir : UnlockDir(d)) \/ UnlockFails
    \/ DeleteProfile \/ DeleteUser \/ DeleteGroup \/ UnlinkCredentials

Next ==
    \/ BeginInstall \/ BeginUninstall \/ ListFails
    \/ (\E s \in Sandbox : DestroyOne(s) \/ DestroyFails(s) \/ CreateSandbox(s))
    \/ StopProxyFails \/ AskCleanup \/ Refused \/ ReadResult \/ CommandLost
    \/ StartSandbox
    \/ InstallSteps
    \/ (\E k \in Kind : Unrule(k) \/ UnruleFails(k))
    \/ UninstallSteps
    \/ Answer \/ HelperFails \/ HelperLost

Spec == Init /\ [][Next]_vars

-----------------------------------------------------------------------------
(* Properties *)

\* What install is to leave: everything is there, and names the account and the
\* group there are now.
Installed ==
    /\ CanStart /\ group # 0 /\ member
    /\ \A d \in SystemDir : group \in deny[d]
    /\ \A k \in Kind : rules[k][account] >= 1
    /\ ~quiet => rules = [k \in Kind |-> [NoRules[k] EXCEPT ![account] = 1]]
    /\ ~leftover => \A s \in Sandbox : mounts[s] \in {0, group}

\* What uninstall is to leave: nothing, of any account or group there ever was,
\* except what it could not remove and passed over.
Removed ==
    /\ account = 0 /\ group = 0 /\ creds = NoFile
    /\ \A p \in RunnerPath : access[p] = {}
    /\ ~quiet => rules = NoRules /\ \A d \in SystemDir : deny[d] = {}
    /\ ~leftover => profiles = {} /\ \A s \in Sandbox : mounts[s] = 0

\* An install that reports success works, whatever half-done installs and
\* uninstalls went before it, and the sandboxes made before it work on, unless
\* uninstall had left them behind (specs/spec.md:30, specs/tests.md:40-41).
InstalledWorks == last = "installed" => Installed

\* An uninstall that reports success has removed everything, also what requests
\* that failed had made (specs/spec.md:36, specs/tests.md:46).
UninstalledClean == last = "uninstalled" => Removed

\* No state that requests can leave behind makes the next one fail: an error
\* means that a call of this very request failed, so trying again helps.
FailsOnlyByFault == last = "error" => failed
=============================================================================
