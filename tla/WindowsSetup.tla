---------------------------- MODULE WindowsSetup ----------------------------
(* The native Windows helper (src/internal/update/setup_windows.go): it puts  *)
(* a complete package into the installation directory, registers the service  *)
(* for its owner, prepares the dedicated TAP adapter and takes all of it      *)
(* away.  One operation runs at a time (update.lock, then install.lock); it   *)
(* may fail at any step and the machine may lose power between two of them.   *)
EXTENDS Naturals, Sequences

CONSTANTS
  User,         \* Windows accounts that run the client or the installer
  MaxVersion,   \* bound: package versions 1..MaxVersion
  Nobody,       \* what an owner.sid without content names
  TornWrites,   \* whether the helper may stop inside a write that is not atomic
  MaxAdapters,  \* bound: network adapters ever created, by anybody
  MaxFaults     \* bound: failed steps and power losses

VARIABLES
  files,       \* the installed version of every file, 0 where it is missing
  registered,  \* the service exists (it starts with Windows)
  running,     \* the version of the running service, 0 for none
  owner,       \* owner.sid: the accounts stored there, at most one
  adapters,    \* every adapter ever created, by its number (its GUID)
  record,      \* tap.guid: the adapters recorded there, at most one
  op,          \* the operation that holds the locks
  faults

vars == <<files, registered, running, owner, adapters, record, op, faults>>

Version == 1..MaxVersion
Adapter == 1..MaxAdapters
(* overwriteBundle sorts the names: BUILD.txt, which the next setup reads the *)
(* version from, is the first file to be replaced.                            *)
Order == <<"BUILD.txt", "drivers", "nlroom-service.exe">>
File == {Order[i] : i \in 1..Len(Order)}
Idle == [what |-> "none", at |-> "none", user |-> {}, version |-> 0, purge |-> FALSE, next |-> 0, made |-> 0]
Setup(u, v) == [Idle EXCEPT !.what = "setup", !.at = "stop", !.user = {u}, !.version = v]
Removal(purge) == [Idle EXCEPT !.what = "remove", !.at = "stop", !.purge = purge]
Whole(fs, v) == \A f \in File : fs[f] = v
Live(as, g) == g \in 1..Len(as) /\ as[g].state = "live"
(* installedTAP: the adapters that are present under the dedicated name.      *)
Present == {g \in 1..Len(adapters) : Live(adapters, g) /\ adapters[g].named}
Gone(g) == [adapters EXCEPT ![g].state = "gone"]
(* verifyTAPFiles: tapctl and the driver stand in the directory, as signed.   *)
DriverFiles == files["drivers"] # 0
(* removeAutostart finds the owner's registry by the account owner.sid names. *)
OwnerReadable == owner # {Nobody}

Init ==
  /\ files = [f \in File |-> 0]
  /\ registered = FALSE
  /\ running = 0
  /\ owner = {}
  /\ adapters = <<>>
  /\ record = {}
  /\ op = Idle
  /\ faults = 0

(* The checks of runWindowsSetup before it stops anything: only the stored    *)
(* owner may install, never an older version than BUILD.txt names, and never  *)
(* over a service whose owner is not stored.  A managed update installs for   *)
(* the stored owner.                                                          *)
NotOlder(v) == files["BUILD.txt"] <= v
Accepts(u, v) == owner \subseteq {u} /\ NotOlder(v) /\ (registered => owner # {})

BeginSetup(u, v) ==
  /\ op = Idle
  /\ Accepts(u, v)
  /\ op' = Setup(u, v)
  /\ UNCHANGED <<files, registered, running, owner, adapters, record, faults>>

BeginRemove(purge) ==
  /\ op = Idle
  /\ op' = Removal(purge)
  /\ UNCHANGED <<files, registered, running, owner, adapters, record, faults>>

(* stop: the desktop client and the service have exited.                      *)
Stop ==
  /\ op.at = "stop"
  /\ running' = 0
  /\ op' = [op EXCEPT !.at = IF op.what = "setup" THEN "copy" ELSE "adapter", !.next = 1]
  /\ UNCHANGED <<files, registered, owner, adapters, record, faults>>

(* copyBundleFile: the verified copy takes the place of the file at once.     *)
NextFile == Order[op.next]
Copy ==
  /\ op.at = "copy"
  /\ files' = [files EXCEPT ![NextFile] = op.version]
  /\ op' = IF op.next = Len(Order) THEN [op EXCEPT !.at = "activate", !.next = 0] ELSE [op EXCEPT !.next = @ + 1]
  /\ UNCHANGED <<registered, running, owner, adapters, record, faults>>

(* activateBundle, once readBundle has verified the installed package: an     *)
(* existing service is started.  A new one gets its owner first: the file is  *)
(* renamed into place, then written over by the service's own installation    *)
(* (platform Install), which registers the service and starts it.             *)
Start ==
  /\ op.at = "activate"
  /\ registered
  /\ Whole(files, op.version)
  /\ running' = op.version
  /\ op' = Idle
  /\ UNCHANGED <<files, registered, owner, adapters, record, faults>>

WriteOwner ==
  /\ op.at = "activate"
  /\ ~registered
  /\ Whole(files, op.version)
  /\ owner' = op.user
  /\ op' = [op EXCEPT !.at = "install"]
  /\ UNCHANGED <<files, registered, running, adapters, record, faults>>

TruncateOwner ==
  /\ op.at = "install"
  /\ owner' = {Nobody}
  /\ op' = [op EXCEPT !.at = "rewrite"]
  /\ UNCHANGED <<files, registered, running, adapters, record, faults>>

RewriteOwner ==
  /\ op.at = "rewrite"
  /\ owner' = op.user
  /\ op' = [op EXCEPT !.at = "register"]
  /\ UNCHANGED <<files, registered, running, adapters, record, faults>>

Register ==
  /\ op.at = "register"
  /\ registered' = TRUE
  /\ op' = [op EXCEPT !.at = "activate"]
  /\ UNCHANGED <<files, running, owner, adapters, record, faults>>

(* removeTAP: only the adapter whose GUID is recorded, by the installed       *)
(* tapctl, and never one that has been renamed; a record whose adapter is     *)
(* gone is dropped.                                                           *)
RemovesByName(g) == g \in Present
Removes(g) == g \in record
RemoveAdapter ==
  /\ op.at = "adapter"
  /\ \E g \in Adapter :
       /\ Removes(g)
       /\ Live(adapters, g)
       /\ adapters[g].named
       /\ DriverFiles
       /\ adapters' = Gone(g)
       /\ op' = [op EXCEPT !.at = "unrecord"]
  /\ UNCHANGED <<files, registered, running, owner, record, faults>>

NoAdapter ==
  /\ op.at = "adapter"
  /\ \A g \in record : ~Live(adapters, g)
  /\ op' = [op EXCEPT !.at = "unrecord"]
  /\ UNCHANGED <<files, registered, running, owner, adapters, record, faults>>

DropRecord ==
  /\ op.at = "unrecord"
  /\ record' = {}
  /\ op' = IF op.what = "tap" THEN Idle ELSE [op EXCEPT !.at = "unregister"]
  /\ UNCHANGED <<files, registered, running, owner, adapters, faults>>

(* removeWindowsBundle goes on: the service first, then the autostart entry   *)
(* of the owner, which must be a valid account, then, when the user asked to  *)
(* clear the identity, the private directory, then the program files.         *)
UnregisterAfterPurge ==
  /\ op.at = "unregister"
  /\ IF op.purge /\ owner # {}
     THEN owner' = {} /\ UNCHANGED <<op, registered>>
     ELSE registered' = FALSE /\ op' = [op EXCEPT !.at = "delete"] /\ UNCHANGED owner
  /\ UNCHANGED <<files, running, adapters, record, faults>>

Unregister ==
  /\ op.at = "unregister"
  /\ registered' = FALSE
  /\ op' = IF OwnerReadable THEN [op EXCEPT !.at = IF op.purge THEN "purge" ELSE "delete"] ELSE Idle
  /\ UNCHANGED <<files, running, owner, adapters, record, faults>>

Purge ==
  /\ op.at = "purge"
  /\ owner' = {}
  /\ op' = [op EXCEPT !.at = "delete"]
  /\ UNCHANGED <<files, registered, running, adapters, record, faults>>

Delete ==
  /\ op.at = "delete"
  /\ files' = [files EXCEPT ![NextFile] = 0]
  /\ op' = IF op.next = Len(Order) THEN Idle ELSE [op EXCEPT !.next = @ + 1]
  /\ UNCHANGED <<registered, running, owner, adapters, record, faults>>

(* ensureTAP: an adapter under the dedicated name is used as it is, whoever   *)
(* made it.  Otherwise one is created and its GUID recorded at once; when it  *)
(* does not become ready it is deleted again, and then its record.            *)
BeginTap(u) ==
  /\ op = Idle
  /\ owner = {u}
  /\ DriverFiles
  /\ Present = {}
  /\ Len(adapters) < MaxAdapters
  /\ adapters' = Append(adapters, [state |-> "live", named |-> TRUE, ours |-> TRUE])
  /\ op' = [Idle EXCEPT !.what = "tap", !.at = "record", !.made = Len(adapters')]
  /\ UNCHANGED <<files, registered, running, owner, record, faults>>

RecordAdapter ==
  /\ op.at = "record"
  /\ record' = {op.made}
  /\ op' = [op EXCEPT !.at = "wait"]
  /\ UNCHANGED <<files, registered, running, owner, adapters, faults>>

Ready ==
  /\ op.at = "wait"
  /\ Present = {op.made}
  /\ op' = Idle
  /\ UNCHANGED <<files, registered, running, owner, adapters, record, faults>>

NotReady ==
  /\ op.at = "wait"
  /\ faults < MaxFaults
  /\ adapters' = Gone(op.made)
  /\ op' = [op EXCEPT !.at = "unrecord"]
  /\ faults' = faults + 1
  /\ UNCHANGED <<files, registered, running, owner, record>>

Torn == op.at = "rewrite" => TornWrites

(* Any step may fail, which ends the operation where it stands; the record    *)
(* that cannot be written takes the new adapter with it.                      *)
Fails ==
  /\ op # Idle
  /\ faults < MaxFaults
  /\ Torn
  /\ adapters' = IF op.at = "record" THEN Gone(op.made) ELSE adapters
  /\ op' = Idle
  /\ faults' = faults + 1
  /\ UNCHANGED <<files, registered, running, owner, record>>

(* A refusal that is not a fault: the recorded adapter was renamed, or the    *)
(* tool that deletes it is missing.                                           *)
Refuses ==
  /\ op.at = "adapter"
  /\ \E g \in record : Live(adapters, g) /\ (adapters[g].named => ~DriverFiles)
  /\ op' = Idle
  /\ UNCHANGED <<files, registered, running, owner, adapters, record, faults>>

(* The power fails; a registered service starts with Windows, from whatever   *)
(* file stands in the directory.                                              *)
PowerFails ==
  /\ faults < MaxFaults
  /\ Torn
  /\ op' = Idle
  /\ running' = IF registered THEN files["nlroom-service.exe"] ELSE 0
  /\ faults' = faults + 1
  /\ UNCHANGED <<files, registered, owner, adapters, record>>

(* What the user does to the adapters of the machine in the meantime.         *)
UserCreates ==
  /\ Present = {}
  /\ Len(adapters) < MaxAdapters
  /\ adapters' = Append(adapters, [state |-> "live", named |-> TRUE, ours |-> FALSE])
  /\ UNCHANGED <<files, registered, running, owner, record, op, faults>>

UserRenames(g) ==
  /\ Live(adapters, g)
  /\ adapters[g].named \/ Present = {}
  /\ adapters' = [adapters EXCEPT ![g].named = ~@]
  /\ UNCHANGED <<files, registered, running, owner, record, op, faults>>

UserDeletes(g) ==
  /\ Live(adapters, g)
  /\ adapters' = Gone(g)
  /\ UNCHANGED <<files, registered, running, owner, record, op, faults>>

Next ==
  \/ \E u \in User, v \in Version : BeginSetup(u, v)
  \/ \E purge \in BOOLEAN : BeginRemove(purge)
  \/ \E u \in User : BeginTap(u)
  \/ Stop \/ Copy \/ Start \/ WriteOwner \/ TruncateOwner \/ RewriteOwner \/ Register
  \/ RemoveAdapter \/ NoAdapter \/ DropRecord \/ Unregister \/ Purge \/ Delete
  \/ RecordAdapter \/ Ready \/ NotReady \/ Fails \/ Refuses \/ PowerFails \/ UserCreates
  \/ \E g \in Adapter : UserRenames(g) \/ UserDeletes(g)

Spec == Init /\ [][Next]_vars

-----------------------------------------------------------------------------
At == {"none", "stop", "copy", "activate", "install", "rewrite", "register", "adapter",
       "unrecord", "unregister", "purge", "delete", "record", "wait"}
AdapterRow == [state : {"live", "gone"}, named : BOOLEAN, ours : BOOLEAN]
Op == [what : {"none", "setup", "remove", "tap"}, at : At, user : {{}} \cup {{u} : u \in User},
       version : 0..MaxVersion, purge : BOOLEAN, next : 0..Len(Order), made : Nat]
TypeOK ==
  /\ files \in [File -> 0..MaxVersion]
  /\ registered \in BOOLEAN
  /\ running \in 0..MaxVersion
  /\ owner \in {{}} \cup {{u} : u \in User \cup {Nobody}}
  /\ adapters \in Seq(AdapterRow)
  /\ record \in {{}} \cup {{g} : g \in 1..Len(adapters)}
  /\ op \in Op
  /\ faults \in 0..MaxFaults

(* Wherever an operation stopped, running a complete package again repairs    *)
(* the installation: for every version that is not older than a file in the   *)
(* directory there is an account whose setup is accepted.                     *)
Repairable ==
  op = Idle => \A v \in Version : (\A f \in File : files[f] <= v) => \E u \in User : Accepts(u, v)

(* A service runs from the file that is installed: no file is replaced or     *)
(* removed under it, and none runs once it is unregistered.                   *)
RunsInstalled == running # 0 => registered /\ running = files["nlroom-service.exe"]

Inv == TypeOK /\ Repairable /\ RunsInstalled

(* Setup and removal delete only adapters they created themselves: the one    *)
(* the user made under the same name stays.                                   *)
OnlyOwnAdapters == [][\A g \in 1..Len(adapters) : (Live(adapters, g) /\ ~Live(adapters', g) /\ op' # op) => adapters[g].ours]_vars

(* While the service is registered no file is replaced by an older one, also  *)
(* across interrupted setups: BUILD.txt, which the check reads, goes first.   *)
NeverOlder == [][registered => \A f \in File : files'[f] # 0 => files'[f] >= files[f]]_vars

-----------------------------------------------------------------------------
(* What these rest on.                                                        *)

(* An operation that is under way has what its place says.                    *)
Placed ==
  /\ op.at \in {"copy", "activate", "install", "rewrite", "register"} =>
       op.what = "setup" /\ op.version # 0 /\ op.user # {}
  /\ op.at \in {"adapter", "unregister", "purge", "delete"} => op.what = "remove"
  /\ op.what \in {"setup", "remove"} /\ op.at # "stop" => running = 0
  /\ op.at = "stop" => op.what \in {"setup", "remove"}
  /\ op.at = "stop" /\ op.what = "setup" => op.version # 0 /\ op.user # {}
  /\ op.at \in {"copy", "delete"} => op.next # 0
  /\ op.at \in {"adapter", "unregister", "purge"} => op.next = 1
  /\ op.at = "unrecord" => op.what = "tap" \/ (op.what = "remove" /\ op.next = 1)

(* The owner's file is torn only while it is written over, and a registered   *)
(* service has an owner.                                                      *)
Owned ==
  /\ owner = {Nobody} => op.at = "rewrite"
  /\ registered => owner # {}
  /\ op.at = "register" => owner = op.user
  /\ op.at \in {"purge", "delete"} => ~registered

(* BUILD.txt is never older than another file of a registered installation.   *)
Newest ==
  /\ registered => \A f \in File : files[f] <= files["BUILD.txt"]
  /\ registered /\ op.what = "setup" => files["BUILD.txt"] <= op.version
  /\ op.at \in {"install", "rewrite", "register"} => Whole(files, op.version)
  /\ op.at = "copy" /\ op.next > 1 => files["BUILD.txt"] = op.version

(* The recorded adapter is one that the setup has made.                       *)
Recorded ==
  /\ \A g \in record : adapters[g].ours
  /\ op.at \in {"record", "wait"} => op.made \in 1..Len(adapters) /\ adapters[op.made].ours
  /\ op.at \in {"record", "wait"} => op.what = "tap"
Supported == TypeOK /\ RunsInstalled /\ Placed /\ Owned /\ Newest /\ Recorded
=============================================================================
