--------------------------- MODULE ConfigBuilder ---------------------------
(***************************************************************************)
(* configbuilder.py, which somebody runs to add or edit a client: a bundle *)
(* is a configuration {id}.json and a permission list {id}.csv in one      *)
(* directory below CONFIG_DIR.  Both commands go                           *)
(*                                                                         *)
(*   load -> prompt -> config file -> acl file                             *)
(*                                                                         *)
(* and may be interrupted anywhere; a file is emptied when it is opened    *)
(* and has its content when it is closed.  One command runs at a time;     *)
(* between two of them files are edited by hand.                           *)
(***************************************************************************)
EXTENDS Naturals, FiniteSets

CONSTANTS
    Dirs,          \* service name and display name
    Ids,           \* azure_client_id
    StartsWith,    \* the pairs <<l, k>> such that id l starts with id k
    Buckets,       \* bucket names
    Routes,        \* the routes of the application
    Absent,        \* no such file
    Unreadable,    \* a configuration that ClientConfig refuses
    MaxCommands,   \* bound: commands
    MaxHandEdits   \* bound: edits by hand

ASSUME BundlesAssumption ==
    /\ StartsWith \subseteq Ids \X Ids
    /\ \A k \in Ids : <<k, k>> \in StartsWith
    /\ Dirs # {} /\ IsFiniteSet(Dirs) /\ Ids # {} /\ IsFiniteSet(Ids)
    /\ Unreadable \notin Buckets /\ Absent \notin Buckets
    /\ Absent # Unreadable /\ Absent # {}
    /\ MaxCommands \in Nat /\ MaxHandEdits \in Nat

(* The resources a permission list names: routes, and buckets. *)
Resources == Routes \cup Buckets

Bundles == Dirs \X Ids

VARIABLES
    configs,       \* per bundle: bucket_name, Unreadable or Absent
    acls,          \* per bundle: the resources granted, or Absent
    command,       \* "add" or "edit"
    stage,         \* how far it is
    bundle,        \* the bundle it works on
    bucket,        \* clientconfig.bucket_name
    items,         \* clientacl.policy_items
    commands, handEdits,   \* how many there were
    broken         \* history: the files broken by whoever wrote them

fileVars == <<configs, acls>>
commandVars == <<command, stage, bundle, bucket, items>>
countVars == <<commands, handEdits>>
bundleVars == <<fileVars, commandVars, countVars, broken>>

BundleTypeOK ==
    /\ configs \in [Bundles -> Buckets \cup {Unreadable, Absent}]
    /\ acls \in [Bundles -> (SUBSET Resources) \cup {Absent}]
    /\ command \in {"add", "edit"}
    /\ stage \in {"none", "prompt", "config", "configOpen", "acl", "aclOpen",
                  "done", "failed"}
    /\ bundle \in Bundles
    /\ bucket \in Buckets
    /\ items \subseteq Resources
    /\ commands \in 0..MaxCommands /\ handEdits \in 0..MaxHandEdits
    /\ broken \subseteq Bundles \X {"config", "acl"}

BundleInit ==
    /\ configs = [f \in Bundles |-> Absent]
    /\ acls = [f \in Bundles |-> Absent]
    /\ command = "add" /\ stage = "none"
    /\ bundle = (CHOOSE f \in Bundles : TRUE)
    /\ bucket \in Buckets /\ items = {}
    /\ commands = 0 /\ handEdits = 0 /\ broken = {}

-----------------------------------------------------------------------------
Goto(s) == stage' = s

Idle == stage \in {"none", "done", "failed"}

(* Mutant: the permission list is written first. *)
AclFirst(s) ==
    CASE s = "prompt" -> "acl" [] s = "aclOpen" -> "config"
      [] s = "configOpen" -> "done"

(* ClientBundle.write: the configuration is written first. *)
After(s) ==
    CASE s = "prompt" -> "config" [] s = "configOpen" -> "acl"
      [] s = "aclOpen" -> "done"

(* Mutant: a new permission list is empty. *)
NoGrants(b) == {}

(* The list made for a client that has none names its bucket. *)
FirstGrants(b) == {b}

(* get_or_create: what exists is loaded, which fails if it is broken; an   *)
(* empty permission list has no first line to take the client's id from.   *)
(* One that has lines but no permission among them is left out here.       *)
LoadBundle(cmd, f, newBucket) ==
    /\ command' = cmd /\ bundle' = f
    /\ IF configs[f] = Unreadable \/ acls[f] = {}
       THEN Goto("failed") /\ UNCHANGED <<bucket, items>>
       ELSE /\ Goto("prompt")
            /\ bucket' = IF configs[f] = Absent THEN newBucket ELSE configs[f]
            /\ items' = IF acls[f] = Absent THEN FirstGrants(bucket') ELSE acls[f]
    /\ UNCHANGED <<fileVars, broken>>

Starts == Idle /\ commands < MaxCommands /\ commands' = commands + 1
            /\ UNCHANGED handEdits

Add(f, newBucket) == Starts /\ LoadBundle("add", f, newBucket)

(* The configurations whose name starts with what was typed. *)
Candidates(fragment) ==
    {f \in Bundles : configs[f] # Absent /\ <<f[2], fragment>> \in StartsWith}

(* Mutant: the fragment is taken for the id. *)
FragmentAsId(f, fragment) == <<f[1], fragment>>

(* The full id is taken from the name of the file. *)
Found(f, fragment) == f

Edit(fragment) ==
    /\ Starts
    /\ IF Cardinality(Candidates(fragment)) = 1
       THEN \E f \in Candidates(fragment) :
              LoadBundle("edit", Found(f, fragment), configs[f])
       ELSE /\ command' = "edit" /\ Goto("failed")
            /\ UNCHANGED <<fileVars, bundle, bucket, items, broken>>

(* interactive_edit.  A permission may be deleted, also the last.  A       *)
(* bucket name may too, and then no permission can be made for it, which   *)
(* ends the command; add does not ask for the name.                        *)
Answer ==
    /\ stage = "prompt"
    /\ \/ /\ items' \in SUBSET Resources
          /\ bucket' \in IF command = "edit" THEN Buckets ELSE {bucket}
          /\ broken' = IF items' = {} /\ items # {} THEN broken \cup {<<bundle, "acl">>}
                                                  ELSE broken
          /\ Goto(After(stage))
       \/ command = "edit" /\ Goto("failed") /\ UNCHANGED <<bucket, items, broken>>
    /\ UNCHANGED <<fileVars, command, bundle, countVars>>

(* Mutant: an existing file is no obstacle. *)
NothingInTheWay(cmd, file) == FALSE

(* write without overwrite, which only edit passes. *)
Refuses(cmd, file) == cmd = "add" /\ file # Absent

Refused ==
    \/ stage = "config" /\ Refuses(command, configs[bundle])
    \/ stage = "acl" /\ Refuses(command, acls[bundle])

(* Mutant: the exception is swallowed. *)
EndsQuietly == "done"

AfterRefusal == "failed"

FailWrite ==
    /\ Refused
    /\ Goto(AfterRefusal)
    /\ broken' = broken \ {<<bundle, "acl">>}
    /\ UNCHANGED <<fileVars, command, bundle, bucket, items, countVars>>

OpenConfig ==
    /\ stage = "config" /\ ~Refused
    /\ configs' = [configs EXCEPT ![bundle] = Unreadable]
    /\ Goto("configOpen")
    /\ UNCHANGED <<acls, command, bundle, bucket, items, countVars, broken>>

WriteConfig ==
    /\ stage = "configOpen"
    /\ configs' = [configs EXCEPT ![bundle] = bucket]
    /\ broken' = broken \ {<<bundle, "config">>}
    /\ Goto(After(stage))
    /\ UNCHANGED <<acls, command, bundle, bucket, items, countVars>>

OpenAcl ==
    /\ stage = "acl" /\ ~Refused
    /\ acls' = [acls EXCEPT ![bundle] = {}]
    /\ Goto("aclOpen")
    /\ UNCHANGED <<configs, command, bundle, bucket, items, countVars, broken>>

WriteAcl ==
    /\ stage = "aclOpen"
    /\ acls' = [acls EXCEPT ![bundle] = items]
    /\ broken' = IF items = {} THEN broken ELSE broken \ {<<bundle, "acl">>}
    /\ Goto(After(stage))
    /\ UNCHANGED <<configs, command, bundle, bucket, items, countVars>>

(* The command is interrupted.  A configuration it has open stays empty, a *)
(* permission list keeps the lines written so far.                         *)
Interrupt ==
    /\ ~Idle
    /\ \/ /\ stage = "aclOpen"
          /\ \E written \in SUBSET items : acls' = [acls EXCEPT ![bundle] = written]
       \/ stage # "aclOpen" /\ UNCHANGED acls
    /\ broken' = (broken \ {<<bundle, "acl">>})
         \cup (IF stage = "configOpen" THEN {<<bundle, "config">>} ELSE {})
         \cup (IF acls'[bundle] = {} THEN {<<bundle, "acl">>} ELSE {})
    /\ Goto("failed")
    /\ UNCHANGED <<configs, command, bundle, bucket, items, countVars>>

(* Somebody creates, changes or removes a file with another program. *)
EditByHand(f) ==
    /\ Idle /\ handEdits < MaxHandEdits
    /\ handEdits' = handEdits + 1
    /\ \/ /\ \E c \in Buckets \cup {Unreadable, Absent} :
               /\ configs' = [configs EXCEPT ![f] = c]
               /\ broken' = (broken \ {<<f, "config">>})
                              \cup (IF c = Unreadable THEN {<<f, "config">>} ELSE {})
          /\ UNCHANGED acls
       \/ /\ \E a \in (SUBSET Resources) \cup {Absent} :
               /\ acls' = [acls EXCEPT ![f] = a]
               /\ broken' = (broken \ {<<f, "acl">>})
                              \cup (IF a = {} THEN {<<f, "acl">>} ELSE {})
          /\ UNCHANGED configs
    /\ stage' = "none"
    /\ UNCHANGED <<command, bundle, bucket, items, commands>>

BundleNext ==
    \/ \E f \in Bundles, b \in Buckets : Add(f, b)
    \/ \E fragment \in Ids : Edit(fragment)
    \/ Answer
    \/ FailWrite
    \/ OpenConfig \/ WriteConfig
    \/ OpenAcl \/ WriteAcl
    \/ Interrupt
    \/ \E f \in Bundles : EditByHand(f)

BundleSpec == BundleInit /\ [][BundleNext]_bundleVars

-----------------------------------------------------------------------------
(* What the service finds for a client: its one readable configuration     *)
(* (ClientConfigService.load_from_file).                                   *)
ConfigOf(id) == {<<f, configs[f]>> : f \in {g \in Bundles :
                                        g[2] = id /\ configs[g] # Absent}}

(* Adding a client never touches a file that was there, whatever earlier   *)
(* commands that were interrupted have left and whichever of the two files *)
(* exists (write_clientconfig and write_clientacl without overwrite).      *)
AddOverwritesNothing ==
    [][~Idle /\ command = "add" =>
         \A f \in Bundles :
           /\ configs[f] \notin {configs'[f], Absent} =>
                stage = "configOpen" /\ f = bundle
           /\ acls[f] \notin {acls'[f], Absent} =>
                stage = "aclOpen" /\ f = bundle]_bundleVars

(* Nobody is granted anything without a configuration: a command writes a  *)
(* permission list only beside a configuration file of the same client, so *)
(* an interruption in between leaves a client that may do nothing, not one *)
(* with permissions and no bucket (order of ClientBundle.write).           *)
GrantNeedsConfig ==
    [][~Idle => \A f \in Bundles : acls'[f] # acls[f] => configs[f] # Absent]_bundleVars

(* A command that ends as it should has written what its user confirmed,   *)
(* in both files; after an edit the service finds that configuration and   *)
(* no other for the client, although the client may have been named by the *)
(* start of its id (main, load_clientbundle).                              *)
DoneIsWritten ==
    stage = "done" =>
      /\ configs[bundle] = bucket /\ acls[bundle] = items
      /\ command = "edit" => ConfigOf(bundle[2]) = {<<bundle, bucket>>}

(* A file that cannot be loaded, which fails list and find for all         *)
(* clients, was left so by an interruption before its first line was       *)
(* written, by answers that deleted every permission, or by hand: no run   *)
(* of commands breaks a file in any other way (get_or_create).             *)
BrokenByWriter ==
    \A f \in Bundles :
      /\ configs[f] = Unreadable =>
           <<f, "config">> \in broken \/ (stage = "configOpen" /\ f = bundle)
      /\ acls[f] = {} =>
           <<f, "acl">> \in broken \/ (stage = "aclOpen" /\ f = bundle)
=============================================================================
