---------------------------- MODULE BundleProofs ----------------------------
(***************************************************************************)
(* Theorems about ConfigBuilder, for any directories, clients, buckets and *)
(* routes and any number of commands and edits by hand.                    *)
(***************************************************************************)
EXTENDS ConfigBuilder, FiniteSetTheorems, TLAPS

(* An edit works on the only configuration of its client. *)
OnlyConfig ==
    command = "edit" /\ stage \in {"prompt", "config", "configOpen", "acl", "aclOpen",
                                   "done"}
      => /\ configs[bundle] # Absent
         /\ \A g \in Bundles : g[2] = bundle[2] /\ configs[g] # Absent => g = bundle

(* What has been written when the command is how far. *)
WrittenSoFar ==
    /\ stage \in {"acl", "aclOpen", "done"} => configs[bundle] = bucket
    /\ stage = "done" => acls[bundle] = items

(* A permission list is loaded with a line in it, stays so until it is     *)
(* opened, and a list without a line was asked for by the answers.         *)
ListsHaveLines ==
    /\ stage \in {"prompt", "config", "configOpen", "acl"} => acls[bundle] # {}
    /\ stage = "prompt" => items # {}
    /\ stage \in {"config", "configOpen", "acl", "aclOpen"} /\ items = {}
         => <<bundle, "acl">> \in broken

BundleInv ==
    /\ BundleTypeOK
    /\ OnlyConfig
    /\ WrittenSoFar
    /\ ListsHaveLines
    /\ BrokenByWriter

-----------------------------------------------------------------------------
(* A fragment with one candidate names the only configuration of a client. *)
LEMMA CandidateIsOnly ==
  ASSUME NEW fragment, Cardinality(Candidates(fragment)) = 1,
         NEW f \in Candidates(fragment)
  PROVE  /\ f \in Bundles /\ configs[f] # Absent
         /\ \A g \in Bundles : g[2] = f[2] /\ configs[g] # Absent => g = f
<1>1. IsFiniteSet(Bundles)
  BY BundlesAssumption, FS_Product DEF Bundles
<1>2. IsFiniteSet(Candidates(fragment))
  BY <1>1, FS_Subset DEF Candidates
<1>3. PICK x : Candidates(fragment) = {x}
  BY <1>2, FS_Singleton
<1>4. \A g \in Bundles : g[2] = f[2] /\ configs[g] # Absent => g \in Candidates(fragment)
  BY DEF Candidates
<1> QED
  BY <1>3, <1>4 DEF Candidates

LEMMA BundleInitInv == BundleInit => BundleInv
<1> SUFFICES ASSUME BundleInit PROVE BundleInv
  OBVIOUS
<1>1. bundle \in Bundles
  <2>1. PICK d \in Dirs, k \in Ids : TRUE
    BY BundlesAssumption
  <2>2. <<d, k>> \in Bundles
    BY DEF Bundles
  <2> QED
    BY <2>2 DEF BundleInit
<1>2. BundleTypeOK
  BY <1>1, BundlesAssumption DEF BundleInit, BundleTypeOK
<1>3. OnlyConfig /\ WrittenSoFar /\ ListsHaveLines /\ BrokenByWriter
  BY BundlesAssumption
  DEF BundleInit, OnlyConfig, WrittenSoFar, ListsHaveLines, BrokenByWriter
<1> QED
  BY <1>2, <1>3 DEF BundleInv

(* Loading, for add and for edit. *)
LEMMA LoadInv ==
  ASSUME BundleInv, Starts, NEW cmd \in {"add", "edit"}, NEW f \in Bundles,
         NEW b, b \in Buckets \/ configs[f] # Absent, LoadBundle(cmd, f, b),
         cmd = "edit" =>
           /\ configs[f] # Absent
           /\ \A g \in Bundles : g[2] = f[2] /\ configs[g] # Absent => g = f
  PROVE  BundleInv'
<1>1. /\ Idle /\ commands' = commands + 1 /\ commands < MaxCommands
      /\ UNCHANGED <<handEdits, configs, acls, broken>>
      /\ command' = cmd /\ bundle' = f
  BY DEF Starts, LoadBundle, fileVars
<1>2. commands' \in 0..MaxCommands
  BY <1>1, BundlesAssumption DEF BundleInv, BundleTypeOK
<1>3. BrokenByWriter'
  BY <1>1 DEF BundleInv, BrokenByWriter, Idle
<1>4. CASE stage' = "failed" /\ UNCHANGED <<bucket, items>>
  <2>1. BundleTypeOK'
    BY <1>1, <1>2, <1>4 DEF BundleInv, BundleTypeOK
  <2> QED
    BY <1>3, <1>4, <2>1 DEF BundleInv, OnlyConfig, WrittenSoFar, ListsHaveLines
<1>5. CASE /\ stage' = "prompt" /\ configs[f] # Unreadable /\ acls[f] # {}
           /\ bucket' = IF configs[f] = Absent THEN b ELSE configs[f]
           /\ items' = IF acls[f] = Absent THEN {bucket'} ELSE acls[f]
  <2>1. bucket' \in Buckets
    BY <1>5 DEF BundleInv, BundleTypeOK
  <2>2. items' \subseteq Resources /\ items' # {}
    BY <1>5, <2>1 DEF BundleInv, BundleTypeOK, Resources
  <2>3. BundleTypeOK'
    BY <1>1, <1>2, <1>5, <2>1, <2>2 DEF BundleInv, BundleTypeOK
  <2>4. OnlyConfig' /\ WrittenSoFar' /\ ListsHaveLines'
    BY <1>1, <1>5, <2>2 DEF OnlyConfig, WrittenSoFar, ListsHaveLines
  <2> QED
    BY <1>3, <2>3, <2>4 DEF BundleInv
<1> QED
  BY <1>4, <1>5 DEF LoadBundle, Goto, FirstGrants

LEMMA AddInv ==
  ASSUME BundleInv, NEW f \in Bundles, NEW b \in Buckets, Add(f, b)
  PROVE  BundleInv'
BY LoadInv DEF Add

LEMMA EditInv ==
  ASSUME BundleInv, NEW fragment \in Ids, Edit(fragment)
  PROVE  BundleInv'
<1>1. CASE Cardinality(Candidates(fragment)) = 1
  <2>1. PICK f \in Candidates(fragment) : LoadBundle("edit", f, configs[f])
    BY <1>1 DEF Edit, Found
  <2> QED
    BY <1>1, <2>1, CandidateIsOnly, LoadInv DEF Edit
<1>2. CASE Cardinality(Candidates(fragment)) # 1
  <2>1. /\ Idle /\ commands' = commands + 1 /\ commands < MaxCommands
        /\ command' = "edit" /\ stage' = "failed"
        /\ UNCHANGED <<handEdits, configs, acls, bundle, bucket, items, broken>>
    BY <1>2 DEF Edit, Starts, Goto, fileVars
  <2>2. BundleTypeOK'
    BY <2>1, BundlesAssumption DEF BundleInv, BundleTypeOK
  <2> QED
    BY <2>1, <2>2
    DEF BundleInv, OnlyConfig, WrittenSoFar, ListsHaveLines, BrokenByWriter, Idle
<1> QED
  BY <1>1, <1>2

LEMMA AnswerInv ==
  ASSUME BundleInv, Answer
  PROVE  BundleInv'
<1> USE DEF Answer, Goto, After, fileVars, countVars
<1>1. BundleTypeOK'
  BY DEF BundleInv, BundleTypeOK
<1>2. OnlyConfig' /\ WrittenSoFar'
  BY DEF BundleInv, OnlyConfig, WrittenSoFar
<1>3. ListsHaveLines' /\ BrokenByWriter'
  BY DEF BundleInv, ListsHaveLines, BrokenByWriter
<1> QED
  BY <1>1, <1>2, <1>3 DEF BundleInv

(* What an interruption does to the permission lists. *)
LEMMA InterruptLists ==
  ASSUME BundleInv, Interrupt
  PROVE  /\ DOMAIN acls' = Bundles
         /\ \A f \in Bundles : f # bundle => acls'[f] = acls[f]
         /\ acls'[bundle] \in (SUBSET Resources) \cup {Absent}
         /\ acls'[bundle] = acls[bundle] \/ stage = "aclOpen"
<1>1. CASE stage = "aclOpen"
  <2>1. PICK written \in SUBSET items : acls' = [acls EXCEPT ![bundle] = written]
    BY <1>1 DEF Interrupt
  <2>2. written \subseteq Resources /\ bundle \in Bundles /\ DOMAIN acls = Bundles
    BY <2>1 DEF BundleInv, BundleTypeOK
  <2> QED
    BY <1>1, <2>1, <2>2
<1>2. CASE stage # "aclOpen"
  BY <1>2 DEF Interrupt, BundleInv, BundleTypeOK
<1> QED
  BY <1>1, <1>2

LEMMA InterruptInv ==
  ASSUME BundleInv, Interrupt
  PROVE  BundleInv'
<1>1. /\ stage' = "failed" /\ stage \in {"prompt", "config", "configOpen", "acl", "aclOpen"}
      /\ UNCHANGED <<configs, command, bundle, bucket, items, commands, handEdits>>
      /\ broken' = (broken \ {<<bundle, "acl">>})
           \cup (IF stage = "configOpen" THEN {<<bundle, "config">>} ELSE {})
           \cup (IF acls'[bundle] = {} THEN {<<bundle, "acl">>} ELSE {})
  BY DEF BundleInv, BundleTypeOK, Interrupt, Idle, Goto, countVars
<1>2. acls' \in [Bundles -> (SUBSET Resources) \cup {Absent}]
  <2>1. \A f \in Bundles : acls'[f] \in (SUBSET Resources) \cup {Absent}
    BY InterruptLists DEF BundleInv, BundleTypeOK
  <2>2. acls' = [f \in Bundles |-> acls'[f]]
    BY InterruptLists DEF Interrupt, BundleInv, BundleTypeOK
  <2> QED
    BY <2>1, <2>2
<1>3. BundleTypeOK'
  BY <1>1, <1>2 DEF BundleInv, BundleTypeOK
<1>4. \A f \in Bundles : configs'[f] = Unreadable => <<f, "config">> \in broken'
  BY <1>1 DEF BundleInv, BrokenByWriter
<1>5. \A f \in Bundles : acls'[f] = {} => <<f, "acl">> \in broken'
  BY <1>1, InterruptLists DEF BundleInv, BrokenByWriter
<1>6. BrokenByWriter'
  BY <1>4, <1>5 DEF BrokenByWriter
<1> QED
  BY <1>1, <1>3, <1>6 DEF BundleInv, OnlyConfig, WrittenSoFar, ListsHaveLines

LEMMA FailInv ==
  ASSUME BundleInv, FailWrite
  PROVE  BundleInv'
<1>1. /\ stage' = "failed" /\ stage \in {"prompt", "config", "configOpen", "acl", "aclOpen"}
      /\ UNCHANGED <<configs, acls, command, bundle, bucket, items, commands, handEdits>>
  BY DEF BundleInv, BundleTypeOK, FailWrite, Refused, Goto, AfterRefusal, fileVars,
         countVars
<1>2. BundleTypeOK'
  BY <1>1 DEF BundleInv, BundleTypeOK, FailWrite
<1>3. BrokenByWriter'
  BY <1>1 DEF BundleInv, BrokenByWriter, ListsHaveLines, FailWrite, Refused
<1> QED
  BY <1>1, <1>2, <1>3 DEF BundleInv, OnlyConfig, WrittenSoFar, ListsHaveLines

LEMMA ConfigFileInv ==
  ASSUME BundleInv, OpenConfig \/ WriteConfig
  PROVE  BundleInv'
<1> USE DEF OpenConfig, WriteConfig, Goto, After, countVars
<1>1. BundleTypeOK'
  BY DEF BundleInv, BundleTypeOK
<1>2. OnlyConfig'
  BY BundlesAssumption DEF BundleInv, BundleTypeOK, OnlyConfig
<1>3. WrittenSoFar' /\ ListsHaveLines'
  BY DEF BundleInv, BundleTypeOK, WrittenSoFar, ListsHaveLines
<1>4. BrokenByWriter'
  <2>1. CASE OpenConfig
    BY <2>1 DEF BundleInv, BundleTypeOK, BrokenByWriter
  <2>2. CASE WriteConfig
    <3>1. /\ UNCHANGED <<acls, bundle>> /\ broken' = broken \ {<<bundle, "config">>}
          /\ configs' = [configs EXCEPT ![bundle] = bucket] /\ stage = "configOpen"
      BY <2>2
    <3>2. bucket # Unreadable
      BY BundlesAssumption DEF BundleInv, BundleTypeOK
    <3>3. \A f \in Bundles : configs'[f] = Unreadable => <<f, "config">> \in broken'
      BY <3>1, <3>2 DEF BundleInv, BundleTypeOK, BrokenByWriter
    <3>4. \A f \in Bundles : acls'[f] = {} => <<f, "acl">> \in broken'
      BY <3>1 DEF BundleInv, BrokenByWriter
    <3> QED
      BY <3>3, <3>4 DEF BrokenByWriter
  <2> QED
    BY <2>1, <2>2
<1> QED
  BY <1>1, <1>2, <1>3, <1>4 DEF BundleInv

LEMMA AclFileInv ==
  ASSUME BundleInv, OpenAcl \/ WriteAcl
  PROVE  BundleInv'
<1> USE DEF OpenAcl, WriteAcl, Goto, After, countVars
<1>1. BundleTypeOK'
  BY DEF BundleInv, BundleTypeOK
<1>2. OnlyConfig' /\ WrittenSoFar'
  BY DEF BundleInv, BundleTypeOK, OnlyConfig, WrittenSoFar
<1>3. ListsHaveLines'
  BY DEF BundleInv, ListsHaveLines
<1>4. BrokenByWriter'
  <2>1. CASE OpenAcl
    BY <2>1 DEF BundleInv, BundleTypeOK, BrokenByWriter
  <2>2. CASE WriteAcl
    <3>1. /\ UNCHANGED <<configs, bundle>> /\ stage = "aclOpen"
          /\ acls' = [acls EXCEPT ![bundle] = items]
          /\ broken' = IF items = {} THEN broken ELSE broken \ {<<bundle, "acl">>}
      BY <2>2
    <3>2. \A f \in Bundles : configs'[f] = Unreadable => <<f, "config">> \in broken'
      BY <3>1 DEF BundleInv, BrokenByWriter
    <3>3. \A f \in Bundles : acls'[f] = {} => <<f, "acl">> \in broken'
      BY <3>1 DEF BundleInv, BundleTypeOK, BrokenByWriter, ListsHaveLines
    <3> QED
      BY <3>2, <3>3 DEF BrokenByWriter
  <2> QED
    BY <2>1, <2>2
<1> QED
  BY <1>1, <1>2, <1>3, <1>4 DEF BundleInv

LEMMA EditByHandInv ==
  ASSUME BundleInv, NEW f \in Bundles, EditByHand(f)
  PROVE  BundleInv'
<1> USE DEF EditByHand
<1>1. BundleTypeOK'
  BY BundlesAssumption DEF BundleInv, BundleTypeOK
<1>2. BrokenByWriter'
  BY DEF BundleInv, BundleTypeOK, BrokenByWriter, Idle
<1>3. OnlyConfig' /\ WrittenSoFar' /\ ListsHaveLines'
  BY DEF OnlyConfig, WrittenSoFar, ListsHaveLines
<1> QED
  BY <1>1, <1>2, <1>3 DEF BundleInv

LEMMA BundleNextInv == BundleInv /\ [BundleNext]_bundleVars => BundleInv'
<1> SUFFICES ASSUME BundleInv, [BundleNext]_bundleVars PROVE BundleInv'
  OBVIOUS
<1>1. CASE UNCHANGED bundleVars
  BY <1>1
  DEF bundleVars, fileVars, commandVars, countVars, BundleInv, BundleTypeOK, OnlyConfig,
      WrittenSoFar, ListsHaveLines, BrokenByWriter
<1>2. CASE BundleNext
  BY <1>2, AddInv, EditInv, AnswerInv, FailInv, InterruptInv, ConfigFileInv,
     AclFileInv, EditByHandInv
  DEF BundleNext
<1> QED
  BY <1>1, <1>2

-----------------------------------------------------------------------------
THEOREM BundleInvariant == BundleSpec => []BundleInv
<1> QED
  BY BundleInitInv, BundleNextInv, PTL DEF BundleSpec

(* The files, the command and the counters are always of their types       *)
(* (configbuilder.py).                                                     *)
THEOREM BundleTypeCorrect == BundleSpec => []BundleTypeOK
<1>1. BundleInv => BundleTypeOK
  BY DEF BundleInv
<1> QED
  BY <1>1, BundleInvariant, PTL

(* A command that ends well has written both files, and an edit the only   *)
(* configuration of its client (main, load_clientbundle).                  *)
THEOREM DoneIsWrittenAlways == BundleSpec => []DoneIsWritten
<1>1. BundleInv => DoneIsWritten
  <2> SUFFICES ASSUME BundleInv, stage = "done", command = "edit"
               PROVE  ConfigOf(bundle[2]) = {<<bundle, bucket>>}
    BY DEF DoneIsWritten, BundleInv, WrittenSoFar
  <2>1. {g \in Bundles : g[2] = bundle[2] /\ configs[g] # Absent} = {bundle}
    BY DEF BundleInv, BundleTypeOK, OnlyConfig
  <2>2. configs[bundle] = bucket
    BY DEF BundleInv, WrittenSoFar
  <2> QED
    BY <2>1, <2>2 DEF ConfigOf
<1> QED
  BY <1>1, BundleInvariant, PTL

(* No run of commands leaves a file that cannot be loaded, but for an      *)
(* interruption while it was open, answers that deleted every permission,  *)
(* or a hand (get_or_create).                                              *)
THEOREM BrokenByWriterAlways == BundleSpec => []BrokenByWriter
<1>1. BundleInv => BrokenByWriter
  BY DEF BundleInv
<1> QED
  BY <1>1, BundleInvariant, PTL

(* Adding never touches a file that was there (write_clientconfig and      *)
(* write_clientacl without overwrite).                                     *)
THEOREM AddOverwritesNothingAlways == BundleSpec => AddOverwritesNothing
<1> DEFINE Kept ==
      ~Idle /\ command = "add" =>
        \A f \in Bundles :
          /\ configs[f] \notin {configs'[f], Absent} =>
               stage = "configOpen" /\ f = bundle
          /\ acls[f] \notin {acls'[f], Absent} =>
               stage = "aclOpen" /\ f = bundle
<1>1. ASSUME BundleInv, [BundleNext]_bundleVars
      PROVE  [Kept]_bundleVars
  <2> SUFFICES ASSUME BundleNext, ~Idle, command = "add" PROVE Kept
    BY <1>1
  <2>1. CASE OpenConfig \/ WriteConfig
    BY <1>1, <2>1
    DEF OpenConfig, WriteConfig, Refused, Refuses, BundleInv, BundleTypeOK
  <2>2. CASE OpenAcl \/ WriteAcl
    BY <1>1, <2>2 DEF OpenAcl, WriteAcl, Refused, Refuses, BundleInv, BundleTypeOK
  <2>3. CASE Answer \/ FailWrite
    BY <2>3 DEF Answer, FailWrite, fileVars
  <2>4. CASE Interrupt
    BY <1>1, <2>4, InterruptLists DEF Interrupt
  <2> QED
    BY <2>1, <2>2, <2>3, <2>4 DEF BundleNext, Add, Edit, Starts, EditByHand
<1> QED
  BY <1>1, BundleInvariant, PTL DEF BundleSpec, AddOverwritesNothing

(* A command writes a permission list only beside a configuration of the   *)
(* same client (ClientBundle.write).                                       *)
THEOREM GrantNeedsConfigAlways == BundleSpec => GrantNeedsConfig
<1> DEFINE Beside ==
      ~Idle => \A f \in Bundles : acls'[f] # acls[f] => configs[f] # Absent
<1>1. ASSUME BundleInv, [BundleNext]_bundleVars
      PROVE  [Beside]_bundleVars
  <2> SUFFICES ASSUME BundleNext, ~Idle PROVE Beside
    BY <1>1
  <2>1. CASE OpenAcl \/ WriteAcl
    <3>1. configs[bundle] # Absent
      BY <1>1, <2>1, BundlesAssumption
      DEF OpenAcl, WriteAcl, BundleInv, BundleTypeOK, WrittenSoFar
    <3> QED
      BY <1>1, <2>1, <3>1 DEF OpenAcl, WriteAcl, BundleInv, BundleTypeOK
  <2>2. CASE OpenConfig \/ WriteConfig \/ Answer \/ FailWrite
    BY <2>2 DEF OpenConfig, WriteConfig, Answer, FailWrite, fileVars
  <2>3. CASE Interrupt
    <3>1. stage = "aclOpen" => configs[bundle] # Absent
      BY <1>1, BundlesAssumption DEF BundleInv, BundleTypeOK, WrittenSoFar
    <3> QED
      BY <1>1, <2>3, <3>1, InterruptLists
  <2> QED
    BY <2>1, <2>2, <2>3 DEF BundleNext, Add, Edit, Starts, EditByHand
<1> QED
  BY <1>1, BundleInvariant, PTL DEF BundleSpec, GrantNeedsConfig
=============================================================================
