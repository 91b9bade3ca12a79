------------------------------ MODULE Policies ------------------------------
(***************************************************************************)
(* The authorization policy: CSV files below CASBIN_POLICY, which          *)
(* MultiFileAdapter reads when AuthzService is made and which a thread of  *)
(* casbin's SyncedEnforcer reads again every CASBIN_RELOAD_INTERVAL:       *)
(*                                                                         *)
(*   StartLoad -> LoadFile ... LoadFile -> EndLoad                         *)
(*                                                                         *)
(* The files are edited at any time, also between two reads of one load.   *)
(***************************************************************************)
EXTENDS Naturals, FiniteSets, Sequences

CONSTANTS
    Paths,         \* the CSV files that CASBIN_POLICY may lead to
    Rules,         \* the lines load_policy_line takes: subject, object, action
    Bad,           \* a line that is not UTF-8: decode raises
    Contents       \* what a file may contain

(* A file that is not there; nothing can be read of it. *)
Missing == <<Bad, Bad>>

ASSUME ContentsAssumption ==
    /\ Bad \notin Rules
    /\ Contents \subseteq Seq(Rules \cup {Bad}) \ {Missing}

VARIABLES
    policyFiles,   \* the content of each file, or Missing
    policy,        \* the rules of the model in force
    serving,       \* TRUE once AuthzService is made
    loading,       \* TRUE while load_policy runs
    unread,        \* the policy_file_paths not yet read
    loaded,        \* the rules of the model being loaded
    seenLoading,   \* history: rules readable at some time of this load
    heldLoading,   \* history: <<file, rule>> pairs readable all that time
    seen, held     \* history: the same for the load in force

loadVars == <<unread, loaded, seenLoading, heldLoading>>
forceVars == <<policy, serving, seen, held>>
policyVars == <<policyFiles, loading, loadVars, forceVars>>

Unbroken(content) == \A i \in DOMAIN content : content[i] # Bad

(* Mutant: a line that is broken is taken as it is. *)
EveryLine(content) == {content[i] : i \in DOMAIN content}

(* The lines before one that raises are in the model already. *)
Readable(content) ==
    {content[i] : i \in {i \in DOMAIN content :
                           \A j \in 1..i : content[j] # Bad}}

AllReadable == UNION {Readable(policyFiles[p]) : p \in Paths}

Grants == {h \in Paths \X Rules : h[2] \in Readable(policyFiles[h[1]])}

PolicyTypeOK ==
    /\ policyFiles \in [Paths -> Contents \cup {Missing}]
    /\ policy \subseteq Rules
    /\ serving \in BOOLEAN
    /\ loading \in BOOLEAN
    /\ unread \subseteq Paths
    /\ loaded \subseteq Rules
    /\ seenLoading \subseteq Rules
    /\ heldLoading \subseteq Paths \X Rules
    /\ seen \subseteq Rules
    /\ held \subseteq Paths \X Rules

(* The container starts: the enforcer is not there yet. *)
PolicyInit ==
    /\ policyFiles \in [Paths -> Contents \cup {Missing}]
    /\ policy = {} /\ loaded = {} /\ unread = {}
    /\ serving = FALSE /\ loading = FALSE
    /\ seenLoading = {} /\ heldLoading = {}
    /\ seen = {} /\ held = {}

(* The constructor of the enforcer or its thread loads the policy into an  *)
(* empty model: the files are looked up, ...                               *)
StartLoad ==
    /\ ~loading
    /\ loading' = TRUE
    /\ unread' = {p \in Paths : policyFiles[p] # Missing}
    /\ loaded' = {}
    /\ seenLoading' = AllReadable
    /\ heldLoading' = Grants
    /\ UNCHANGED <<policyFiles, forceVars>>

(* Mutant: the first file that fails ends the load. *)
StopAtFailure(p) ==
    IF Unbroken(policyFiles[p]) THEN unread \ {p} ELSE {}

(* A file that fails is logged; the loop goes on. *)
UnreadAfter(p) == unread \ {p}

(* ... then read one after the other; one that has gone meanwhile cannot   *)
(* be opened, one with a broken line is read up to there.                  *)
LoadFile(p) ==
    /\ loading /\ p \in unread
    /\ unread' = UnreadAfter(p)
    /\ loaded' = loaded \cup Readable(policyFiles[p])
    /\ UNCHANGED <<policyFiles, loading, seenLoading, heldLoading, forceVars>>

(* Mutant: the rules are added to those in force. *)
Merged(old, new) == old \cup new

(* The model in force is replaced. *)
InForce(old, new) == new

EndLoad ==
    /\ loading /\ unread = {}
    /\ loading' = FALSE
    /\ policy' = InForce(policy, loaded)
    /\ serving' = TRUE
    /\ seen' = seenLoading
    /\ held' = heldLoading
    /\ loaded' = {} /\ seenLoading' = {} /\ heldLoading' = {}
    /\ UNCHANGED <<policyFiles, unread>>

(* Somebody writes, replaces or removes a policy file. *)
EditPolicy(p, content) ==
    /\ content # policyFiles[p]
    /\ policyFiles' = [policyFiles EXCEPT ![p] = content]
    /\ seenLoading' = IF loading THEN seenLoading \cup Readable(content) ELSE {}
    /\ heldLoading' =
         {h \in heldLoading : h[1] = p => h[2] \in Readable(content)}
    /\ UNCHANGED <<loading, unread, loaded, forceVars>>

LoadStep == StartLoad \/ EndLoad \/ \E p \in Paths : LoadFile(p)

PolicyNext ==
    \/ LoadStep
    \/ \E p \in Paths : \E content \in Contents \cup {Missing} :
         EditPolicy(p, content)

PolicySpec == PolicyInit /\ [][PolicyNext]_policyVars

-----------------------------------------------------------------------------
(* A rule that was taken out of the files before the load in force began   *)
(* is not in force, whatever files failed, came or went during that load:  *)
(* nothing of an earlier model is kept (load_policy fills a new model).    *)
RevokedIsGone == policy \subseteq seen

(* A rule that stayed readable in its file all through the load is in      *)
(* force: a file that vanished or has a line that cannot be decoded costs  *)
(* no other file's rules (the except of _load_policy_file is inside the    *)
(* loop).  It speaks of loading only: a line of the wrong size loads, and  *)
(* then makes enforce raise (Misfit in Access).                            *)
GrantedIsKept == \A h \in held : h[2] \in policy
=============================================================================
