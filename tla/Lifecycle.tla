----------------------------- MODULE Lifecycle -----------------------------
(***************************************************************************)
(* How a repository comes into being, is opened and reconfigured: init     *)
(* (commands/init.rs), key files (commands/key.rs, repofile/keyfile.rs),   *)
(* the config file (commands/config.rs, repofile/configfile.rs) and the    *)
(* opening of Repository (repository.rs), for a plain and for a hot/cold   *)
(* repository.  Each write of a file to one part is a step; a process can  *)
(* stop, or a write fail, before each of them.                             *)
(*                                                                         *)
(* Abstractions.  A master key is the number of the init that has made it; *)
(* a key file is the password that opens it and the master key it holds;   *)
(* scrypt and the encryption are perfect.  The config keeps the settings   *)
(* that another setting, or an opening, depends on.  Backends write whole  *)
(* files atomically (local/backend.rs 156-210) and keep one file `config`. *)
(***************************************************************************)
EXTENDS Integers, FiniteSets

CONSTANTS Proc,        \* processes
          Password,    \* the passwords in use
          Options,     \* sets of configuration options which users apply
          MaxKeys,     \* bound on the key files ever made
          MaxInits,    \* bound on the inits ever started
          MaxFaults,   \* bound on crashes and failed writes
          Exclusive    \* BOOLEAN: does at most one process at a time use the repository?

ASSUME LifecycleAssumption ==
    /\ MaxKeys \in Nat /\ MaxInits \in Nat /\ MaxFaults \in Nat
    /\ Exclusive \in BOOLEAN

\* A setting that may be missing, as <<>> or <<value>>.
Optional(S) == {<<>>} \cup [1 .. 1 -> S]
Chunkers == {"rabin", "fixed"}

\* ConfigOptions, as far as they are kept here.
ConfigOptions ==
    [version : Optional(Nat), chunker : Optional(Chunkers), size : Optional(Nat), min : Optional(Nat),
     compression : Optional(Int), append_only : Optional(BOOLEAN), extra_verify : Optional(BOOLEAN)]

ASSUME OptionsAssumption == Options \subseteq ConfigOptions

VARIABLES
    hotcold,     \* is there a hot part?
    keys,        \* keys[part]: the key files of the two parts
    config,      \* config[part]: the config file of each part, as <<>> or <<config>>
    keyfile,     \* the content of all key files ever made, by id
    proc,        \* proc[p]: what process p has opened and is about to do
    inits, faults,
    exported,    \* master keys that users hold themselves
    lifted,      \* has somebody asked to lift append-only mode?
    unaware      \* processes which were at work already when append-only mode was set

vars == <<hotcold, keys, config, keyfile, proc, inits, faults, exported, lifted, unaware>>

Parts == {"hot", "cold"}
Closed == [stage |-> "closed"]

Init ==
    /\ hotcold \in BOOLEAN
    /\ keys = [part \in Parts |-> {}] /\ config = [part \in Parts |-> <<>>]
    /\ keyfile = <<>>
    /\ proc = [p \in Proc |-> Closed]
    /\ inits = 0 /\ faults = 0 /\ exported = {} /\ lifted = FALSE /\ unaware = {}

\* The part which HotColdBackend reads key and config files from.
ReadPart == IF hotcold THEN "hot" ELSE "cold"
MayStart(p) == Exclusive => \A q \in Proc \ {p} : proc[q] = Closed

-----------------------------------------------------------------------------
(***************************************************************************)
(* ConfigFile and ConfigOptions                                            *)
(***************************************************************************)

\* ConfigFile::new; the master key with which the file is encrypted belongs to it.
NewConfig(mk) ==
    [mk |-> mk, version |-> 2, chunker |-> "rabin", size |-> 2, min |-> 1, compression |-> <<>>,
     append_only |-> FALSE, extra_verify |-> <<>>, is_hot |-> FALSE]

\* zstd: does a config have a version whose compression is known?
zstd(c) == c.version \in {1, 2}

\* The sizes that the rabin chunker can use (the maximum behaves like the minimum).
check_rabin_params(c) == c.chunker = "rabin" => c.min <= c.size

\* The value of an option, or what the config has.
Or(option, old) == IF option = <<>> THEN old ELSE option[1]

Changed(o, c) ==
    [c EXCEPT !.version = Or(o.version, @), !.chunker = Or(o.chunker, @), !.size = Or(o.size, @),
              !.min = Or(o.min, @), !.append_only = Or(o.append_only, @),
              !.compression = IF o.compression = <<>> THEN @ ELSE o.compression,
              !.extra_verify = o.extra_verify]

\* Mutant of applies: the chunk sizes are checked if they are given.
applies_given(o, c) ==
    LET new == Changed(o, c)
    IN  /\ o.version # <<>> => new.version \in 1 .. 2 /\ c.version <= new.version
        /\ o.size # <<>> \/ o.min # <<>> => check_rabin_params(new)
        /\ o.compression # <<>> => new.version = 2 \/ new.compression = <<0>>

\* ConfigOptions::apply: are the options accepted?  Versions are not lowered, the
\* sizes are checked against the chunker that results, and only version 2 compresses.
applies(o, c) ==
    LET new == Changed(o, c)
    IN  /\ o.version # <<>> => new.version \in 1 .. 2 /\ c.version <= new.version
        /\ check_rabin_params(new)
        /\ o.compression # <<>> => new.version = 2 \/ new.compression = <<0>>

-----------------------------------------------------------------------------
(***************************************************************************)
(* Files are written to the hot part first, but the config to the cold one *)
(***************************************************************************)

AddFile(part, k) == keys' = [keys EXCEPT ![part] = @ \cup {k}]
Goto(p, stage) ==
    proc' = [proc EXCEPT ![p] = [proc[p] EXCEPT !.stage = stage,
                                                !.init = proc[p].init /\ stage # "open"]]

\* After a key file: init goes on with the config, `key add` is done.
AfterKey(p) == IF proc[p].init THEN "config" ELSE "open"

\* add_key_to_repo: the key file, already generated, is written ...
WriteKeyHot(p) ==
    /\ proc[p].stage = "keyhot"
    /\ IF hotcold THEN AddFile("hot", proc[p].file) ELSE UNCHANGED keys
    /\ Goto(p, "keycold")
    /\ UNCHANGED <<hotcold, config, keyfile, inits, faults, exported, lifted, unaware>>

\* ... to both parts.
WriteKeyCold(p) ==
    /\ proc[p].stage = "keycold"
    /\ AddFile("cold", proc[p].file)
    /\ Goto(p, AfterKey(p))
    /\ UNCHANGED <<hotcold, config, keyfile, inits, faults, exported, lifted, unaware>>

\* Append-only mode is set where it is looked for: in the part that is read, and the cold one.
AppendOnly(part) == config[part] # <<>> /\ config[part][1].append_only
AppendOnlySet == AppendOnly(ReadPart) /\ AppendOnly("cold")

\* When process p sets the mode, note the others that are at work.
Notice(p) ==
    unaware' = IF AppendOnlySet' /\ ~AppendOnlySet
               THEN {q \in Proc \ {p} : proc[q] # Closed}
               ELSE unaware

\* save_config: the cold part gets the config of a repository which is not hot.
save_config(p) ==
    /\ proc[p].stage = "config"
    /\ config' = [config EXCEPT !["cold"] = <<[proc[p].cfg EXCEPT !.is_hot = FALSE]>>]
    /\ Goto(p, IF hotcold THEN "confighot" ELSE "open")
    /\ UNCHANGED <<hotcold, keys, keyfile, inits, faults, exported, lifted>>
    /\ Notice(p)

\* save_config_hot
save_config_hot(p) ==
    /\ proc[p].stage = "confighot"
    /\ config' = [config EXCEPT !["hot"] = <<[proc[p].cfg EXCEPT !.is_hot = TRUE]>>]
    /\ Goto(p, "open")
    /\ UNCHANGED <<hotcold, keys, keyfile, inits, faults, exported, lifted>>
    /\ Notice(p)

-----------------------------------------------------------------------------
(***************************************************************************)
(* init                                                                    *)
(***************************************************************************)

NextKey == Cardinality(DOMAIN keyfile) + 1

\* KeyFile::generate: a new salt makes the file, and its id, a new one.
generate(mk, pw) ==
    keyfile' = [k \in DOMAIN keyfile \cup {NextKey} |->
                    IF k = NextKey THEN [mk |-> mk, pw |-> pw] ELSE keyfile[k]]

\* Repository::init with a password: refused if there is a config in any part.
\* The config and a new master key are made before anything is written.
InitStart(p, o, pw) ==
    /\ MayStart(p) /\ proc[p] = Closed /\ inits < MaxInits /\ NextKey <= MaxKeys
    /\ \A part \in Parts : config[part] = <<>>
    /\ applies(o, NewConfig(inits + 1))
    /\ inits' = inits + 1
    /\ generate(inits + 1, pw)
    /\ proc' = [proc EXCEPT ![p] =
            [stage |-> "keyhot", init |-> TRUE, key |-> <<NextKey>>, file |-> NextKey, mk |-> inits + 1,
             cfg |-> [Changed(o, NewConfig(inits + 1)) EXCEPT !.is_hot = hotcold]]]
    /\ UNCHANGED <<hotcold, keys, config, faults, exported, lifted, unaware>>

\* Repository::init with a master key: no key file is written.
InitMasterkey(p, o) ==
    /\ MayStart(p) /\ proc[p] = Closed /\ inits < MaxInits
    /\ \A part \in Parts : config[part] = <<>>
    /\ applies(o, NewConfig(inits + 1))
    /\ inits' = inits + 1 /\ exported' = exported \cup {inits + 1}
    /\ proc' = [proc EXCEPT ![p] =
            [stage |-> "config", init |-> TRUE, key |-> <<>>, file |-> 0, mk |-> inits + 1,
             cfg |-> [Changed(o, NewConfig(inits + 1)) EXCEPT !.is_hot = hotcold]]]
    /\ UNCHANGED <<hotcold, keys, config, keyfile, faults, lifted, unaware>>

-----------------------------------------------------------------------------
(***************************************************************************)
(* open                                                                    *)
(***************************************************************************)

\* find_key_in_backend: any key file that the password opens, as listings have no
\* order.
find_key_in_backend(part, pw) == {k \in keys[part] : keyfile[k].pw = pw}

\* credentials: a password (with the key file found) or a master key of the user.
Found(part, cred) ==
    IF cred \in Password
    THEN {[key |-> <<k>>, mk |-> keyfile[k].mk] : k \in find_key_in_backend(part, cred)}
    ELSE {[key |-> <<>>, mk |-> mk] : mk \in exported}

\* open_raw refuses a part that is hot without the other, or the reverse, and a version
\* it does not know.
OpenRaw(c, is_hot) == is_hot = hotcold /\ zstd(c)

\* open_may_use_hot: the results of an opening.  There must be a config, the keys of
\* the two parts must match, and the config must be encrypted by the key that was found.
Opened(cred, use_hot) ==
    LET part == IF use_hot THEN ReadPart ELSE "cold"
        c == config[part][1]
        is_hot == IF use_hot THEN c.is_hot ELSE hotcold
    IN  IF config[part] = <<>> \/ (use_hot /\ hotcold /\ keys["hot"] # keys["cold"])
        THEN {}
        ELSE {[stage |-> "open", init |-> FALSE, key |-> f.key, file |-> 0, mk |-> f.mk,
               cfg |-> [c EXCEPT !.is_hot = is_hot]] :
                 f \in {g \in Found("cold", cred) : g.mk = c.mk /\ OpenRaw(c, is_hot)}}

\* Repository::open and open_only_cold
Open(p, cred, use_hot) ==
    /\ MayStart(p) /\ proc[p] = Closed
    /\ \E opened \in Opened(cred, use_hot) : proc' = [proc EXCEPT ![p] = opened]
    /\ unaware' = unaware \ {p}
    /\ UNCHANGED <<hotcold, keys, config, keyfile, inits, faults, exported, lifted>>

Close(p) ==
    /\ proc[p].stage = "open"
    /\ proc' = [proc EXCEPT ![p] = Closed]
    /\ UNCHANGED <<hotcold, keys, config, keyfile, inits, faults, exported, lifted, unaware>>

-----------------------------------------------------------------------------
(***************************************************************************)
(* Operations of an open repository                                        *)
(***************************************************************************)

\* add_key (add_current_key_to_repo): a key file for the current master key.
AddKey(p, pw) ==
    /\ proc[p].stage = "open" /\ NextKey <= MaxKeys
    /\ generate(proc[p].mk, pw)
    /\ proc' = [proc EXCEPT ![p] = [@ EXCEPT !.stage = "keyhot", !.file = NextKey]]
    /\ UNCHANGED <<hotcold, keys, config, inits, faults, exported, lifted, unaware>>

\* Mutant of DeleteKey: the current key can be removed.
DeleteKeyAny(p, k) ==
    /\ proc[p].stage = "open" /\ k \in keys["cold"]
    /\ keys' = [keys EXCEPT !["cold"] = @ \ {k}]
    /\ proc' = [proc EXCEPT ![p] = [@ EXCEPT !.stage = IF hotcold THEN "delhot" ELSE "open", !.file = k]]
    /\ UNCHANGED <<hotcold, config, keyfile, inits, faults, exported, lifted, unaware>>

\* delete_key: any key file but the one in use, first in the cold part ...
DeleteKey(p, k) ==
    /\ proc[p].stage = "open" /\ k \in keys["cold"]
    /\ proc[p].key # <<k>>
    /\ keys' = [keys EXCEPT !["cold"] = @ \ {k}]
    /\ proc' = [proc EXCEPT ![p] = [@ EXCEPT !.stage = IF hotcold THEN "delhot" ELSE "open", !.file = k]]
    /\ UNCHANGED <<hotcold, config, keyfile, inits, faults, exported, lifted, unaware>>

\* ... then in the hot one.
DeleteKeyHot(p) ==
    /\ proc[p].stage = "delhot"
    /\ keys' = [keys EXCEPT !["hot"] = @ \ {proc[p].file}]
    /\ Goto(p, "open")
    /\ UNCHANGED <<hotcold, config, keyfile, inits, faults, exported, lifted, unaware>>

\* Repository::key: users take the master key along.
ExportKey(p) ==
    /\ proc[p].stage = "open"
    /\ exported' = exported \cup {proc[p].mk}
    /\ UNCHANGED <<hotcold, keys, config, keyfile, proc, inits, faults, lifted, unaware>>

\* Mutant of ApplyConfig: append-only repositories can be reconfigured.
ApplyConfigAnyway(p, o) ==
    /\ proc[p].stage = "open" /\ applies(o, proc[p].cfg) /\ Changed(o, proc[p].cfg) # proc[p].cfg
    /\ proc' = [proc EXCEPT ![p] = [proc[p] EXCEPT !.stage = "config", !.cfg = Changed(o, proc[p].cfg)]]
    /\ lifted' = (lifted \/ o.append_only = <<FALSE>>)
    /\ UNCHANGED <<hotcold, keys, config, keyfile, inits, faults, exported, unaware>>

\* apply_config: refused in an append-only repository unless that mode is switched
\* off; the config in memory is changed before the one in the repository.
ApplyConfig(p, o) ==
    /\ proc[p].stage = "open"
    /\ proc[p].cfg.append_only => o.append_only = <<FALSE>>
    /\ applies(o, proc[p].cfg) /\ Changed(o, proc[p].cfg) # proc[p].cfg
    /\ proc' = [proc EXCEPT ![p] = [proc[p] EXCEPT !.stage = "config", !.cfg = Changed(o, proc[p].cfg)]]
    /\ lifted' = (lifted \/ o.append_only = <<FALSE>>)
    /\ UNCHANGED <<hotcold, keys, config, keyfile, inits, faults, exported, unaware>>

\* init_hot: writes the config in memory to the hot part.
InitHot(p) ==
    /\ proc[p].stage = "open" /\ hotcold
    /\ Goto(p, "confighot")
    /\ UNCHANGED <<hotcold, keys, config, keyfile, inits, faults, exported, lifted, unaware>>

\* repair hotcold for key files, which needs no open repository: a key file that one
\* part misses is copied from the other.  Config files are not copied.
RepairKeys ==
    /\ hotcold /\ \A p \in Proc : proc[p] = Closed
    /\ keys["hot"] # keys["cold"]
    /\ keys' = [part \in Parts |-> keys["hot"] \cup keys["cold"]]
    /\ UNCHANGED <<hotcold, config, keyfile, proc, inits, faults, exported, lifted, unaware>>

\* A write fails: an open repository stays open, with the config it has in memory.
Fail(p) ==
    /\ proc[p].stage \notin {"closed", "open"} /\ faults < MaxFaults
    /\ faults' = faults + 1
    /\ proc' = [proc EXCEPT ![p] = IF @.init THEN Closed ELSE [@ EXCEPT !.stage = "open"]]
    /\ UNCHANGED <<hotcold, keys, config, keyfile, inits, exported, lifted, unaware>>

Crash(p) ==
    /\ proc[p].stage \notin {"closed", "open"} /\ faults < MaxFaults
    /\ faults' = faults + 1
    /\ proc' = [proc EXCEPT ![p] = Closed]
    /\ UNCHANGED <<hotcold, keys, config, keyfile, inits, exported, lifted, unaware>>

-----------------------------------------------------------------------------
ProcNext(p) ==
    \/ \E o \in Options, pw \in Password : InitStart(p, o, pw)
    \/ \E o \in Options : InitMasterkey(p, o) \/ ApplyConfig(p, o)
    \/ \E cred \in Password \cup {"masterkey"}, use_hot \in BOOLEAN : Open(p, cred, use_hot)
    \/ \E pw \in Password : AddKey(p, pw)
    \/ \E k \in DOMAIN keyfile : DeleteKey(p, k)
    \/ WriteKeyHot(p) \/ WriteKeyCold(p) \/ save_config(p) \/ save_config_hot(p)
    \/ DeleteKeyHot(p) \/ ExportKey(p) \/ InitHot(p) \/ Close(p) \/ Fail(p) \/ Crash(p)

Next == RepairKeys \/ \E p \in Proc : ProcNext(p)
Spec == Init /\ [][Next]_vars

-----------------------------------------------------------------------------
(***************************************************************************)
(* Properties                                                              *)
(***************************************************************************)

AllKeys == keys["hot"] \cup keys["cold"]
Idle == \A p \in Proc : proc[p] = Closed

\* A repository that has a config never loses its last key: the master key which
\* encrypts the config is in a key file of some part, or with a user, wherever init,
\* `key add` and `key remove` have stopped.
MasterKeyRemains ==
    \A part \in Parts : config[part] # <<>> =>
        \/ config[part][1].mk \in exported
        \/ \E k \in AllKeys : keyfile[k].mk = config[part][1].mk

\* Whatever init, key and config commands have stopped half-way, and whatever options
\* were accepted before: after `repair hotcold` a password whose key files belong to
\* the config opens the cold part, with sizes its chunker can use; and where the keys
\* match and there is a config in both parts, the repository opens normally.
Openable ==
    Idle /\ config["cold"] # <<>> =>
        \A k \in AllKeys :
            LET c == config["cold"][1]
                pw == keyfile[k].pw
                clear == \A l \in AllKeys : keyfile[l].pw = pw => keyfile[l].mk = c.mk
            IN  clear =>
                /\ zstd(c) /\ check_rabin_params(c) /\ ~c.is_hot
                /\ k \in keys["cold"] => \E opened \in Opened(pw, FALSE) : opened.mk = c.mk
                /\ k \in keys["cold"] /\ config[ReadPart] # <<>> /\ (hotcold => keys["hot"] = keys["cold"])
                      => Opened(pw, TRUE) # {}

\* "Commands which are not append-only won't run once this is set" (configfile.rs 91):
\* append-only mode stays set until a command has asked to lift it, whatever failed
\* before.  Not so: apply_config looks at the config in memory only.
AppendOnlyStays == [][AppendOnlySet /\ ~AppendOnlySet' => lifted]_vars

\* What holds of it, with any number of processes, failed writes and stops between the
\* two parts: unasked, the mode is undone, and the config which the hot part is a copy of
\* changed, only by a process that was at work before the mode was set and has not opened
\* the repository again since (apply_config, save_config, init_hot).
AppendOnlyKept ==
    [][AppendOnlySet /\ ~(AppendOnlySet' /\ config'["cold"] = config["cold"])
          => lifted \/ \E p \in unaware : proc[p] # Closed /\ proc'[p] # proc[p]]_vars

-----------------------------------------------------------------------------
(***************************************************************************)
(* The inductive invariants: of any use of a repository, and of exclusive  *)
(* use                                                                     *)
(***************************************************************************)

ConfigFile == [mk : Nat, version : Nat, chunker : Chunkers, size : Nat, min : Nat,
               compression : Optional(Int), append_only : BOOLEAN,
               extra_verify : Optional(BOOLEAN), is_hot : BOOLEAN]
Stages == {"keyhot", "keycold", "config", "confighot", "delhot", "open"}
ProcState == [stage : Stages, init : BOOLEAN, key : Optional(Nat), file : Nat, mk : Nat,
              cfg : ConfigFile]

TypeOK ==
    /\ hotcold \in BOOLEAN
    /\ \E n \in 0 .. MaxKeys : keyfile \in [1 .. n -> [mk : Nat, pw : Password]]
    /\ keys \in [Parts -> SUBSET DOMAIN keyfile]
    /\ config \in [Parts -> Optional(ConfigFile)]
    /\ proc \in [Proc -> ProcState \cup {Closed}]
    /\ inits \in Nat /\ faults \in Nat /\ exported \subseteq Nat
    /\ lifted \in BOOLEAN /\ unaware \subseteq Proc

Configured == {part \in Parts : config[part] # <<>>}

\* Every config there is can be used, by the part it is in.
Valid(c) == zstd(c) /\ check_rabin_params(c)
ValidConfigs ==
    \A part \in Configured :
        Valid(config[part][1]) /\ config[part][1].is_hot = (part = "hot")

\* The cold part gets its config first, and both belong to one master key.
OneMaster ==
    /\ "hot" \in Configured => hotcold /\ "cold" \in Configured
    /\ \A a, b \in Configured : config[a][1].mk = config[b][1].mk

OneProc == \A p, q \in Proc : p = q \/ proc[p] = Closed \/ proc[q] = Closed

\* A process has the master key of the config.  The key file it has found or, at `init`,
\* written, is in the cold part and not the one it removes.
HoldsKey(p) ==
    LET s == proc[p]
        making == s.init /\ s.stage \in {"keyhot", "keycold"}
    IN  /\ s.cfg.mk = s.mk
        /\ \A part \in Configured : config[part][1].mk = s.mk
        /\ s.init => s.stage \in {"keyhot", "keycold", "config", "confighot"}
        /\ (s.init /\ s.stage # "confighot") <=> Configured = {}
        /\ s.stage = "confighot" => hotcold
        /\ s.stage \in {"keyhot", "keycold"} => s.file \in DOMAIN keyfile
        /\ making => s.key = <<s.file>>
        /\ s.stage = "delhot" => s.key # <<s.file>>
        /\ IF s.key = <<>> THEN s.mk \in exported
           ELSE /\ s.key[1] \in DOMAIN keyfile /\ keyfile[s.key[1]].mk = s.mk
                /\ ~making => s.key[1] \in keys["cold"]

\* The config a process has in memory can be used.
HoldsConfig(p) == Valid(proc[p].cfg)

LifecycleInv ==
    /\ TypeOK /\ ValidConfigs /\ OneMaster /\ OneProc
    /\ \A p \in Proc : proc[p] # Closed => HoldsKey(p) /\ HoldsConfig(p)
    /\ MasterKeyRemains

\* What keeps append-only mode with any number of processes: whoever has opened the
\* repository since has it in memory, and is not about to write the config.
KeysMade == \A p \in Proc : proc[p].stage \in {"keyhot", "keycold"} => proc[p].file \in DOMAIN keyfile
Rewriting(s) == s.stage = "config" \/ (s.init /\ s.stage # "confighot")
Aware ==
    ~lifted /\ AppendOnlySet =>
        \A p \in Proc \ unaware : proc[p] # Closed => proc[p].cfg.append_only /\ ~Rewriting(proc[p])
AppendOnlyInv == TypeOK /\ KeysMade /\ Aware
=============================================================================
