-------------------------- MODULE LifecycleProofs --------------------------
(***************************************************************************)
(* Of a repository which is used by one process at a time: no stopped      *)
(* init, key or config command takes away the last key, and repairing the  *)
(* key files opens it.  With any number of processes: append-only mode is  *)
(* not undone by a process that has opened the repository since.           *)
(***************************************************************************)
EXTENDS Lifecycle, FiniteSetTheorems, TLAPS

(***************************************************************************)
(* Values                                                                  *)
(***************************************************************************)
LEMMA Present ==
    ASSUME NEW S, NEW x \in S
    PROVE  <<x>> \in Optional(S) /\ <<x>> # <<>> /\ <<x>>[1] = x
BY DEF Optional

LEMMA Content ==
    ASSUME NEW S, NEW o \in Optional(S), o # <<>>
    PROVE  o[1] \in S
BY DEF Optional

LEMMA Absent == ASSUME NEW S PROVE <<>> \in Optional(S)
BY DEF Optional

\* A process that has opened the repository, or is making it.
LEMMA Process ==
    ASSUME NEW s \in ProcState
    PROVE  /\ s # Closed /\ s.stage # "closed"
           /\ s.stage \in Stages /\ s.init \in BOOLEAN /\ s.key \in Optional(Nat)
           /\ s.file \in Nat /\ s.mk \in Nat /\ s.cfg \in ConfigFile
BY DEF ProcState, Closed, Stages

LEMMA Active ==
    ASSUME TypeOK, NEW p \in Proc, proc[p] # Closed \/ proc[p].stage # "closed"
    PROVE  proc[p] \in ProcState /\ proc[p] # Closed
<1>1. proc[p] \in ProcState \cup {Closed}
  BY DEF TypeOK
<1> QED BY <1>1, Process DEF Closed

\* The config of one part of a repository, as the other part has it.
LEMMA HotFlag ==
    ASSUME NEW c \in ConfigFile, NEW b \in BOOLEAN
    PROVE  /\ [c EXCEPT !.is_hot = b] \in ConfigFile
           /\ [c EXCEPT !.is_hot = b].is_hot = b
           /\ [c EXCEPT !.is_hot = b].mk = c.mk
           /\ [c EXCEPT !.is_hot = b].append_only = c.append_only
           /\ Valid(c) => Valid([c EXCEPT !.is_hot = b])
<1>1. [c EXCEPT !.is_hot = b] \in ConfigFile /\ [c EXCEPT !.is_hot = b].is_hot = b
  BY DEF ConfigFile
<1>3. Valid(c) => Valid([c EXCEPT !.is_hot = b])
  BY DEF Valid, zstd, check_rabin_params, ConfigFile
<1>4. [c EXCEPT !.is_hot = b].mk = c.mk /\ [c EXCEPT !.is_hot = b].append_only = c.append_only
  BY DEF ConfigFile
<1> QED BY <1>1, <1>3, <1>4

\* ConfigFile::new makes a config that can be used ...
LEMMA NewConfigValid ==
    ASSUME NEW mk \in Nat
    PROVE  NewConfig(mk) \in ConfigFile /\ Valid(NewConfig(mk)) /\ NewConfig(mk).mk = mk
BY Absent DEF NewConfig, ConfigFile, Chunkers, Valid, zstd, check_rabin_params

\* ... and what ConfigOptions::apply accepts does not change that.
LEMMA ChangedConfig ==
    ASSUME NEW o \in Options, NEW c \in ConfigFile
    PROVE  /\ Changed(o, c) \in ConfigFile
           /\ Changed(o, c).mk = c.mk
           /\ Valid(c) /\ applies(o, c) => Valid(Changed(o, c))
<1>0. o \in ConfigOptions
  BY OptionsAssumption
<1>1. /\ Or(o.version, c.version) \in Nat /\ Or(o.chunker, c.chunker) \in Chunkers
      /\ Or(o.size, c.size) \in Nat /\ Or(o.min, c.min) \in Nat
      /\ Or(o.append_only, c.append_only) \in BOOLEAN
  BY <1>0, Content DEF ConfigOptions, ConfigFile, Or
<1>2. /\ o.compression \in Optional(Int) /\ c.compression \in Optional(Int)
      /\ o.extra_verify \in Optional(BOOLEAN)
  BY <1>0 DEF ConfigOptions, ConfigFile
<1> DEFINE new == Changed(o, c)
<1>3. new = [c EXCEPT !.version = Or(o.version, c.version), !.chunker = Or(o.chunker, c.chunker),
                      !.size = Or(o.size, c.size), !.min = Or(o.min, c.min),
                      !.append_only = Or(o.append_only, c.append_only),
                      !.compression = IF o.compression = <<>> THEN c.compression ELSE o.compression,
                      !.extra_verify = o.extra_verify]
  BY DEF Changed, ConfigFile
<1>4. new \in ConfigFile
  BY <1>1, <1>2, <1>3 DEF ConfigFile
<1>5. new.mk = c.mk /\ new.version = Or(o.version, c.version)
  BY <1>3 DEF ConfigFile
<1>6. ASSUME Valid(c), applies(o, c)  PROVE Valid(new)
  <2>1. check_rabin_params(new) /\ (o.version # <<>> => new.version \in 1 .. 2)
    BY <1>6 DEF applies
  <2>2. o.version = <<>> => new.version = c.version
    BY <1>5 DEF Or
  <2> QED BY <1>4, <1>6, <2>1, <2>2 DEF Valid, zstd, ConfigFile
<1> QED BY <1>4, <1>5, <1>6

(***************************************************************************)
(* Steps                                                                   *)
(***************************************************************************)
LEMMA KeyIds ==
    ASSUME TypeOK
    PROVE  DOMAIN keyfile \subseteq Nat /\ NextKey \in Nat \ {0} /\ NextKey \notin DOMAIN keyfile
<1>1. PICK n \in 0 .. MaxKeys : keyfile \in [1 .. n -> [mk : Nat, pw : Password]]
  BY DEF TypeOK
<1>2. DOMAIN keyfile = 1 .. n /\ n \in Nat
  BY <1>1, LifecycleAssumption
<1>3. Cardinality(1 .. n) = n
  BY <1>2, FS_Interval
<1> QED BY <1>2, <1>3 DEF NextKey

LEMMA KeyTypes ==
    ASSUME TypeOK, NEW k \in DOMAIN keyfile
    PROVE  keyfile[k].mk \in Nat /\ keyfile[k].pw \in Password
BY DEF TypeOK

LEMMA Generated ==
    ASSUME TypeOK, NEW mk \in Nat, NEW pw \in Password, generate(mk, pw), NextKey <= MaxKeys
    PROVE  /\ \E n \in 0 .. MaxKeys : keyfile' \in [1 .. n -> [mk : Nat, pw : Password]]
           /\ NextKey \in DOMAIN keyfile' /\ keyfile'[NextKey].mk = mk
           /\ \A k \in DOMAIN keyfile : k \in DOMAIN keyfile' /\ keyfile'[k] = keyfile[k]
<1>1. PICK n \in 0 .. MaxKeys : keyfile \in [1 .. n -> [mk : Nat, pw : Password]]
  BY DEF TypeOK
<1>2. DOMAIN keyfile = 1 .. n /\ n \in Nat
  BY <1>1, LifecycleAssumption
<1>3. NextKey = n + 1
  <2>1. Cardinality(1 .. n) = n
    BY <1>2, FS_Interval
  <2> QED BY <1>2, <2>1 DEF NextKey
<1>4. DOMAIN keyfile \cup {NextKey} = 1 .. n + 1
  BY <1>2, <1>3
<1>5. keyfile' = [k \in 1 .. n + 1 |-> IF k = NextKey THEN [mk |-> mk, pw |-> pw] ELSE keyfile[k]]
  BY <1>4, Zenon DEF generate
<1>6. keyfile' \in [1 .. n + 1 -> [mk : Nat, pw : Password]]
  BY <1>1, <1>3, <1>5
<1>7. n + 1 \in 0 .. MaxKeys
  BY <1>2, <1>3, LifecycleAssumption
<1>8. keyfile'[NextKey] = [mk |-> mk, pw |-> pw]
  BY <1>2, <1>3, <1>5
<1> QED BY <1>2, <1>3, <1>5, <1>6, <1>7, <1>8

LEMMA GotoIs ==
    ASSUME NEW p \in Proc, NEW stage \in Stages, Goto(p, stage),
           proc \in [Proc -> ProcState \cup {Closed}], proc[p] \in ProcState
    PROVE  /\ proc' = [proc EXCEPT ![p] = proc'[p]] /\ proc'[p] \in ProcState
           /\ proc'[p].stage = stage /\ proc'[p].init = (proc[p].init /\ stage # "open")
           /\ proc'[p].key = proc[p].key /\ proc'[p].file = proc[p].file
           /\ proc'[p].mk = proc[p].mk /\ proc'[p].cfg = proc[p].cfg
<1> DEFINE s == [proc[p] EXCEPT !.stage = stage, !.init = @ /\ stage # "open"]
<1>1. proc' = [proc EXCEPT ![p] = s]
  BY Zenon DEF Goto
<1>2. proc'[p] = s
  BY <1>1
<1>3. s \in ProcState /\ s.stage = stage /\ s.init = (proc[p].init /\ stage # "open")
  BY DEF ProcState
<1>4. s.key = proc[p].key /\ s.file = proc[p].file /\ s.mk = proc[p].mk /\ s.cfg = proc[p].cfg
  BY DEF ProcState
<1> QED BY <1>1, <1>2, <1>3, <1>4

\* A process at work or about to open is alone.
LEMMA Alone ==
    ASSUME LifecycleInv, Exclusive, NEW p \in Proc, proc[p] # Closed \/ MayStart(p)
    PROVE  \A q \in Proc \ {p} : proc[q] = Closed
BY DEF LifecycleInv, OneProc, MayStart

\* What is to be shown of a step of a process that is alone.
LEMMA StepOfOne ==
    ASSUME LifecycleInv, NEW p \in Proc, \A q \in Proc \ {p} : proc[q] = Closed,
           NEW s \in ProcState \cup {Closed}, proc' = [proc EXCEPT ![p] = s],
           TypeOK', ValidConfigs', OneMaster',
           s # Closed => HoldsKey(p)' /\ HoldsConfig(p)',
           s = Closed => MasterKeyRemains'
    PROVE  LifecycleInv'
<1>1. proc'[p] = s /\ \A q \in Proc \ {p} : proc'[q] = Closed
  BY DEF LifecycleInv, TypeOK
<1>2. OneProc'
  BY <1>1 DEF OneProc
<1>3. \A q \in Proc : proc'[q] # Closed => HoldsKey(q)' /\ HoldsConfig(q)'
  BY <1>1
<1>4. ASSUME s # Closed  PROVE MasterKeyRemains'
  <2>1. HoldsKey(p)'
    BY <1>4
  <2> SUFFICES ASSUME NEW part \in Parts, config'[part] # <<>>
               PROVE  \/ config'[part][1].mk \in exported'
                      \/ \E k \in AllKeys' : keyfile'[k].mk = config'[part][1].mk
    BY DEF MasterKeyRemains
  <2>2. part \in Configured'
    BY DEF Configured
  <2>3. config'[part][1].mk = proc'[p].mk /\ ~(proc'[p].init /\ proc'[p].stage \in {"keyhot", "keycold"})
    BY <2>1, <2>2 DEF HoldsKey
  <2> QED BY <2>1, <2>3 DEF HoldsKey, AllKeys
<1> QED BY <1>2, <1>3, <1>4 DEF LifecycleInv

(***************************************************************************)
(* Steps that write nothing to the repository                              *)
(***************************************************************************)

\* The parts of the invariant about the repository, when only a process changes.
LEMMA RepositoryKept ==
    ASSUME LifecycleInv, UNCHANGED <<hotcold, keys, config, keyfile>>, exported \subseteq exported'
    PROVE  /\ ValidConfigs' /\ OneMaster' /\ MasterKeyRemains'
           /\ Configured' = Configured
<1>1. Configured' = Configured
  BY DEF Configured
<1> QED BY <1>1 DEF LifecycleInv, ValidConfigs, OneMaster, MasterKeyRemains, AllKeys

LEMMA CloseKeeps ==
    ASSUME LifecycleInv, Exclusive, NEW p \in Proc,
           Close(p) \/ Crash(p) \/ (Fail(p) /\ proc[p].init)
    PROVE  LifecycleInv'
<1>0. TypeOK /\ proc[p] \in ProcState /\ proc[p] # Closed
  <2>1. proc[p].stage # "closed"
    BY DEF Close, Crash, Fail
  <2> QED BY <2>1, Active DEF LifecycleInv
<1>1. /\ proc' = [proc EXCEPT ![p] = Closed]
      /\ UNCHANGED <<hotcold, keys, config, keyfile, inits, exported, lifted, unaware>>
      /\ faults' \in Nat
  <2>1. CASE Close(p)
    BY <1>0, <2>1 DEF Close, TypeOK
  <2>2. CASE Crash(p)
    BY <1>0, <2>2 DEF Crash, TypeOK
  <2>3. CASE Fail(p) /\ proc[p].init
    BY <1>0, <2>3 DEF Fail, TypeOK
  <2> QED BY <2>1, <2>2, <2>3
<1>2. TypeOK'
  BY <1>0, <1>1 DEF TypeOK
<1> QED BY <1>0, <1>1, <1>2, Alone, RepositoryKept, StepOfOne

\* A write has failed: the repository is still open.
LEMMA FailKeeps ==
    ASSUME LifecycleInv, Exclusive, NEW p \in Proc, Fail(p), ~proc[p].init
    PROVE  LifecycleInv'
<1>0. TypeOK /\ proc[p] \in ProcState /\ proc[p] # Closed /\ HoldsKey(p) /\ HoldsConfig(p)
  BY Active DEF LifecycleInv, Fail
<1> DEFINE s == [proc[p] EXCEPT !.stage = "open"]
<1>1. /\ s \in ProcState /\ s # Closed /\ s.stage = "open" /\ s.init = FALSE /\ s.key = proc[p].key
      /\ s.file = proc[p].file /\ s.mk = proc[p].mk /\ s.cfg = proc[p].cfg
  BY <1>0, Process DEF ProcState, Stages, Fail
<1>2. /\ proc' = [proc EXCEPT ![p] = s] /\ proc'[p] = s
      /\ UNCHANGED <<hotcold, keys, config, keyfile, inits, exported, lifted, unaware>>
      /\ faults' \in Nat
  BY <1>0 DEF Fail, TypeOK
<1>3. TypeOK'
  BY <1>0, <1>1, <1>2 DEF TypeOK
<1>4. ValidConfigs' /\ OneMaster' /\ Configured' = Configured
  BY <1>0, <1>2, RepositoryKept DEF TypeOK
<1>5. HoldsKey(p)'
  BY <1>0, <1>1, <1>2, <1>4 DEF HoldsKey
<1>6. HoldsConfig(p)'
  BY <1>0, <1>1, <1>2, <1>4 DEF HoldsConfig
<1> QED BY <1>0, <1>1, <1>2, <1>3, <1>4, <1>5, <1>6, Alone, StepOfOne

\* What is opened has the key and the config of a part.
LEMMA OpenedProcess ==
    ASSUME TypeOK, NEW cred \in Password \cup {"masterkey"}, NEW use_hot \in BOOLEAN,
           NEW s \in Opened(cred, use_hot)
    PROVE  LET c == config[IF use_hot THEN ReadPart ELSE "cold"][1]
           IN  /\ (IF use_hot THEN ReadPart ELSE "cold") \in Configured
               /\ c \in ConfigFile /\ s \in ProcState /\ s.stage = "open" /\ s.init = FALSE
               /\ s.cfg.mk = s.mk /\ c.mk = s.mk
               /\ Valid(c) => Valid(s.cfg)
               /\ s.cfg.append_only = c.append_only
               /\ IF s.key = <<>> THEN s.mk \in exported
                  ELSE s.key[1] \in keys["cold"] /\ keyfile[s.key[1]].mk = s.mk
<1> DEFINE part == IF use_hot THEN ReadPart ELSE "cold"
           c == config[part][1]
           is_hot == IF use_hot THEN c.is_hot ELSE hotcold
<1>0. part \in Parts
  BY DEF ReadPart, Parts
<1>1. PICK f \in Found("cold", cred) :
         /\ config[part] # <<>> /\ f.mk = c.mk
         /\ s = [stage |-> "open", init |-> FALSE, key |-> f.key, file |-> 0, mk |-> f.mk,
                 cfg |-> [c EXCEPT !.is_hot = is_hot]]
  BY Zenon DEF Opened
<1>2. part \in Configured /\ c \in ConfigFile /\ c.mk \in Nat /\ c.is_hot \in BOOLEAN /\ is_hot \in BOOLEAN
  BY <1>0, <1>1, Content DEF Configured, TypeOK, ConfigFile
<1>3. /\ f.key \in Optional(Nat)
      /\ IF f.key = <<>> THEN f.mk \in exported
         ELSE f.key[1] \in keys["cold"] /\ keyfile[f.key[1]].mk = f.mk
  <2>1. CASE cred \in Password
    <3>1. PICK k \in keys["cold"] : f = [key |-> <<k>>, mk |-> keyfile[k].mk]
      BY <2>1 DEF Found, find_key_in_backend
    <3>2. k \in Nat
      BY KeyIds DEF TypeOK, Parts
    <3> QED BY <3>1, <3>2, Present
  <2>2. CASE cred \notin Password
    <3>1. f.key = <<>> /\ f.mk \in exported
      BY <2>2 DEF Found
    <3> QED BY <3>1, Absent
  <2> QED BY <2>1, <2>2
<1>4. /\ s.stage = "open" /\ s.init = FALSE /\ s.key = f.key /\ s.file = 0 /\ s.mk = f.mk
      /\ s.cfg = [c EXCEPT !.is_hot = is_hot]
  BY <1>1
<1>5. /\ s.cfg \in ConfigFile /\ s.cfg.mk = c.mk /\ s.cfg.append_only = c.append_only
      /\ Valid(c) => Valid(s.cfg)
  BY <1>2, <1>4, HotFlag
<1>6. s \in ProcState
  BY <1>1, <1>2, <1>3, <1>4, <1>5 DEF ProcState, Stages
<1> QED BY <1>1, <1>2, <1>3, <1>4, <1>5, <1>6

LEMMA OpenedConfig ==
    ASSUME LifecycleInv, NEW cred \in Password \cup {"masterkey"}, NEW use_hot \in BOOLEAN,
           NEW s \in Opened(cred, use_hot)
    PROVE  /\ s \in ProcState /\ s.stage = "open" /\ s.init = FALSE /\ s.cfg.mk = s.mk /\ Valid(s.cfg)
           /\ \E part \in Configured : config[part][1].mk = s.mk
           /\ IF s.key = <<>> THEN s.mk \in exported
              ELSE s.key[1] \in keys["cold"] /\ keyfile[s.key[1]].mk = s.mk
<1> DEFINE part == IF use_hot THEN ReadPart ELSE "cold"
<1>1. TypeOK
  BY DEF LifecycleInv
<1>2. part \in Configured => Valid(config[part][1])
  BY DEF LifecycleInv, ValidConfigs
<1> QED BY <1>1, <1>2, OpenedProcess

LEMMA OpenKeeps ==
    ASSUME LifecycleInv, Exclusive, NEW p \in Proc, NEW cred \in Password \cup {"masterkey"},
           NEW use_hot \in BOOLEAN, Open(p, cred, use_hot)
    PROVE  LifecycleInv'
<1>0. TypeOK
  BY DEF LifecycleInv
<1>1. PICK s \in Opened(cred, use_hot) : proc' = [proc EXCEPT ![p] = s]
  BY DEF Open
<1>2. /\ UNCHANGED <<hotcold, keys, config, keyfile, inits, faults, exported, lifted>> /\ MayStart(p)
      /\ unaware' = unaware \ {p}
  BY DEF Open
<1>3. s \in ProcState /\ s # Closed /\ proc'[p] = s
  BY <1>0, <1>1, OpenedConfig, Process DEF TypeOK
<1>4. TypeOK'
  BY <1>0, <1>1, <1>2, <1>3 DEF TypeOK
<1>5. ValidConfigs' /\ OneMaster' /\ Configured' = Configured
  BY <1>0, <1>2, RepositoryKept DEF TypeOK
<1>6. PICK part \in Configured : config[part][1].mk = s.mk
  BY OpenedConfig
<1>7. /\ s.stage = "open" /\ s.init = FALSE /\ s.cfg.mk = s.mk /\ Valid(s.cfg)
      /\ IF s.key = <<>> THEN s.mk \in exported
         ELSE s.key[1] \in keys["cold"] /\ keyfile[s.key[1]].mk = s.mk
  BY OpenedConfig
<1>8. HoldsKey(p)'
  <2>1. \A a \in Configured : config[a][1].mk = s.mk
    BY <1>6 DEF LifecycleInv, OneMaster
  <2>2. keys["cold"] \subseteq DOMAIN keyfile
    BY <1>0 DEF TypeOK, Parts
  <2> QED BY <1>2, <1>3, <1>5, <1>6, <1>7, <2>1, <2>2 DEF HoldsKey
<1>9. HoldsConfig(p)'
  BY <1>2, <1>3, <1>5, <1>6, <1>7 DEF HoldsConfig
<1> QED BY <1>1, <1>2, <1>3, <1>4, <1>5, <1>8, <1>9, Alone, StepOfOne

\* An open repository has a config, and the process is not creating it.
LEMMA OpenHas ==
    ASSUME LifecycleInv, NEW p \in Proc, proc[p].stage = "open"
    PROVE  /\ TypeOK /\ proc[p] \in ProcState /\ proc[p] # Closed /\ proc[p].init = FALSE
           /\ HoldsKey(p) /\ HoldsConfig(p) /\ Configured # {}
<1>1. TypeOK /\ proc[p] \in ProcState /\ proc[p] # Closed /\ HoldsKey(p) /\ HoldsConfig(p)
  BY Active DEF LifecycleInv
<1>2. proc[p].init = FALSE
  BY <1>1, Process DEF HoldsKey
<1> QED BY <1>1, <1>2 DEF HoldsKey

\* apply_config leaves a config that can be used.
LEMMA ApplyConfigKeeps ==
    ASSUME LifecycleInv, Exclusive, NEW p \in Proc, NEW o \in Options, ApplyConfig(p, o)
    PROVE  LifecycleInv'
<1>0. /\ TypeOK /\ proc[p] \in ProcState /\ proc[p] # Closed /\ proc[p].init = FALSE
      /\ HoldsKey(p) /\ HoldsConfig(p) /\ Configured # {}
  BY OpenHas DEF ApplyConfig
<1> DEFINE new == Changed(o, proc[p].cfg)
           s == [proc[p] EXCEPT !.stage = "config", !.cfg = new]
<1>1. new \in ConfigFile /\ new.mk = proc[p].cfg.mk /\ Valid(new)
  BY <1>0, Process, ChangedConfig DEF ApplyConfig, HoldsConfig
<1>2. /\ s \in ProcState /\ s # Closed /\ s.stage = "config" /\ s.init = FALSE /\ s.key = proc[p].key
      /\ s.file = proc[p].file /\ s.mk = proc[p].mk /\ s.cfg = new
  <2> HIDE DEF new
  <2>1. s \in ProcState
    BY <1>0, <1>1 DEF ProcState, Stages
  <2>2. /\ s.stage = "config" /\ s.init = FALSE /\ s.key = proc[p].key
        /\ s.file = proc[p].file /\ s.mk = proc[p].mk /\ s.cfg = new
    BY <1>0 DEF ProcState
  <2> HIDE DEF s
  <2> QED BY <2>1, <2>2, Process
<1>3. /\ proc' = [proc EXCEPT ![p] = s] /\ proc'[p] = s
      /\ UNCHANGED <<hotcold, keys, config, keyfile, inits, faults, exported>>
      /\ lifted' \in BOOLEAN /\ unaware' = unaware
  <2>1. proc' = [proc EXCEPT ![p] = s]
    BY Zenon DEF ApplyConfig
  <2>2. lifted' \in BOOLEAN
    BY <1>0 DEF ApplyConfig, TypeOK
  <2>3. proc'[p] = s
    BY <1>0, <2>1 DEF TypeOK
  <2> QED BY <2>1, <2>2, <2>3 DEF ApplyConfig
<1> HIDE DEF s, new
<1>4. TypeOK'
  BY <1>0, <1>2, <1>3 DEF TypeOK
<1>5. ValidConfigs' /\ OneMaster' /\ Configured' = Configured
  BY <1>0, <1>3, RepositoryKept DEF TypeOK
<1>6. HoldsKey(p)'
  BY <1>0, <1>1, <1>2, <1>3, <1>5 DEF HoldsKey
<1>8. HoldsConfig(p)'
  BY <1>1, <1>2, <1>3 DEF HoldsConfig
<1> QED BY <1>0, <1>2, <1>3, <1>4, <1>5, <1>6, <1>8, Alone, StepOfOne

LEMMA InitHotKeeps ==
    ASSUME LifecycleInv, Exclusive, NEW p \in Proc, InitHot(p)
    PROVE  LifecycleInv'
<1>0. /\ TypeOK /\ proc[p] \in ProcState /\ proc[p] # Closed /\ proc[p].init = FALSE
      /\ HoldsKey(p) /\ HoldsConfig(p) /\ Configured # {}
  BY OpenHas DEF InitHot
<1>1. /\ proc' = [proc EXCEPT ![p] = proc'[p]] /\ proc'[p] \in ProcState
      /\ proc'[p].stage = "confighot" /\ proc'[p].init = FALSE
      /\ proc'[p].key = proc[p].key /\ proc'[p].file = proc[p].file
      /\ proc'[p].mk = proc[p].mk /\ proc'[p].cfg = proc[p].cfg
  BY <1>0, GotoIs DEF InitHot, TypeOK, Stages
<1>2. UNCHANGED <<hotcold, keys, config, keyfile, inits, faults, exported, lifted, unaware>> /\ hotcold
  BY DEF InitHot
<1>3. TypeOK'
  BY <1>0, <1>1, <1>2 DEF TypeOK
<1>4. ValidConfigs' /\ OneMaster' /\ Configured' = Configured
  BY <1>0, <1>2, RepositoryKept DEF TypeOK
<1>5. HoldsKey(p)'
  BY <1>0, <1>1, <1>2, <1>4 DEF HoldsKey
<1>6. HoldsConfig(p)'
  BY <1>0, <1>1, <1>2, <1>4 DEF HoldsConfig, InitHot
<1> QED BY <1>0, <1>1, <1>3, <1>4, <1>5, <1>6, Process, Alone, StepOfOne

LEMMA ExportKeyKeeps ==
    ASSUME LifecycleInv, Exclusive, NEW p \in Proc, ExportKey(p)
    PROVE  LifecycleInv'
<1>0. TypeOK /\ proc[p] \in ProcState /\ proc[p] # Closed /\ HoldsKey(p) /\ HoldsConfig(p)
  BY OpenHas DEF ExportKey
<1>1. /\ proc' = [proc EXCEPT ![p] = proc[p]] /\ exported' = exported \cup {proc[p].mk}
      /\ UNCHANGED <<hotcold, keys, config, keyfile, inits, faults, proc, lifted, unaware>>
  BY <1>0 DEF ExportKey, TypeOK
<1>2. TypeOK'
  BY <1>0, <1>1, Process DEF TypeOK
<1>3. ValidConfigs' /\ OneMaster' /\ Configured' = Configured
  BY <1>0, <1>1, RepositoryKept DEF TypeOK
<1>4. HoldsKey(p)' /\ HoldsConfig(p)'
  BY <1>0, <1>1, <1>3 DEF HoldsKey, HoldsConfig
<1> QED BY <1>0, <1>1, <1>2, <1>3, <1>4, Alone, StepOfOne

(***************************************************************************)
(* Key files                                                               *)
(***************************************************************************)

\* The parts of the invariant about configs, whatever happens to key files.
LEMMA ConfigsKept ==
    ASSUME LifecycleInv, UNCHANGED <<hotcold, config>>
    PROVE  ValidConfigs' /\ OneMaster' /\ Configured' = Configured
BY DEF LifecycleInv, ValidConfigs, OneMaster, Configured

LEMMA AddKeyKeeps ==
    ASSUME LifecycleInv, Exclusive, NEW p \in Proc, NEW pw \in Password, AddKey(p, pw)
    PROVE  LifecycleInv'
<1>0. /\ TypeOK /\ proc[p] \in ProcState /\ proc[p] # Closed /\ proc[p].init = FALSE
      /\ HoldsKey(p) /\ HoldsConfig(p) /\ Configured # {}
  BY OpenHas DEF AddKey
<1> DEFINE s == [proc[p] EXCEPT !.stage = "keyhot", !.file = NextKey]
<1>1. NextKey \in Nat /\ proc[p].mk \in Nat
  BY <1>0, KeyIds, Process
<1>2. s \in ProcState
  BY <1>0, <1>1 DEF ProcState, Stages
<1>3. /\ s.stage = "keyhot" /\ s.init = FALSE /\ s.key = proc[p].key
      /\ s.file = NextKey /\ s.mk = proc[p].mk /\ s.cfg = proc[p].cfg
  BY <1>0 DEF ProcState
<1>4. /\ proc' = [proc EXCEPT ![p] = s] /\ proc'[p] = s
      /\ UNCHANGED <<hotcold, keys, config, inits, faults, exported, lifted, unaware>>
  BY <1>0 DEF AddKey, TypeOK
<1>5. /\ \E n \in 0 .. MaxKeys : keyfile' \in [1 .. n -> [mk : Nat, pw : Password]]
      /\ NextKey \in DOMAIN keyfile'
      /\ \A k \in DOMAIN keyfile : k \in DOMAIN keyfile' /\ keyfile'[k] = keyfile[k]
  BY <1>0, <1>1, Generated DEF AddKey
<1> HIDE DEF s
<1>6. TypeOK'
  <2>1. keys' \in [Parts -> SUBSET DOMAIN keyfile']
    BY <1>0, <1>4, <1>5 DEF TypeOK
  <2> QED BY <1>0, <1>2, <1>4, <1>5, <2>1 DEF TypeOK
<1>7. ValidConfigs' /\ OneMaster' /\ Configured' = Configured
  BY <1>4, ConfigsKept
<1>8. HoldsKey(p)'
  BY <1>0, <1>3, <1>4, <1>5, <1>7 DEF HoldsKey
<1>9. HoldsConfig(p)'
  BY <1>0, <1>3, <1>4, <1>7 DEF HoldsConfig, AddKey
<1> QED BY <1>0, <1>2, <1>4, <1>6, <1>7, <1>8, <1>9, Process, Alone, StepOfOne

\* delete_key does not take the key file which the repository was opened with.
LEMMA DeleteKeyKeeps ==
    ASSUME LifecycleInv, Exclusive, NEW p \in Proc, NEW k \in DOMAIN keyfile, DeleteKey(p, k)
    PROVE  LifecycleInv'
<1>0. /\ TypeOK /\ proc[p] \in ProcState /\ proc[p] # Closed /\ proc[p].init = FALSE
      /\ HoldsKey(p) /\ HoldsConfig(p) /\ Configured # {}
  BY OpenHas DEF DeleteKey
<1> DEFINE stage == IF hotcold THEN "delhot" ELSE "open"
           s == [proc[p] EXCEPT !.stage = stage, !.file = k]
<1>1. k \in Nat /\ stage \in {"delhot", "open"}
  BY <1>0, KeyIds
<1>2. s \in ProcState
  BY <1>0, <1>1 DEF ProcState, Stages
<1>3. /\ s.stage = stage /\ s.init = FALSE /\ s.key = proc[p].key
      /\ s.file = k /\ s.mk = proc[p].mk /\ s.cfg = proc[p].cfg
  BY <1>0 DEF ProcState
<1>4. /\ proc' = [proc EXCEPT ![p] = s] /\ proc'[p] = s
      /\ keys' = [keys EXCEPT !["cold"] = @ \ {k}]
      /\ UNCHANGED <<hotcold, config, keyfile, inits, faults, exported, lifted, unaware>>
  BY <1>0 DEF DeleteKey, TypeOK
<1> HIDE DEF s, stage
<1>5. keys' \in [Parts -> SUBSET DOMAIN keyfile] /\ keys'["cold"] = keys["cold"] \ {k}
  BY <1>0, <1>4 DEF TypeOK, Parts
<1>6. TypeOK'
  BY <1>0, <1>2, <1>4, <1>5 DEF TypeOK
<1>7. ValidConfigs' /\ OneMaster' /\ Configured' = Configured
  BY <1>4, ConfigsKept
<1>8. HoldsKey(p)'
  <2>1. proc[p].key # <<>> => proc[p].key[1] # k
    <3>1. proc[p].key # <<>> => proc[p].key = <<proc[p].key[1]>>
      BY <1>0, Process DEF Optional
    <3> QED BY <3>1 DEF DeleteKey
  <2> QED BY <1>0, <1>1, <1>3, <1>4, <1>5, <1>7, <2>1 DEF HoldsKey, DeleteKey
<1>9. HoldsConfig(p)'
  BY <1>0, <1>1, <1>3, <1>4, <1>7 DEF HoldsConfig, DeleteKey
<1> QED BY <1>0, <1>2, <1>4, <1>6, <1>7, <1>8, <1>9, Process, Alone, StepOfOne

\* The other steps of key files change the keys of one part, and then the stage.
LEMMA KeyStepKeeps ==
    ASSUME LifecycleInv, Exclusive, NEW p \in Proc,
           proc[p].stage \in {"keyhot", "keycold", "delhot"},
           NEW stage \in {"keycold", "config", "open"}, Goto(p, stage),
           \* what is done to the key files
           keys' \in [Parts -> SUBSET DOMAIN keyfile],
           stage # "keycold" /\ proc[p].stage # "delhot" => keys'["cold"] = keys["cold"] \cup {proc[p].file},
           stage = "keycold" \/ proc[p].stage = "delhot" => keys'["cold"] = keys["cold"],
           \* how it goes on
           stage = "keycold" => proc[p].stage = "keyhot",
           stage = "config" => proc[p].init,
           stage = "open" => ~proc[p].init,
           UNCHANGED <<hotcold, config, keyfile, inits, faults, exported, lifted, unaware>>
    PROVE  LifecycleInv'
<1>0. TypeOK /\ proc[p] \in ProcState /\ proc[p] # Closed /\ HoldsKey(p) /\ HoldsConfig(p)
  BY Active DEF LifecycleInv
<1>1. /\ proc' = [proc EXCEPT ![p] = proc'[p]] /\ proc'[p] \in ProcState
      /\ proc'[p].stage = stage /\ proc'[p].init = (proc[p].init /\ stage # "open")
      /\ proc'[p].key = proc[p].key /\ proc'[p].file = proc[p].file
      /\ proc'[p].mk = proc[p].mk /\ proc'[p].cfg = proc[p].cfg
  <2>1. stage \in Stages
    BY DEF Stages
  <2> QED BY <1>0, <2>1, GotoIs DEF TypeOK
<1>2. proc'[p].init = proc[p].init /\ proc[p].init \in BOOLEAN
  BY <1>0, <1>1, Process
<1>3. TypeOK'
  BY <1>0, <1>1 DEF TypeOK
<1>4. ValidConfigs' /\ OneMaster' /\ Configured' = Configured
  BY ConfigsKept
<1>5. HoldsKey(p)'
  <2>1. CASE stage = "keycold"
    BY <1>0, <1>1, <1>2, <1>4, <2>1 DEF HoldsKey
  <2>2. CASE stage # "keycold"
    <3>1. proc[p].init /\ proc[p].key # <<>> => proc[p].key[1] = proc[p].file
      BY <1>0, <2>2 DEF HoldsKey
    <3> QED BY <1>0, <1>1, <1>2, <1>4, <2>2, <3>1 DEF HoldsKey
  <2> QED BY <2>1, <2>2
<1>6. HoldsConfig(p)'
  BY <1>0, <1>1 DEF HoldsConfig
<1> QED BY <1>0, <1>1, <1>3, <1>4, <1>5, <1>6, Process, Alone, StepOfOne

LEMMA WriteKeyKeeps ==
    ASSUME LifecycleInv, Exclusive, NEW p \in Proc,
           WriteKeyHot(p) \/ WriteKeyCold(p) \/ DeleteKeyHot(p)
    PROVE  LifecycleInv'
<1>0. /\ TypeOK /\ HoldsKey(p) /\ proc[p].init \in BOOLEAN
      /\ proc[p].stage # "delhot" => proc[p].file \in DOMAIN keyfile
  <2>1. proc[p].stage \in {"keyhot", "keycold", "delhot"}
    BY DEF WriteKeyHot, WriteKeyCold, DeleteKeyHot
  <2>2. TypeOK /\ proc[p] \in ProcState /\ HoldsKey(p)
    BY <2>1, Active DEF LifecycleInv
  <2> QED BY <2>1, <2>2, Process DEF HoldsKey
<1>1. CASE WriteKeyHot(p)
  <2>1. keys' \in [Parts -> SUBSET DOMAIN keyfile] /\ keys'["cold"] = keys["cold"]
    BY <1>0, <1>1 DEF WriteKeyHot, AddFile, TypeOK, Parts
  <2> QED BY <1>1, <2>1, KeyStepKeeps DEF WriteKeyHot
<1>2. CASE WriteKeyCold(p)
  <2>1. keys' \in [Parts -> SUBSET DOMAIN keyfile] /\ keys'["cold"] = keys["cold"] \cup {proc[p].file}
    BY <1>0, <1>2 DEF WriteKeyCold, AddFile, TypeOK, Parts
  <2> QED BY <1>0, <1>2, <2>1, KeyStepKeeps DEF WriteKeyCold, AfterKey
<1>3. CASE DeleteKeyHot(p)
  <2>1. keys' \in [Parts -> SUBSET DOMAIN keyfile] /\ keys'["cold"] = keys["cold"]
    BY <1>0, <1>3 DEF DeleteKeyHot, TypeOK, Parts
  <2> QED BY <1>0, <1>3, <2>1, KeyStepKeeps DEF DeleteKeyHot, HoldsKey
<1> QED BY <1>1, <1>2, <1>3

LEMMA RepairKeysKeeps ==
    ASSUME LifecycleInv, RepairKeys
    PROVE  LifecycleInv'
<1>1. TypeOK /\ OneProc /\ MasterKeyRemains
  BY DEF LifecycleInv
<1>2. /\ keys' = [part \in Parts |-> keys["hot"] \cup keys["cold"]]
      /\ UNCHANGED <<hotcold, config, keyfile, proc, inits, faults, exported, lifted, unaware>>
  BY DEF RepairKeys
<1>3. TypeOK'
  BY <1>1, <1>2 DEF TypeOK, Parts
<1>4. ValidConfigs' /\ OneMaster'
  BY <1>2, ConfigsKept
<1>5. MasterKeyRemains'
  <2>1. AllKeys' = AllKeys
    BY <1>2 DEF AllKeys, Parts
  <2> QED BY <1>1, <1>2, <2>1 DEF MasterKeyRemains
<1>6. OneProc' /\ \A p \in Proc : proc'[p] = Closed
  BY <1>1, <1>2 DEF OneProc, RepairKeys
<1> QED BY <1>3, <1>4, <1>5, <1>6 DEF LifecycleInv

(***************************************************************************)
(* Config files                                                            *)
(***************************************************************************)

\* save_config: the config in memory replaces the one of the cold part.
LEMMA SaveConfigKeeps ==
    ASSUME LifecycleInv, Exclusive, NEW p \in Proc, save_config(p)
    PROVE  LifecycleInv'
<1>0. /\ TypeOK /\ proc[p] \in ProcState /\ proc[p] # Closed /\ HoldsKey(p) /\ HoldsConfig(p)
      /\ proc[p].stage = "config"
  BY Active DEF LifecycleInv, save_config
<1> DEFINE c == [proc[p].cfg EXCEPT !.is_hot = FALSE]
           stage == IF hotcold THEN "confighot" ELSE "open"
<1>1. c \in ConfigFile /\ c.is_hot = FALSE /\ c.mk = proc[p].mk /\ Valid(c)
  BY <1>0, Process, HotFlag DEF HoldsKey, HoldsConfig
<1>2. /\ proc' = [proc EXCEPT ![p] = proc'[p]] /\ proc'[p] \in ProcState
      /\ proc'[p].stage = stage /\ proc'[p].init = (proc[p].init /\ stage # "open")
      /\ proc'[p].key = proc[p].key /\ proc'[p].file = proc[p].file
      /\ proc'[p].mk = proc[p].mk /\ proc'[p].cfg = proc[p].cfg
  <2>1. stage \in Stages /\ Goto(p, stage)
    BY DEF Stages, save_config
  <2> HIDE DEF stage
  <2> QED BY <1>0, <2>1, GotoIs DEF TypeOK
<1> HIDE DEF c
<1>3. /\ UNCHANGED <<hotcold, keys, keyfile, inits, faults, exported, lifted>> /\ unaware' \subseteq Proc
      /\ config' = [config EXCEPT !["cold"] = <<c>>]
  BY <1>0 DEF save_config, Notice, TypeOK, c
<1>4. /\ config' \in [Parts -> Optional(ConfigFile)] /\ config'["hot"] = config["hot"]
      /\ config'["cold"] = <<c>> /\ config'["cold"] # <<>> /\ config'["cold"][1] = c
  BY <1>0, <1>1, <1>3, Present DEF TypeOK, Parts
<1>5. TypeOK'
  BY <1>0, <1>2, <1>3, <1>4 DEF TypeOK
<1>6. Configured' = Configured \cup {"cold"} /\ "cold" \in Configured'
      /\ (Configured = {} => Configured' = {"cold"})
  BY <1>4 DEF Configured, Parts
<1>7. \A part \in Configured' : part = "cold" \/ (part = "hot" /\ "hot" \in Configured)
  BY <1>6 DEF Configured, Parts
<1>8. ValidConfigs'
  BY <1>1, <1>4, <1>7 DEF LifecycleInv, ValidConfigs
<1>9. \A part \in Configured' : config'[part][1].mk = proc[p].mk
  BY <1>0, <1>1, <1>4, <1>7 DEF HoldsKey
<1>10. OneMaster'
  BY <1>3, <1>6, <1>7, <1>9 DEF LifecycleInv, OneMaster
<1>13. HoldsKey(p)'
  <2>1. proc[p].init => Configured = {}
    BY <1>0 DEF HoldsKey
  <2>2. proc[p].init \in BOOLEAN
    BY <1>0, Process
  <2> QED BY <1>0, <1>2, <1>3, <1>6, <1>9, <2>1, <2>2 DEF HoldsKey
<1>14. HoldsConfig(p)'
  BY <1>0, <1>2 DEF HoldsConfig
<1> QED BY <1>0, <1>2, <1>5, <1>8, <1>10, <1>13, <1>14, Process, Alone, StepOfOne

LEMMA SaveConfigHotKeeps ==
    ASSUME LifecycleInv, Exclusive, NEW p \in Proc, save_config_hot(p)
    PROVE  LifecycleInv'
<1>0. /\ TypeOK /\ proc[p] \in ProcState /\ proc[p] # Closed /\ HoldsKey(p) /\ HoldsConfig(p)
      /\ "cold" \in Configured /\ hotcold
  <2>1. TypeOK /\ proc[p] \in ProcState /\ proc[p] # Closed /\ HoldsKey(p) /\ HoldsConfig(p)
    BY Active DEF LifecycleInv, save_config_hot
  <2>2. Configured # {} /\ hotcold
    BY <2>1 DEF HoldsKey, save_config_hot
  <2> QED BY <2>1, <2>2 DEF LifecycleInv, OneMaster, Configured, Parts
<1> DEFINE c == [proc[p].cfg EXCEPT !.is_hot = TRUE]
<1>1. /\ c \in ConfigFile /\ c.is_hot = TRUE /\ c.mk = proc[p].mk /\ Valid(c)
  BY <1>0, Process, HotFlag DEF HoldsKey, HoldsConfig
<1>2. /\ proc' = [proc EXCEPT ![p] = proc'[p]] /\ proc'[p] \in ProcState
      /\ proc'[p].stage = "open" /\ proc'[p].init = FALSE
      /\ proc'[p].key = proc[p].key /\ proc'[p].file = proc[p].file
      /\ proc'[p].mk = proc[p].mk /\ proc'[p].cfg = proc[p].cfg
  BY <1>0, GotoIs DEF save_config_hot, TypeOK, Stages
<1> HIDE DEF c
<1>3. /\ UNCHANGED <<hotcold, keys, keyfile, inits, faults, exported, lifted>> /\ unaware' \subseteq Proc
      /\ config' = [config EXCEPT !["hot"] = <<c>>]
  BY <1>0 DEF save_config_hot, Notice, TypeOK, c
<1>4. /\ config' \in [Parts -> Optional(ConfigFile)] /\ config'["cold"] = config["cold"]
      /\ config'["hot"] = <<c>> /\ config'["hot"] # <<>> /\ config'["hot"][1] = c
  BY <1>0, <1>1, <1>3, Present DEF TypeOK, Parts
<1>5. TypeOK'
  BY <1>0, <1>2, <1>3, <1>4 DEF TypeOK
<1>6. "hot" \in Configured' /\ "cold" \in Configured' /\ Configured' = Parts
  BY <1>0, <1>4 DEF Configured, Parts
<1>7. ValidConfigs'
  <2>1. Valid(config["cold"][1]) /\ config["cold"][1].is_hot = FALSE
    BY <1>0 DEF LifecycleInv, ValidConfigs
  <2>2. \A part \in Configured' : part = "cold" \/ part = "hot"
    BY <1>6 DEF Parts
  <2> QED BY <1>1, <1>4, <2>1, <2>2 DEF ValidConfigs
<1>8. \A part \in Configured' : config'[part][1].mk = proc[p].mk
  BY <1>0, <1>1, <1>4 DEF HoldsKey, Configured, Parts
<1>9. OneMaster'
  BY <1>0, <1>3, <1>6, <1>8 DEF OneMaster
<1>11. HoldsKey(p)'
  BY <1>0, <1>2, <1>3, <1>6, <1>8 DEF HoldsKey, save_config_hot
<1>12. HoldsConfig(p)'
  BY <1>0, <1>2 DEF HoldsConfig
<1> QED BY <1>0, <1>2, <1>5, <1>7, <1>9, <1>11, <1>12, Process, Alone, StepOfOne

(***************************************************************************)
(* init                                                                    *)
(***************************************************************************)

\* init is refused if there is a config: it starts with a new master key and none.
LEMMA InitConfig ==
    ASSUME inits \in Nat, NEW o \in Options, applies(o, NewConfig(inits + 1)), NEW b \in BOOLEAN
    PROVE  LET c == [Changed(o, NewConfig(inits + 1)) EXCEPT !.is_hot = b]
           IN  c \in ConfigFile /\ c.mk = inits + 1 /\ Valid(c) /\ inits + 1 \in Nat
<1>1. inits + 1 \in Nat
  OBVIOUS
<1> DEFINE n == NewConfig(inits + 1)
<1>2. n \in ConfigFile /\ Valid(n) /\ n.mk = inits + 1
  BY <1>1, NewConfigValid
<1>3. Changed(o, n) \in ConfigFile /\ Changed(o, n).mk = inits + 1 /\ Valid(Changed(o, n))
  BY <1>2, ChangedConfig
<1> HIDE DEF n
<1> QED BY <1>1, <1>3, HotFlag DEF n

LEMMA NothingConfigured ==
    ASSUME LifecycleInv, \A part \in Parts : config[part] = <<>>,
           UNCHANGED <<hotcold, config>>
    PROVE  Configured' = {} /\ ValidConfigs' /\ OneMaster'
BY DEF Configured, ValidConfigs, OneMaster

LEMMA InitStartKeeps ==
    ASSUME LifecycleInv, Exclusive, NEW p \in Proc, NEW o \in Options, NEW pw \in Password,
           InitStart(p, o, pw)
    PROVE  LifecycleInv'
<1> DEFINE c == [Changed(o, NewConfig(inits + 1)) EXCEPT !.is_hot = hotcold]
           s == [stage |-> "keyhot", init |-> TRUE, key |-> <<NextKey>>, file |-> NextKey,
                 mk |-> inits + 1, cfg |-> c]
<1>0. TypeOK /\ NextKey \in Nat
  BY KeyIds DEF LifecycleInv
<1>1. c \in ConfigFile /\ c.mk = inits + 1 /\ Valid(c) /\ inits + 1 \in Nat
  BY <1>0, InitConfig DEF InitStart, TypeOK
<1>2. /\ proc' = [proc EXCEPT ![p] = s] /\ inits' = inits + 1 /\ generate(inits + 1, pw)
      /\ NextKey <= MaxKeys /\ MayStart(p) /\ \A part \in Parts : config[part] = <<>>
      /\ UNCHANGED <<hotcold, keys, config, faults, exported, lifted, unaware>>
  BY DEF InitStart
<1> HIDE DEF c
<1>3. /\ s.stage = "keyhot" /\ s.init = TRUE /\ s.key = <<NextKey>> /\ s.file = NextKey
      /\ s.mk = inits + 1 /\ s.cfg = c
  OBVIOUS
<1>4. s \in ProcState
  BY <1>0, <1>1, Present DEF ProcState, Stages
<1> HIDE DEF s
<1>5. proc'[p] = s
  BY <1>0, <1>2 DEF TypeOK
<1>6. /\ \E n \in 0 .. MaxKeys : keyfile' \in [1 .. n -> [mk : Nat, pw : Password]]
      /\ NextKey \in DOMAIN keyfile' /\ keyfile'[NextKey].mk = inits + 1
      /\ \A k \in DOMAIN keyfile : k \in DOMAIN keyfile'
  BY <1>0, <1>1, <1>2, Generated
<1>7. TypeOK'
  <2>1. keys' \in [Parts -> SUBSET DOMAIN keyfile']
    BY <1>0, <1>2, <1>6 DEF TypeOK
  <2> QED BY <1>0, <1>1, <1>2, <1>4, <1>6, <2>1 DEF TypeOK
<1>8. Configured' = {} /\ ValidConfigs' /\ OneMaster'
  BY <1>2, NothingConfigured
<1>9. HoldsKey(p)'
  <2>1. s.key # <<>> /\ s.key[1] = NextKey
    BY <1>0, <1>3, Present
  <2> QED BY <1>1, <1>3, <1>5, <1>6, <1>8, <2>1 DEF HoldsKey
<1>10. HoldsConfig(p)'
  BY <1>1, <1>3, <1>5, <1>8 DEF HoldsConfig
<1> QED BY <1>2, <1>4, <1>7, <1>8, <1>9, <1>10, Process, Alone, StepOfOne

LEMMA InitMasterkeyKeeps ==
    ASSUME LifecycleInv, Exclusive, NEW p \in Proc, NEW o \in Options, InitMasterkey(p, o)
    PROVE  LifecycleInv'
<1> DEFINE c == [Changed(o, NewConfig(inits + 1)) EXCEPT !.is_hot = hotcold]
           s == [stage |-> "config", init |-> TRUE, key |-> <<>>, file |-> 0,
                 mk |-> inits + 1, cfg |-> c]
<1>0. TypeOK
  BY DEF LifecycleInv
<1>1. c \in ConfigFile /\ c.mk = inits + 1 /\ Valid(c) /\ inits + 1 \in Nat
  BY <1>0, InitConfig DEF InitMasterkey, TypeOK
<1>2. /\ proc' = [proc EXCEPT ![p] = s] /\ inits' = inits + 1 /\ exported' = exported \cup {inits + 1}
      /\ MayStart(p) /\ \A part \in Parts : config[part] = <<>>
      /\ UNCHANGED <<hotcold, keys, config, keyfile, faults, lifted, unaware>>
  BY DEF InitMasterkey
<1> HIDE DEF c
<1>3. /\ s.stage = "config" /\ s.init = TRUE /\ s.key = <<>> /\ s.mk = inits + 1 /\ s.cfg = c
  OBVIOUS
<1>4. s \in ProcState
  BY <1>0, <1>1, Absent DEF ProcState, Stages
<1> HIDE DEF s
<1>5. proc'[p] = s
  BY <1>0, <1>2 DEF TypeOK
<1>6. TypeOK'
  BY <1>0, <1>1, <1>2, <1>4 DEF TypeOK
<1>7. Configured' = {} /\ ValidConfigs' /\ OneMaster'
  BY <1>2, NothingConfigured
<1>8. HoldsKey(p)'
  BY <1>1, <1>2, <1>3, <1>5, <1>7 DEF HoldsKey
<1>9. HoldsConfig(p)'
  BY <1>1, <1>3, <1>5, <1>7 DEF HoldsConfig
<1> QED BY <1>2, <1>4, <1>6, <1>7, <1>8, <1>9, Process, Alone, StepOfOne

(***************************************************************************)
(* Theorems                                                                *)
(***************************************************************************)

LEMMA LifecycleStep ==
    ASSUME LifecycleInv, Exclusive, [Next]_vars
    PROVE  LifecycleInv'
<1>1. CASE RepairKeys
  BY <1>1, RepairKeysKeeps
<1>2. ASSUME NEW p \in Proc, ProcNext(p)  PROVE LifecycleInv'
  <2>1. CASE \E o \in Options, pw \in Password : InitStart(p, o, pw)
    BY <2>1, InitStartKeeps
  <2>2. CASE \E o \in Options : InitMasterkey(p, o) \/ ApplyConfig(p, o)
    BY <2>2, InitMasterkeyKeeps, ApplyConfigKeeps
  <2>3. CASE \E cred \in Password \cup {"masterkey"}, use_hot \in BOOLEAN : Open(p, cred, use_hot)
    BY <2>3, OpenKeeps
  <2>4. CASE \E pw \in Password : AddKey(p, pw)
    BY <2>4, AddKeyKeeps
  <2>5. CASE \E k \in DOMAIN keyfile : DeleteKey(p, k)
    BY <2>5, DeleteKeyKeeps
  <2>6. CASE WriteKeyHot(p) \/ WriteKeyCold(p) \/ DeleteKeyHot(p)
    BY <2>6, WriteKeyKeeps
  <2>7. CASE save_config(p) \/ save_config_hot(p)
    BY <2>7, SaveConfigKeeps, SaveConfigHotKeeps
  <2>8. CASE ExportKey(p) \/ InitHot(p)
    BY <2>8, ExportKeyKeeps, InitHotKeeps
  <2>9. CASE Close(p) \/ Fail(p) \/ Crash(p)
    BY <2>9, CloseKeeps, FailKeeps
  <2> QED BY <1>2, <2>1, <2>2, <2>3, <2>4, <2>5, <2>6, <2>7, <2>8, <2>9 DEF ProcNext
<1>3. CASE UNCHANGED vars
  <2>1. ValidConfigs' /\ OneMaster' /\ Configured' = Configured
    BY <1>3, ConfigsKept DEF vars
  <2>2. TypeOK' /\ OneProc' /\ MasterKeyRemains'
    BY <1>3 DEF vars, LifecycleInv, TypeOK, OneProc, MasterKeyRemains, AllKeys
  <2>3. ASSUME NEW p \in Proc, proc'[p] # Closed  PROVE HoldsKey(p)' /\ HoldsConfig(p)'
    <3>1. HoldsKey(p) /\ HoldsConfig(p)
      BY <1>3, <2>3 DEF vars, LifecycleInv
    <3> QED BY <1>3, <2>1, <3>1 DEF vars, HoldsKey, HoldsConfig
  <2> QED BY <2>1, <2>2, <2>3 DEF LifecycleInv
<1> QED BY <1>1, <1>2, <1>3 DEF Next

\* Whatever init, `key add`, `key remove` and config commands have stopped half-way, the
\* state is one they can go on from (commands/init.rs, key.rs, config.rs).
THEOREM LifecycleInvariant ==
    ASSUME Exclusive
    PROVE  Spec => []LifecycleInv
<1>1. Init => LifecycleInv
  <2> SUFFICES ASSUME Init  PROVE LifecycleInv
    OBVIOUS
  <2>1. keyfile \in [1 .. 0 -> [mk : Nat, pw : Password]] /\ 0 \in 0 .. MaxKeys
    BY LifecycleAssumption DEF Init
  <2>2. TypeOK
    BY <2>1, Absent DEF Init, TypeOK, Parts
  <2>3. Configured = {} /\ \A p \in Proc : proc[p] = Closed
    BY DEF Init, Configured, Parts
  <2> QED BY <2>2, <2>3 DEF Init, LifecycleInv, ValidConfigs, OneMaster,
          OneProc, MasterKeyRemains, Configured
<1> QED BY <1>1, LifecycleStep, PTL DEF Spec

\* A repository that has a config never loses its last key: delete_key refuses the key
\* file that the process has opened the repository with.
THEOREM MasterKeyIsNeverLost ==
    ASSUME Exclusive
    PROVE  Spec => []MasterKeyRemains
BY LifecycleInvariant, PTL DEF LifecycleInv

\* After `repair hotcold` a password whose key files belong to the config opens the
\* repository again (find_key_in_backend, open_raw, ConfigOptions::apply).
THEOREM RepositoryIsOpenable ==
    ASSUME Exclusive
    PROVE  Spec => []Openable
<1>1. LifecycleInv => Openable
  <2> SUFFICES ASSUME LifecycleInv, config["cold"] # <<>>, NEW k \in AllKeys,
                      \A l \in AllKeys : keyfile[l].pw = keyfile[k].pw
                                            => keyfile[l].mk = config["cold"][1].mk
               PROVE  LET c == config["cold"][1]
                          pw == keyfile[k].pw
                      IN  /\ zstd(c) /\ check_rabin_params(c) /\ ~c.is_hot
                          /\ k \in keys["cold"] => \E opened \in Opened(pw, FALSE) : opened.mk = c.mk
                          /\ k \in keys["cold"] /\ config[ReadPart] # <<>> /\ (hotcold => keys["hot"] = keys["cold"])
                                => Opened(pw, TRUE) # {}
    BY Zenon DEF Openable
  <2> DEFINE c == config["cold"][1]
             pw == keyfile[k].pw
             f == [key |-> <<k>>, mk |-> c.mk]
  <2>1. TypeOK /\ "cold" \in Configured
    BY DEF LifecycleInv, Configured, Parts
  <2>2. zstd(c) /\ check_rabin_params(c) /\ c.is_hot = FALSE
    BY <2>1 DEF LifecycleInv, ValidConfigs, Valid
  <2>3. k \in DOMAIN keyfile /\ pw \in Password /\ keyfile[k].mk = c.mk
    BY <2>1, KeyTypes DEF AllKeys, TypeOK, Parts
  <2>4. ASSUME k \in keys["cold"]  PROVE f \in Found("cold", pw)
    BY <2>3, <2>4 DEF Found, find_key_in_backend
  <2>5. ASSUME k \in keys["cold"]  PROVE \E opened \in Opened(pw, FALSE) : opened.mk = c.mk
    <3> DEFINE s == [stage |-> "open", init |-> FALSE, key |-> f.key, file |-> 0, mk |-> f.mk,
                     cfg |-> [c EXCEPT !.is_hot = hotcold]]
    <3>1. OpenRaw(c, hotcold) /\ f.mk = c.mk
      BY <2>2 DEF OpenRaw
    <3>2. f \in {g \in Found("cold", pw) : g.mk = c.mk /\ OpenRaw(c, hotcold)}
      BY <2>4, <2>5, <3>1
    <3>3. s \in Opened(pw, FALSE) /\ s.mk = c.mk
      <4> HIDE DEF f
      <4> QED BY <3>1, <3>2 DEF Opened
    <3> QED BY <3>3
  <2>6. ASSUME k \in keys["cold"], config[ReadPart] # <<>>, hotcold => keys["hot"] = keys["cold"]
        PROVE  Opened(pw, TRUE) # {}
    <3> DEFINE d == config[ReadPart][1]
               s == [stage |-> "open", init |-> FALSE, key |-> f.key, file |-> 0, mk |-> f.mk,
                     cfg |-> [d EXCEPT !.is_hot = d.is_hot]]
    <3>1. ReadPart \in Configured /\ (ReadPart = "hot") = hotcold
      BY <2>1, <2>6 DEF Configured, ReadPart, Parts, TypeOK
    <3>2. d.mk = c.mk
      BY <2>1, <3>1 DEF LifecycleInv, OneMaster
    <3>3. OpenRaw(d, d.is_hot)
      BY <3>1 DEF LifecycleInv, ValidConfigs, Valid, OpenRaw
    <3>4. s \in Opened(pw, TRUE)
      BY <2>4, <2>6, <3>2, <3>3 DEF Opened
    <3> QED BY <3>4
  <2> QED BY <2>2, <2>5, <2>6
<1> QED BY <1>1, LifecycleInvariant, PTL

(***************************************************************************)
(* Append-only mode, with any number of processes at once                  *)
(***************************************************************************)

\* The types hold also where processes disturb each other.
LEMMA TypeStep ==
    ASSUME TypeOK, KeysMade, [Next]_vars
    PROVE  TypeOK' /\ KeysMade'
<1>1. ASSUME NEW p \in Proc, proc[p].stage # "closed"
      PROVE  /\ proc[p] \in ProcState /\ proc[p].mk \in Nat /\ proc[p].cfg \in ConfigFile
             /\ proc[p].stage \in {"keyhot", "keycold"} => proc[p].file \in DOMAIN keyfile
  BY <1>1, Active, Process DEF KeysMade
\* A step that leaves the key files which were made, and changes one process.
<1>2. ASSUME NEW p \in Proc, NEW s \in ProcState \cup {Closed}, proc' = [proc EXCEPT ![p] = s],
             DOMAIN keyfile \subseteq DOMAIN keyfile',
             s.stage \in {"keyhot", "keycold"} => s.file \in DOMAIN keyfile'
      PROVE  proc' \in [Proc -> ProcState \cup {Closed}] /\ KeysMade'
  BY <1>2 DEF TypeOK, KeysMade
<1>3. ASSUME NEW p \in Proc, NEW stage \in Stages, Goto(p, stage), proc[p].stage # "closed",
             stage \in {"keyhot", "keycold"} => proc[p].stage \in {"keyhot", "keycold"},
             keyfile' = keyfile
      PROVE  proc' \in [Proc -> ProcState \cup {Closed}] /\ KeysMade'
  <2>1. /\ proc' = [proc EXCEPT ![p] = proc'[p]] /\ proc'[p] \in ProcState
        /\ proc'[p].stage = stage /\ proc'[p].file = proc[p].file
    BY <1>1, <1>3, GotoIs DEF TypeOK
  <2> QED BY <1>1, <1>2, <1>3, <2>1
<1>4. CASE RepairKeys
  BY <1>4 DEF RepairKeys, TypeOK, KeysMade, Parts
<1>5. CASE UNCHANGED vars
  BY <1>5 DEF vars, TypeOK, KeysMade
<1>6. ASSUME NEW p \in Proc, ProcNext(p)  PROVE TypeOK' /\ KeysMade'
  <2>1. ASSUME NEW o \in Options, NEW pw \in Password, InitStart(p, o, pw)  PROVE TypeOK' /\ KeysMade'
    <3> DEFINE c == [Changed(o, NewConfig(inits + 1)) EXCEPT !.is_hot = hotcold]
               s == [stage |-> "keyhot", init |-> TRUE, key |-> <<NextKey>>, file |-> NextKey,
                     mk |-> inits + 1, cfg |-> c]
    <3>1. c \in ConfigFile /\ inits + 1 \in Nat /\ NextKey \in Nat
      BY <2>1, InitConfig, KeyIds DEF TypeOK, InitStart
    <3>2. /\ proc' = [proc EXCEPT ![p] = s] /\ inits' = inits + 1 /\ generate(inits + 1, pw)
          /\ NextKey <= MaxKeys /\ UNCHANGED <<hotcold, keys, config, faults, exported, lifted, unaware>>
      BY <2>1 DEF InitStart
    <3> HIDE DEF c
    <3>3. s \in ProcState /\ s.stage = "keyhot" /\ s.file = NextKey
      BY <3>1, Present DEF ProcState, Stages
    <3> HIDE DEF s
    <3>4. /\ \E n \in 0 .. MaxKeys : keyfile' \in [1 .. n -> [mk : Nat, pw : Password]]
          /\ NextKey \in DOMAIN keyfile' /\ DOMAIN keyfile \subseteq DOMAIN keyfile'
      BY <3>1, <3>2, Generated
    <3>5. proc' \in [Proc -> ProcState \cup {Closed}] /\ KeysMade'
      BY <1>2, <3>2, <3>3, <3>4
    <3>6. keys' \in [Parts -> SUBSET DOMAIN keyfile']
      BY <3>2, <3>4 DEF TypeOK
    <3> QED BY <3>1, <3>2, <3>4, <3>5, <3>6 DEF TypeOK
  <2>2. ASSUME NEW o \in Options, InitMasterkey(p, o)  PROVE TypeOK' /\ KeysMade'
    <3> DEFINE c == [Changed(o, NewConfig(inits + 1)) EXCEPT !.is_hot = hotcold]
               s == [stage |-> "config", init |-> TRUE, key |-> <<>>, file |-> 0,
                     mk |-> inits + 1, cfg |-> c]
    <3>1. c \in ConfigFile /\ inits + 1 \in Nat
      BY <2>2, InitConfig DEF TypeOK, InitMasterkey
    <3>2. /\ proc' = [proc EXCEPT ![p] = s] /\ inits' = inits + 1 /\ exported' = exported \cup {inits + 1}
          /\ UNCHANGED <<hotcold, keys, config, keyfile, faults, lifted, unaware>>
      BY <2>2 DEF InitMasterkey
    <3> HIDE DEF c
    <3>3. s \in ProcState /\ s.stage = "config"
      BY <3>1, Absent DEF ProcState, Stages
    <3> HIDE DEF s
    <3>4. proc' \in [Proc -> ProcState \cup {Closed}] /\ KeysMade'
      BY <1>2, <3>2, <3>3
    <3> QED BY <3>1, <3>2, <3>4 DEF TypeOK
  <2>3. ASSUME NEW o \in Options, ApplyConfig(p, o)  PROVE TypeOK' /\ KeysMade'
    <3> DEFINE new == Changed(o, proc[p].cfg)
               s == [proc[p] EXCEPT !.stage = "config", !.cfg = new]
    <3>1. proc[p] \in ProcState /\ new \in ConfigFile
      BY <1>1, <2>3, ChangedConfig DEF ApplyConfig
    <3>2. proc' = [proc EXCEPT ![p] = s]
      BY <2>3, Zenon DEF ApplyConfig
    <3>3. lifted' \in BOOLEAN /\ UNCHANGED <<hotcold, keys, config, keyfile, inits, faults, exported, unaware>>
      BY <2>3 DEF ApplyConfig, TypeOK
    <3> HIDE DEF new
    <3>4. s \in ProcState /\ s.stage = "config"
      BY <3>1 DEF ProcState, Stages
    <3> HIDE DEF s
    <3>5. proc' \in [Proc -> ProcState \cup {Closed}] /\ KeysMade'
      BY <1>2, <3>2, <3>3, <3>4
    <3> QED BY <3>3, <3>5 DEF TypeOK
  <2>4. ASSUME NEW cred \in Password \cup {"masterkey"}, NEW use_hot \in BOOLEAN, Open(p, cred, use_hot)
        PROVE  TypeOK' /\ KeysMade'
    <3>1. PICK s \in Opened(cred, use_hot) : proc' = [proc EXCEPT ![p] = s]
      BY <2>4 DEF Open
    <3>2. s \in ProcState /\ s.stage = "open"
      BY OpenedProcess
    <3>3. unaware' \subseteq unaware /\ UNCHANGED <<hotcold, keys, config, keyfile, inits, faults, exported, lifted>>
      BY <2>4 DEF Open
    <3>4. proc' \in [Proc -> ProcState \cup {Closed}] /\ KeysMade'
      BY <1>2, <3>1, <3>2, <3>3
    <3> QED BY <3>3, <3>4 DEF TypeOK
  <2>5. ASSUME NEW pw \in Password, AddKey(p, pw)  PROVE TypeOK' /\ KeysMade'
    <3> DEFINE s == [proc[p] EXCEPT !.stage = "keyhot", !.file = NextKey]
    <3>1. proc[p] \in ProcState /\ proc[p].mk \in Nat /\ NextKey \in Nat
      BY <1>1, <2>5, KeyIds DEF AddKey
    <3>2. s \in ProcState /\ s.file = NextKey
      BY <3>1 DEF ProcState, Stages
    <3>3. /\ proc' = [proc EXCEPT ![p] = s] /\ generate(proc[p].mk, pw) /\ NextKey <= MaxKeys
          /\ UNCHANGED <<hotcold, keys, config, inits, faults, exported, lifted, unaware>>
      BY <2>5 DEF AddKey
    <3> HIDE DEF s
    <3>4. /\ \E n \in 0 .. MaxKeys : keyfile' \in [1 .. n -> [mk : Nat, pw : Password]]
          /\ NextKey \in DOMAIN keyfile' /\ DOMAIN keyfile \subseteq DOMAIN keyfile'
      BY <3>1, <3>3, Generated
    <3>5. proc' \in [Proc -> ProcState \cup {Closed}] /\ KeysMade'
      BY <1>2, <3>2, <3>3, <3>4
    <3>6. keys' \in [Parts -> SUBSET DOMAIN keyfile']
      BY <3>3, <3>4 DEF TypeOK
    <3> QED BY <3>3, <3>4, <3>5, <3>6 DEF TypeOK
  <2>6. ASSUME NEW k \in DOMAIN keyfile, DeleteKey(p, k)  PROVE TypeOK' /\ KeysMade'
    <3> DEFINE stage == IF hotcold THEN "delhot" ELSE "open"
               s == [proc[p] EXCEPT !.stage = stage, !.file = k]
    <3>1. proc[p] \in ProcState /\ k \in Nat /\ stage \in {"delhot", "open"}
      BY <1>1, <2>6, KeyIds DEF DeleteKey
    <3>2. proc' = [proc EXCEPT ![p] = s]
      BY <2>6, Zenon DEF DeleteKey
    <3> HIDE DEF stage
    <3>3. s \in ProcState /\ s.stage = stage
      BY <3>1 DEF ProcState, Stages
    <3> HIDE DEF s
    <3>4. proc' \in [Proc -> ProcState \cup {Closed}] /\ KeysMade'
      BY <1>2, <2>6, <3>1, <3>2, <3>3 DEF DeleteKey
    <3>5. keys' \in [Parts -> SUBSET DOMAIN keyfile]
      BY <2>6 DEF DeleteKey, TypeOK, Parts
    <3> QED BY <2>6, <3>4, <3>5 DEF DeleteKey, TypeOK
  <2>7. CASE WriteKeyHot(p) \/ WriteKeyCold(p) \/ DeleteKeyHot(p)
    <3>1. PICK stage \in {"keycold", "config", "open"} : Goto(p, stage) /\ (stage = "keycold" => WriteKeyHot(p))
      BY <2>7 DEF WriteKeyHot, WriteKeyCold, DeleteKeyHot, AfterKey
    <3>2. proc' \in [Proc -> ProcState \cup {Closed}] /\ KeysMade'
      BY <1>3, <2>7, <3>1 DEF WriteKeyHot, WriteKeyCold, DeleteKeyHot, Stages
    <3>3. keys' \in [Parts -> SUBSET DOMAIN keyfile]
      BY <1>1, <2>7 DEF WriteKeyHot, WriteKeyCold, DeleteKeyHot, AddFile, TypeOK, Parts
    <3> QED BY <2>7, <3>2, <3>3 DEF WriteKeyHot, WriteKeyCold, DeleteKeyHot, TypeOK
  <2>8. CASE save_config(p) \/ save_config_hot(p)
    <3>1. PICK stage \in {"confighot", "open"} : Goto(p, stage)
      BY <2>8 DEF save_config, save_config_hot
    <3>2. proc' \in [Proc -> ProcState \cup {Closed}] /\ KeysMade'
      BY <1>3, <2>8, <3>1 DEF save_config, save_config_hot, Stages
    <3>3. \A b \in BOOLEAN : <<[proc[p].cfg EXCEPT !.is_hot = b]>> \in Optional(ConfigFile)
      BY <1>1, <2>8, HotFlag, Present DEF save_config, save_config_hot
    <3>4. config' \in [Parts -> Optional(ConfigFile)]
      BY <2>8, <3>3 DEF save_config, save_config_hot, TypeOK, Parts
    <3>5. unaware' \subseteq Proc
      BY <2>8 DEF save_config, save_config_hot, Notice, TypeOK
    <3> QED BY <2>8, <3>2, <3>4, <3>5 DEF save_config, save_config_hot, TypeOK
  <2>9. CASE InitHot(p)
    <3>1. proc' \in [Proc -> ProcState \cup {Closed}] /\ KeysMade'
      BY <1>3, <2>9 DEF InitHot, Stages
    <3> QED BY <2>9, <3>1 DEF InitHot, TypeOK
  <2>10. CASE ExportKey(p)
    BY <1>1, <2>10 DEF ExportKey, TypeOK, KeysMade
  <2>11. CASE Close(p) \/ Crash(p) \/ Fail(p)
    <3>1. PICK s \in ProcState \cup {Closed} : proc' = [proc EXCEPT ![p] = s] /\ s.stage \in {"closed", "open"}
      <4>1. CASE proc' = [proc EXCEPT ![p] = Closed]
        <5>1. Closed \in ProcState \cup {Closed} /\ Closed.stage \in {"closed", "open"}
          BY DEF Closed
        <5> QED BY <4>1, <5>1, Zenon
      <4>2. CASE proc' = [proc EXCEPT ![p] = [proc[p] EXCEPT !.stage = "open"]]
        <5> DEFINE s == [proc[p] EXCEPT !.stage = "open"]
        <5>1. proc[p] \in ProcState
          BY <1>1, <2>11 DEF Close, Crash, Fail
        <5>2. s \in ProcState /\ s.stage = "open"
          BY <5>1 DEF ProcState, Stages
        <5> QED BY <4>2, <5>2
      <4> QED BY <2>11, <4>1, <4>2 DEF Close, Crash, Fail
    <3>2. faults' \in Nat /\ UNCHANGED <<hotcold, keys, config, keyfile, inits, exported, lifted, unaware>>
      BY <2>11 DEF Close, Crash, Fail, TypeOK
    <3>3. proc' \in [Proc -> ProcState \cup {Closed}] /\ KeysMade'
      BY <1>2, <3>1, <3>2
    <3> QED BY <3>2, <3>3 DEF TypeOK
  <2> QED BY <1>6, <2>1, <2>2, <2>3, <2>4, <2>5, <2>6, <2>7, <2>8, <2>9, <2>10, <2>11 DEF ProcNext
<1> QED BY <1>4, <1>5, <1>6 DEF Next

\* What a step of a process does to the configs, in the repository and in memory: it leaves
\* them, begins an init where there is none, opens, changes its own, or writes its own.
LEMMA ModeStep ==
    ASSUME TypeOK, NEW p \in Proc, ProcNext(p)
    PROVE  /\ \A q \in Proc \ {p} : proc'[q] = proc[q]
           /\ hotcold' = hotcold /\ (lifted => lifted')
           /\ \/ /\ config' = config /\ unaware' = unaware
                 /\ proc'[p] # Closed => /\ proc[p] # Closed /\ proc'[p].cfg = proc[p].cfg
                                         /\ Rewriting(proc'[p]) => Rewriting(proc[p])
              \/ config' = config /\ \A part \in Parts : config[part] = <<>>
              \/ /\ config' = config /\ unaware' = unaware \ {p} /\ ~Rewriting(proc'[p])
                 /\ \E part \in {ReadPart, "cold"} : proc'[p].cfg.append_only = config[part][1].append_only
              \/ /\ config' = config /\ unaware' = unaware
                 /\ proc[p] # Closed /\ (~lifted' => ~proc[p].cfg.append_only)
              \/ /\ Notice(p) /\ proc[p] # Closed /\ proc'[p] # proc[p] /\ proc'[p].cfg = proc[p].cfg
                 /\ ~Rewriting(proc'[p]) /\ (config'["cold"] # config["cold"] => Rewriting(proc[p]))
                 /\ \A part \in Parts :
                       \/ config'[part] = config[part]
                       \/ config'[part] # <<>> /\ config'[part][1].append_only = proc[p].cfg.append_only
<1> DEFINE Goal ==
           /\ \A q \in Proc \ {p} : proc'[q] = proc[q]
           /\ hotcold' = hotcold /\ (lifted => lifted')
           /\ \/ /\ config' = config /\ unaware' = unaware
                 /\ proc'[p] # Closed => /\ proc[p] # Closed /\ proc'[p].cfg = proc[p].cfg
                                         /\ Rewriting(proc'[p]) => Rewriting(proc[p])
              \/ config' = config /\ \A part \in Parts : config[part] = <<>>
              \/ /\ config' = config /\ unaware' = unaware \ {p} /\ ~Rewriting(proc'[p])
                 /\ \E part \in {ReadPart, "cold"} : proc'[p].cfg.append_only = config[part][1].append_only
              \/ /\ config' = config /\ unaware' = unaware
                 /\ proc[p] # Closed /\ (~lifted' => ~proc[p].cfg.append_only)
              \/ /\ Notice(p) /\ proc[p] # Closed /\ proc'[p] # proc[p] /\ proc'[p].cfg = proc[p].cfg
                 /\ ~Rewriting(proc'[p]) /\ (config'["cold"] # config["cold"] => Rewriting(proc[p]))
                 /\ \A part \in Parts :
                       \/ config'[part] = config[part]
                       \/ config'[part] # <<>> /\ config'[part][1].append_only = proc[p].cfg.append_only
<1> SUFFICES Goal
  OBVIOUS
<1>1. ASSUME NEW s, proc' = [proc EXCEPT ![p] = s]
      PROVE  proc'[p] = s /\ \A q \in Proc \ {p} : proc'[q] = proc[q]
  BY <1>1 DEF TypeOK
<1>2. ASSUME proc[p].stage # "closed"  PROVE proc[p] \in ProcState /\ proc[p] # Closed
  BY <1>2, Active
<1>3. ASSUME NEW stage \in Stages, Goto(p, stage), proc[p].stage # "closed"
      PROVE  /\ \A q \in Proc \ {p} : proc'[q] = proc[q]
             /\ proc[p] # Closed /\ proc'[p].stage = stage /\ proc'[p].cfg = proc[p].cfg
             /\ proc'[p].init = (proc[p].init /\ stage # "open")
  <2>1. /\ proc' = [proc EXCEPT ![p] = proc'[p]] /\ proc'[p].stage = stage /\ proc'[p].cfg = proc[p].cfg
        /\ proc'[p].init = (proc[p].init /\ stage # "open")
    BY <1>2, <1>3, GotoIs DEF TypeOK
  <2> QED BY <1>1, <1>2, <1>3, <2>1
<1>4. ASSUME NEW o \in Options, NEW pw \in Password, InitStart(p, o, pw)  PROVE Goal
  <2>1. \E s : proc' = [proc EXCEPT ![p] = s]
    BY <1>4, Zenon DEF InitStart
  <2>2. UNCHANGED <<hotcold, config, lifted>> /\ \A part \in Parts : config[part] = <<>>
    BY <1>4, Zenon DEF InitStart
  <2> QED BY <1>1, <2>1, <2>2
<1>5. ASSUME NEW o \in Options, InitMasterkey(p, o)  PROVE Goal
  <2>1. \E s : proc' = [proc EXCEPT ![p] = s]
    BY <1>5, Zenon DEF InitMasterkey
  <2>2. UNCHANGED <<hotcold, config, lifted>> /\ \A part \in Parts : config[part] = <<>>
    BY <1>5, Zenon DEF InitMasterkey
  <2> QED BY <1>1, <2>1, <2>2
<1>6. ASSUME NEW o \in Options, ApplyConfig(p, o)  PROVE Goal
  <2>1. \E s : proc' = [proc EXCEPT ![p] = s]
    BY <1>6, Zenon DEF ApplyConfig
  <2>2. UNCHANGED <<hotcold, config, unaware>> /\ (lifted => lifted') /\ proc[p].stage = "open"
        /\ (~lifted' => ~proc[p].cfg.append_only)
    BY <1>6 DEF ApplyConfig
  <2> QED BY <1>1, <1>2, <2>1, <2>2
<1>7. ASSUME NEW cred \in Password \cup {"masterkey"}, NEW use_hot \in BOOLEAN, Open(p, cred, use_hot)
      PROVE  Goal
  <2>1. PICK s \in Opened(cred, use_hot) : proc' = [proc EXCEPT ![p] = s]
    BY <1>7 DEF Open
  <2>2. UNCHANGED <<hotcold, config, lifted>> /\ unaware' = unaware \ {p}
    BY <1>7 DEF Open
  <2>3. /\ \E part \in {ReadPart, "cold"} : s.cfg.append_only = config[part][1].append_only
        /\ ~Rewriting(s)
    BY OpenedProcess DEF Rewriting
  <2> QED BY <1>1, <2>1, <2>2, <2>3
<1>8. ASSUME NEW pw \in Password, AddKey(p, pw)  PROVE Goal
  <2> DEFINE s == [proc[p] EXCEPT !.stage = "keyhot", !.file = NextKey]
  <2>1. proc' = [proc EXCEPT ![p] = s] /\ proc[p].stage = "open"
        /\ UNCHANGED <<hotcold, config, lifted, unaware>>
    BY <1>8, Zenon DEF AddKey
  <2>2. s.cfg = proc[p].cfg /\ (Rewriting(s) => Rewriting(proc[p]))
    BY <1>2, <2>1 DEF ProcState, Rewriting
  <2> HIDE DEF s
  <2> QED BY <1>1, <1>2, <2>1, <2>2
<1>9. ASSUME NEW k \in DOMAIN keyfile, DeleteKey(p, k)  PROVE Goal
  <2> DEFINE stage == IF hotcold THEN "delhot" ELSE "open"
             s == [proc[p] EXCEPT !.stage = stage, !.file = k]
  <2>1. proc' = [proc EXCEPT ![p] = s] /\ proc[p].stage = "open"
        /\ UNCHANGED <<hotcold, config, lifted, unaware>>
    BY <1>9, Zenon DEF DeleteKey
  <2>2. s.cfg = proc[p].cfg /\ (Rewriting(s) => Rewriting(proc[p]))
    BY <1>2, <2>1 DEF ProcState, Rewriting
  <2> HIDE DEF s
  <2> QED BY <1>1, <1>2, <2>1, <2>2
<1>10. CASE WriteKeyHot(p) \/ WriteKeyCold(p) \/ DeleteKeyHot(p) \/ InitHot(p)
  <2>1. PICK stage \in Stages : Goto(p, stage) /\ (stage = "config" => proc[p].init /\ proc[p].stage = "keycold")
    BY <1>10 DEF WriteKeyHot, WriteKeyCold, DeleteKeyHot, InitHot, AfterKey, Stages
  <2>2. /\ proc[p].stage \in {"keyhot", "keycold", "delhot", "open"}
        /\ UNCHANGED <<hotcold, config, lifted, unaware>>
    BY <1>10 DEF WriteKeyHot, WriteKeyCold, DeleteKeyHot, InitHot
  <2>3. /\ \A q \in Proc \ {p} : proc'[q] = proc[q]
        /\ proc[p] # Closed /\ proc'[p].stage = stage /\ proc'[p].cfg = proc[p].cfg
        /\ proc'[p].init = (proc[p].init /\ stage # "open")
    BY <1>3, <2>1, <2>2
  <2>4. Rewriting(proc'[p]) => Rewriting(proc[p])
    BY <2>1, <2>2, <2>3 DEF Rewriting
  <2> QED BY <2>2, <2>3, <2>4
<1>11. CASE save_config(p) \/ save_config_hot(p)
  <2>1. PICK stage \in {"confighot", "open"} : Goto(p, stage) /\ proc[p].stage # stage
    BY <1>11 DEF save_config, save_config_hot
  <2>2. /\ proc[p].stage # "closed" /\ UNCHANGED <<hotcold, lifted>> /\ Notice(p)
        /\ config'["cold"] # config["cold"] => proc[p].stage = "config"
    BY <1>11 DEF save_config, save_config_hot, TypeOK, Parts
  <2>3. /\ \A q \in Proc \ {p} : proc'[q] = proc[q]
        /\ proc[p] # Closed /\ proc'[p] # proc[p] /\ proc'[p].cfg = proc[p].cfg
        /\ ~Rewriting(proc'[p]) /\ (config'["cold"] # config["cold"] => Rewriting(proc[p]))
    BY <1>3, <2>1, <2>2 DEF Stages, Rewriting
  <2> DEFINE c(b) == [proc[p].cfg EXCEPT !.is_hot = b]
  <2>4. \A b \in BOOLEAN : c(b) \in ConfigFile /\ c(b).append_only = proc[p].cfg.append_only
    BY <1>2, <2>2, Process, HotFlag
  <2>5. PICK a \in Parts, b \in BOOLEAN : config' = [config EXCEPT ![a] = <<c(b)>>]
    BY <1>11 DEF save_config, save_config_hot, Parts
  <2> HIDE DEF c
  <2>6. config'[a] # <<>> /\ config'[a][1] = c(b) /\ \A part \in Parts \ {a} : config'[part] = config[part]
    BY <2>4, <2>5, Present DEF TypeOK
  <2>7. \A part \in Parts :
            \/ config'[part] = config[part]
            \/ config'[part] # <<>> /\ config'[part][1].append_only = proc[p].cfg.append_only
    BY <2>4, <2>6
  <2> QED BY <2>2, <2>3, <2>7
<1>12. CASE ExportKey(p)
  <2>1. UNCHANGED <<hotcold, config, proc, lifted, unaware>> /\ proc[p].stage = "open"
    BY <1>12, Zenon DEF ExportKey
  <2> QED BY <1>2, <2>1
<1>13. CASE Close(p) \/ Crash(p) \/ Fail(p)
  <2>1. proc[p].stage # "closed" /\ UNCHANGED <<hotcold, config, lifted, unaware>>
    BY <1>13 DEF Close, Crash, Fail
  <2>2. CASE proc' = [proc EXCEPT ![p] = Closed]
    BY <1>1, <2>1, <2>2
  <2>3. CASE ~proc[p].init /\ proc' = [proc EXCEPT ![p] = [proc[p] EXCEPT !.stage = "open"]]
    <3> DEFINE s == [proc[p] EXCEPT !.stage = "open"]
    <3>1. s.cfg = proc[p].cfg /\ (Rewriting(s) => Rewriting(proc[p]))
      BY <1>2, <2>1, <2>3 DEF ProcState, Rewriting
    <3>2. proc' = [proc EXCEPT ![p] = s]
      BY <2>3
    <3> HIDE DEF s
    <3> QED BY <1>1, <1>2, <2>1, <3>1, <3>2
  <2> QED BY <1>13, <2>2, <2>3 DEF Close, Crash, Fail
<1> HIDE DEF Goal
<1> QED
  BY <1>4, <1>5, <1>6, <1>7, <1>8, <1>9, <1>10, <1>11, <1>12, <1>13, Zenon DEF ProcNext

\* Who opens after the mode was set has it in memory, and apply_config keeps it there.
LEMMA AwareStep ==
    ASSUME AppendOnlyInv, [Next]_vars
    PROVE  Aware'
<1>0. TypeOK /\ Aware
  BY DEF AppendOnlyInv
<1>1. CASE RepairKeys \/ UNCHANGED vars
  <2>1. UNCHANGED <<hotcold, config, proc, lifted, unaware>>
    BY <1>1 DEF RepairKeys, vars
  <2> QED BY <1>0, <2>1 DEF Aware, AppendOnlySet, AppendOnly, ReadPart
<1>2. ASSUME NEW p \in Proc, ProcNext(p), ~lifted', AppendOnlySet',
             NEW q \in Proc, q \notin unaware', proc'[q] # Closed
      PROVE  proc'[q].cfg.append_only /\ ~Rewriting(proc'[q])
  <2>1. /\ \A r \in Proc \ {p} : proc'[r] = proc[r]
        /\ hotcold' = hotcold /\ ~lifted /\ ReadPart \in Parts /\ "cold" \in Parts
    BY <1>0, <1>2, ModeStep DEF ReadPart, Parts
  <2>2. config' = config => AppendOnlySet
    BY <1>2, <2>1 DEF AppendOnlySet, AppendOnly, ReadPart
  <2>3. ASSUME AppendOnlySet, NEW r \in Proc, r \notin unaware, proc[r] # Closed
        PROVE  proc[r].cfg.append_only /\ ~Rewriting(proc[r])
    BY <1>0, <2>1, <2>3 DEF Aware
  <2>4. CASE /\ config' = config /\ unaware' = unaware
             /\ proc'[p] # Closed => /\ proc[p] # Closed /\ proc'[p].cfg = proc[p].cfg
                                     /\ Rewriting(proc'[p]) => Rewriting(proc[p])
    BY <1>2, <2>1, <2>2, <2>3, <2>4
  <2>5. CASE config' = config /\ \A part \in Parts : config[part] = <<>>
    BY <2>1, <2>2, <2>5 DEF AppendOnlySet, AppendOnly
  <2>6. CASE /\ config' = config /\ unaware' = unaware \ {p} /\ ~Rewriting(proc'[p])
             /\ \E part \in {ReadPart, "cold"} : proc'[p].cfg.append_only = config[part][1].append_only
    <3>1. CASE q = p
      BY <2>2, <2>6, <3>1 DEF AppendOnlySet, AppendOnly
    <3>2. CASE q # p
      BY <1>2, <2>1, <2>2, <2>3, <2>6, <3>2
    <3> QED BY <3>1, <3>2
  <2>7. CASE /\ config' = config /\ unaware' = unaware
             /\ proc[p] # Closed /\ (~lifted' => ~proc[p].cfg.append_only)
    <3>1. q # p
      BY <1>2, <2>2, <2>3, <2>7
    <3> QED BY <1>2, <2>1, <2>2, <2>3, <2>7, <3>1
  <2>8. CASE /\ Notice(p) /\ proc[p] # Closed /\ proc'[p].cfg = proc[p].cfg /\ ~Rewriting(proc'[p])
             /\ \A part \in Parts :
                   \/ config'[part] = config[part]
                   \/ config'[part] # <<>> /\ config'[part][1].append_only = proc[p].cfg.append_only
    <3>1. proc[q] # Closed /\ proc'[q].cfg = proc[q].cfg
      BY <1>2, <2>1, <2>8
    <3>2. CASE AppendOnlySet
      BY <1>2, <2>1, <2>3, <2>8, <3>1, <3>2 DEF Notice
    <3>3. CASE ~AppendOnlySet
      <4>1. q = p
        BY <1>2, <2>8, <3>1, <3>3 DEF Notice
      <4>2. proc[p].cfg.append_only
        <5>1. PICK part \in {ReadPart, "cold"} : AppendOnly(part)' /\ ~AppendOnly(part)
          BY <1>2, <2>1, <3>3 DEF AppendOnlySet, AppendOnly, ReadPart
        <5> QED BY <2>1, <2>8, <5>1 DEF AppendOnly
      <4> QED BY <2>8, <4>1, <4>2
    <3> QED BY <3>2, <3>3
  <2> QED BY <1>0, <1>2, <2>4, <2>5, <2>6, <2>7, <2>8, ModeStep
<1>3. ASSUME NEW p \in Proc, ProcNext(p)  PROVE Aware'
  BY <1>2, <1>3 DEF Aware
<1> QED BY <1>1, <1>3 DEF Next

\* With any number of processes, failed writes and stops: who opens the repository after
\* append-only mode was set in all parts neither undoes it unasked nor changes the config
\* (apply_config); only a process that was at work before can.
THEOREM AppendOnlyIsKept == Spec => AppendOnlyKept
<1>1. Init => AppendOnlyInv
  <2> SUFFICES ASSUME Init  PROVE AppendOnlyInv
    OBVIOUS
  <2>1. keyfile \in [1 .. 0 -> [mk : Nat, pw : Password]] /\ 0 \in 0 .. MaxKeys
    BY LifecycleAssumption DEF Init
  <2>2. TypeOK
    BY <2>1, Absent DEF Init, TypeOK, Parts
  <2>3. \A p \in Proc : proc[p] = Closed /\ Closed.stage = "closed"
    BY DEF Init, Closed
  <2> QED BY <2>2, <2>3 DEF AppendOnlyInv, KeysMade, Aware
<1>2. AppendOnlyInv /\ [Next]_vars => AppendOnlyInv'
  BY TypeStep, AwareStep DEF AppendOnlyInv
<1>3. AppendOnlyInv /\ [Next]_vars =>
        [AppendOnlySet /\ ~(AppendOnlySet' /\ config'["cold"] = config["cold"])
            => lifted \/ \E p \in unaware : proc[p] # Closed /\ proc'[p] # proc[p]]_vars
  <2> SUFFICES ASSUME AppendOnlyInv, [Next]_vars, AppendOnlySet, ~lifted,
                      ~(AppendOnlySet' /\ config'["cold"] = config["cold"])
               PROVE  \E p \in unaware : proc[p] # Closed /\ proc'[p] # proc[p]
    BY DEF AppendOnlyInv, TypeOK
  <2>1. TypeOK /\ Aware /\ ~RepairKeys /\ ~UNCHANGED vars
    <3>1. ~UNCHANGED <<hotcold, config>>
      BY DEF AppendOnlySet, AppendOnly, ReadPart
    <3>2. ~RepairKeys /\ ~UNCHANGED vars
      BY <3>1, Zenon DEF RepairKeys, vars
    <3> QED BY <3>2 DEF AppendOnlyInv
  <2>2. PICK p \in Proc : ProcNext(p)
    BY <2>1 DEF Next
  <2>3. /\ proc[p] # Closed /\ proc'[p] # proc[p] /\ hotcold' = hotcold
        /\ config'["cold"] # config["cold"] => Rewriting(proc[p])
        /\ \A part \in Parts :
              \/ config'[part] = config[part]
              \/ config'[part] # <<>> /\ config'[part][1].append_only = proc[p].cfg.append_only
    <3>1. hotcold' = hotcold /\ config' # config
      BY <2>1, <2>2, ModeStep DEF AppendOnlySet, AppendOnly, ReadPart
    <3> QED BY <2>1, <2>2, <3>1, ModeStep
  <2>4. ~proc[p].cfg.append_only \/ Rewriting(proc[p])
    <3>1. ReadPart' = ReadPart /\ ReadPart \in Parts /\ "cold" \in Parts
      BY <2>3 DEF ReadPart, Parts
    <3> QED BY <2>3, <3>1 DEF AppendOnlySet, AppendOnly
  <2>5. p \in unaware
    BY <2>1, <2>3, <2>4 DEF Aware
  <2> QED BY <2>3, <2>5
<1> QED BY <1>1, <1>2, <1>3, PTL DEF Spec, AppendOnlyKept

=============================================================================
