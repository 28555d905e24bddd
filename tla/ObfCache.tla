------------------------------ MODULE ObfCache ------------------------------
(***************************************************************************)
(* How PPHelper finds the obfuscated classes of the host app (HookBus,     *)
(* DexUtils, PConfig and the needObf / doObf methods of the hooks), for    *)
(* the package zuiyouLite.                                                 *)
(*                                                                         *)
(* When the process starts, initZuiyouLite initializes the hooks whose     *)
(* classes are in the cache file; the others are loaded by a background    *)
(* task that the splash screen starts, which scans the dex file key by key *)
(* and merges what it finds into the file.  The process may be killed at   *)
(* any step and the host app may be updated between two processes; file    *)
(* and settings survive.  A second splash screen while the first one is    *)
(* loading is left out.                                                    *)
(*                                                                         *)
(* The classes found for a key are abstracted to one, or None.             *)
(***************************************************************************)
EXTENDS Integers, Sequences, FiniteSets, Functions

CONSTANTS
  HookSeq,     (* zuiyouLiteHooks, the hooks with a non-empty obf()        *)
  Obf,         (* the keys of obf(), per hook                              *)
  Always,      (* hooks with isEnable() == true                            *)
  Rescans,     (* hooks whose doObf scans again when a key is missing      *)
  Reloads,     (* hooks whose doObf scans again when a class is gone       *)
  Filtered,    (* keys whose class must have a certain method in doObf     *)
  TakesFirst,  (* keys of which doObf takes the first class, l.get(0)      *)
  Loads,       (* the keys whose classes init() loads, per hook            *)
  Names,       (* names of classes of the host app                         *)
  MaxVersion,  (* bound: version codes of the host app                     *)
  ClassOf,     (* the class of a key, per version of the host app          *)
  Loadable     (* the names that are classes, per version of the host app  *)

None     == "no class"
Hooks    == {HookSeq[i] : i \in DOMAIN HookSeq}
Keys     == UNION {Obf[h] : h \in Hooks}
Versions == 1 .. MaxVersion
NoFinds  == [k \in {} |-> None]

(* The hooks with an empty obf() are left out, and every hook names keys   *)
(* of its own.                                                             *)
ASSUME HookAssumption ==
  /\ HookSeq \in Seq(Hooks)
  /\ \A h \in Hooks : Obf[h] # {} /\ IsFiniteSet(Obf[h])
  /\ \A g, h \in Hooks : g # h => Obf[g] \cap Obf[h] = {}
  /\ Always \subseteq Hooks
  /\ Rescans \subseteq Hooks /\ Reloads \subseteq Hooks
  /\ Filtered \subseteq Keys /\ TakesFirst \subseteq Keys
  /\ \A h \in Hooks : Loads[h] \subseteq Obf[h]
  /\ None \notin Names
ASSUME ClassAssumption ==
  /\ MaxVersion \in Nat \ {0}
  /\ ClassOf \in [Versions -> [Keys -> Names]]
  /\ Loadable \in [Versions -> SUBSET Names]
  /\ \A v \in Versions : \A k \in Keys : ClassOf[v][k] \in Loadable[v]

VARIABLES
  host,       (* getHostAppVersionCode()                                   *)
  found,      (* keys for which the dex file has a class                   *)
  cacheFile,  (* the file obfCachesNew: a function on the keys it holds    *)
  saved,      (* PConfig.number(package + ".version", 0)                   *)
  enabled,    (* PConfig.isEnable(label, true)                             *)
  pc,         (* off, load, splash, hook, lookup, truncate, write, apply,  *)
              (* ui: where the thread that loads is                        *)
  thread,     (* "main" for initZuiyouLite, "task" in the background       *)
  hookIdx,    (* the loop over zuiyouLiteHooks                             *)
  obfs,       (* HookBus.obfs                                              *)
  todo,       (* keys of obf() that are still to be looked up              *)
  finded,     (* what the look-ups of this hook returned                   *)
  scan,       (* what DexUtils.reCache is about to save                    *)
  deobf,      (* the static fields DEOBF_..., per key                      *)
  hooked,     (* per hook, how init() ended                                *)
  wanted      (* history: hooks that were enabled when they were loaded    *)

hostVars    == <<host, found>>
diskVars    == <<saved, enabled>>
lookupVars  == <<todo, finded, scan>>
sessionVars == <<thread, hookIdx, obfs, deobf, hooked, wanted>>
vars == <<hostVars, diskVars, cacheFile, pc, lookupVars, sessionVars>>

(* The process: nothing is loaded.                                         *)
FreshProcess ==
  [deobf |-> [k \in Keys |-> None], hooked |-> [h \in Hooks |-> "no"]]

Init ==
  /\ host = 1 /\ found \in SUBSET Keys
  /\ cacheFile = NoFinds /\ saved = 0 /\ enabled = Hooks
  /\ pc = "off" /\ thread = "main"
  /\ todo = {} /\ finded = NoFinds /\ scan = NoFinds
  /\ hookIdx = 1 /\ obfs = 0 /\ deobf = FreshProcess.deobf
  /\ hooked = FreshProcess.hooked /\ wanted = {}

-----------------------------------------------------------------------------
Hook == HookSeq[hookIdx]

(* What DexKit finds in the host app that is installed.                    *)
Find(k) == IF k \in found THEN ClassOf[host][k] ELSE None

(* f overridden by g, Map.putAll.                                          *)
PutAll(f, g) ==
  [k \in DOMAIN f \cup DOMAIN g |-> IF k \in DOMAIN g THEN g[k] ELSE f[k]]

(* PConfig.cache(): the pairs <<what is returned, what is left in the      *)
(* file>>.  An entry without a class, or an empty file, ends the loop with *)
(* an exception: the file is deleted, and what was read before is kept.    *)
Broken(f) == {k \in DOMAIN f : f[k] = None}

ReadCache(f) ==
  IF Broken(f) = {} THEN {<<f, f>>}
  ELSE {<<Restrict(f, S), NoFinds>> : S \in SUBSET (DOMAIN f \ Broken(f))}

isUpdate == saved = 0 \/ saved # host

(* needObf, on what PConfig.cache() returned.                              *)
NeedObf(h, cache) ==
  \/ isUpdate
  \/ \E k \in Obf[h] : k \notin DOMAIN cache
  \/ \E k \in Obf[h] \cap DOMAIN cache : cache[k] \notin Loadable[host]

(* doObf scans again ...  Variants: it does not; also when there is no     *)
(* class.                                                                  *)
MustRescan_Never(h, finds) == FALSE

MustRescan_Empty(h, finds) ==
  h \in Rescans /\ {k \in Obf[h] \cap DOMAIN finds : finds[k] # None} = {}

MustRescan(h, finds) ==
  \/ /\ h \in Rescans
     /\ \E k \in Obf[h] : k \notin DOMAIN finds
  \/ /\ h \in Reloads
     /\ \E k \in Obf[h] \cap DOMAIN finds :
          finds[k] # None /\ finds[k] \notin Loadable[host]

(* ... or sets the class names the hook is going to use, ...               *)
Accepts(k, name) == k \in Filtered => name = Find(k)

(* Variant: the first result is taken, whatever its key is.                *)
DoObf_AnyKey(h, finds) ==
  [k \in Keys |-> IF k \in Obf[h] /\ finds # NoFinds
                  THEN finds[CHOOSE j \in DOMAIN finds : TRUE] ELSE deobf[k]]

DoObf(h, finds) ==
  [k \in Keys |-> IF /\ k \in Obf[h] \cap DOMAIN finds
                     /\ finds[k] # None
                     /\ Accepts(k, finds[k])
                  THEN finds[k] ELSE deobf[k]]

(* ... unless it takes the first class of a key that has none.             *)
Raises(h, finds) ==
  \E k \in Obf[h] \cap TakesFirst \cap DOMAIN finds : finds[k] = None

(* doObf, then init(), which works when what it loads are classes: not all *)
(* keys of AudioDownloadHook are.  An exception leaves init() out; which   *)
(* keys it comes after is the order of a HashMap.                          *)
LoadHook(h, finds) ==
  \/ /\ ~Raises(h, finds)
     /\ deobf' = DoObf(h, finds)
     /\ hooked' = [hooked EXCEPT ![h] =
          IF \A k \in Loads[h] : deobf'[k] \in Loadable[host]
          THEN "ok" ELSE "failed"]
  \/ /\ Raises(h, finds)
     /\ \E S \in SUBSET Obf[h] :
          deobf' = [k \in Keys |-> IF k \in S THEN DoObf(h, finds)[k] ELSE deobf[k]]
     /\ hooked' = [hooked EXCEPT ![h] = "failed"]

-----------------------------------------------------------------------------
(* The host app starts, and with it the module.                            *)
StartProcess ==
  /\ pc = "off"
  /\ pc' = "load"
  /\ UNCHANGED <<hostVars, diskVars, cacheFile, lookupVars, sessionVars>>

(* initZuiyouLite: one turn of its loop, on the main thread.               *)
InitHook ==
  /\ pc = "load"
  /\ hookIdx <= Len(HookSeq)
  /\ \/ /\ Hook \notin enabled
        /\ hookIdx' = hookIdx + 1
        /\ UNCHANGED <<cacheFile, pc, finded, obfs, wanted>>
     \/ /\ Hook \in enabled
        /\ wanted' = wanted \cup {Hook}
        /\ \E r \in ReadCache(cacheFile) :
             /\ cacheFile' = IF isUpdate THEN cacheFile ELSE r[2]
             /\ \/ /\ NeedObf(Hook, r[1])
                   /\ obfs' = obfs + Cardinality(Obf[Hook])
                   /\ hookIdx' = hookIdx + 1
                   /\ UNCHANGED <<pc, finded>>
                \/ /\ ~NeedObf(Hook, r[1])         \* it reads once more
                   /\ finded' = r[2]
                   /\ pc' = "apply"
                   /\ UNCHANGED <<hookIdx, obfs>>
  /\ UNCHANGED <<hostVars, diskVars, todo, scan, thread, deobf, hooked>>

(* The end of HookBus.init: AppUtils.update.                               *)
SaveVersion ==
  /\ pc = "load"
  /\ hookIdx > Len(HookSeq)
  /\ saved' = host
  /\ pc' = "splash"
  /\ UNCHANGED <<hostVars, enabled, cacheFile, lookupVars, sessionVars>>

(* onCreate of the splash screen: nothing to look up, or the task starts.  *)
Splash ==
  /\ pc \in {"splash", "ui"}
  /\ pc' = IF obfs < 1 THEN "ui" ELSE "hook"
  /\ hookIdx' = 1
  /\ thread' = "task"
  /\ UNCHANGED <<hostVars, diskVars, cacheFile, lookupVars, obfs, deobf, hooked,
                 wanted>>

-----------------------------------------------------------------------------
(* The background task comes to a hook: needObf is asked once more.        *)
TaskHook ==
  /\ pc = "hook"
  /\ hookIdx <= Len(HookSeq)
  /\ \/ /\ Hook \notin enabled
        /\ hookIdx' = hookIdx + 1
        /\ UNCHANGED <<cacheFile, pc, lookupVars>>
     \/ /\ Hook \in enabled
        /\ \E r \in ReadCache(cacheFile) :
             /\ cacheFile' = IF isUpdate THEN cacheFile ELSE r[2]
             /\ \/ /\ ~NeedObf(Hook, r[1])
                   /\ hookIdx' = hookIdx + 1
                   /\ UNCHANGED <<pc, lookupVars>>
                \/ /\ NeedObf(Hook, r[1])
                   /\ pc' = "lookup"
                   /\ todo' = Obf[Hook] /\ finded' = NoFinds
                   /\ UNCHANGED <<hookIdx, scan>>
  /\ UNCHANGED <<hostVars, diskVars, thread, obfs, deobf, hooked, wanted>>

(* DexUtils.reCache: the dex file is scanned for the keys, the cache file  *)
(* is read, the result is merged in and is going to be saved.  Variant:    *)
(* without the merge.                                                      *)
reCache_NoMerge(keys, f) ==
  /\ scan' = [k \in keys |-> Find(k)]
  /\ cacheFile' = f
  /\ pc' = "truncate"

reCache(keys, f) ==
  /\ \E r \in ReadCache(f) :
       /\ scan' = PutAll(r[1], [k \in keys |-> Find(k)])
       /\ cacheFile' = r[2]
  /\ pc' = "truncate"

(* DexUtils.obf for one key: the cache, if it has as many entries as were  *)
(* asked for, else a scan.  The file is read for each of the two tests and *)
(* for the result; the first read may have deleted it.                     *)
Lookup ==
  /\ pc = "lookup"
  /\ \E k \in todo :
       /\ todo' = todo \ {k}
       /\ \E r \in ReadCache(cacheFile) :
            \/ /\ r[1] # NoFinds /\ Cardinality(DOMAIN r[2]) = 1
               /\ finded' = PutAll(finded, r[2])
               /\ cacheFile' = r[2]
               /\ pc' = IF todo' = {} THEN "apply" ELSE "lookup"
               /\ UNCHANGED scan
            \/ /\ r[1] = NoFinds \/ Cardinality(DOMAIN r[2]) # 1
               /\ reCache({k}, r[2])
               /\ UNCHANGED finded
  /\ UNCHANGED <<hostVars, diskVars, sessionVars>>

(* PConfig.cache(finds): FileOutputStream empties the file, ...            *)
TruncateFile ==
  /\ pc = "truncate"
  /\ cacheFile' = NoFinds
  /\ pc' = "write"
  /\ UNCHANGED <<hostVars, diskVars, lookupVars, sessionVars>>

(* ... and the entries are written.                                        *)
WriteFile ==
  /\ pc = "write"
  /\ cacheFile' = scan
  /\ finded' = PutAll(finded, scan)
  /\ pc' = IF todo = {} THEN "apply" ELSE "lookup"
  /\ UNCHANGED <<hostVars, diskVars, todo, scan, sessionVars>>

(* doObf and init of the hook, with all that was looked up or cached.      *)
ApplyFinds ==
  /\ pc = "apply"
  /\ \/ /\ MustRescan(Hook, finded)
        /\ reCache(Obf[Hook], cacheFile)
        /\ UNCHANGED <<hookIdx, deobf, hooked>>
     \/ /\ ~MustRescan(Hook, finded)
        /\ LoadHook(Hook, finded)
        /\ hookIdx' = hookIdx + 1
        /\ pc' = IF thread = "main" THEN "load" ELSE "hook"
        /\ UNCHANGED <<cacheFile, scan>>
  /\ UNCHANGED <<hostVars, diskVars, todo, finded, thread, obfs, wanted>>

(* The task posts to the main thread, which opens the host's own screen.   *)
TaskDone ==
  /\ pc = "hook"
  /\ hookIdx > Len(HookSeq)
  /\ pc' = "ui"
  /\ UNCHANGED <<hostVars, diskVars, cacheFile, lookupVars, sessionVars>>

-----------------------------------------------------------------------------
(* A switch of the settings screen.                                        *)
SetEnable ==
  /\ pc = "ui"
  /\ \E h \in Hooks \ Always :
       enabled' = IF h \in enabled THEN enabled \ {h} ELSE enabled \cup {h}
  /\ UNCHANGED <<hostVars, saved, cacheFile, pc, lookupVars, sessionVars>>

(* The process ends, at any point.                                         *)
Kill ==
  /\ pc # "off"
  /\ pc' = "off"
  /\ todo' = {} /\ finded' = NoFinds /\ scan' = NoFinds
  /\ thread' = "main" /\ hookIdx' = 1 /\ obfs' = 0 /\ wanted' = {}
  /\ deobf' = FreshProcess.deobf /\ hooked' = FreshProcess.hooked
  /\ UNCHANGED <<hostVars, diskVars, cacheFile>>

(* The store installs the next version of the host app.                    *)
UpdateHost ==
  /\ pc = "off"
  /\ host < MaxVersion
  /\ host' = host + 1
  /\ UNCHANGED <<found, diskVars, cacheFile, pc, lookupVars, sessionVars>>

LoadStep ==
  \/ InitHook \/ SaveVersion \/ TaskHook \/ Lookup \/ TruncateFile
  \/ WriteFile \/ ApplyFinds \/ TaskDone

Next ==
  \/ LoadStep
  \/ StartProcess \/ Splash \/ SetEnable \/ Kill \/ UpdateHost

Spec == Init /\ [][Next]_vars

(* The two threads run until the loading is done.                          *)
FairSpec == Spec /\ WF_vars(LoadStep)

-----------------------------------------------------------------------------
Finds == UNION {[S -> Names \cup {None}] : S \in SUBSET Keys}

(* Every variable keeps its type.                                          *)
TypeOK ==
  /\ host \in Versions /\ found \subseteq Keys
  /\ cacheFile \in Finds /\ finded \in Finds /\ scan \in Finds
  /\ saved \in Versions \cup {0} /\ enabled \subseteq Hooks
  /\ pc \in {"off", "load", "splash", "hook", "lookup", "truncate", "write",
             "apply", "ui"}
  /\ thread \in {"main", "task"}
  /\ hookIdx \in 1 .. Len(HookSeq) + 1 /\ obfs \in 0 .. Cardinality(Keys)
  /\ todo \subseteq Keys
  /\ deobf \in [Keys -> Names \cup {None}]
  /\ hooked \in [Hooks -> {"no", "ok", "failed"}] /\ wanted \subseteq Hooks

Loaded == pc = "ui"

NeverUpdated == host = 1

(* needObf, DexUtils, doObf: while the host app stays the same, a hook     *)
(* that scans again for a missing key works once the loading is done,      *)
(* whatever was switched on and off, in whichever state a killed process   *)
(* left the cache file and whichever other keys have no class.             *)
RescanningHooksWork ==
  Loaded /\ NeverUpdated => \A h \in wanted \cap Rescans :
    Obf[h] \subseteq found =>
      /\ hooked[h] = "ok"
      /\ \A k \in Obf[h] : deobf[k] = Find(k)

(* DexUtils.reCache: when every key has a class, a class that was set for  *)
(* a hook is kept in the cache file, and of the hooks that scan again all  *)
(* keys are, so that the next process needs no scan for them: no scan      *)
(* loses what others found.  (AudioDownloadHook, which does not scan       *)
(* again, may be loaded with some of its keys only.)                       *)
CacheKeepsLoaded ==
  Loaded /\ found = Keys =>
    \A h \in wanted :
      /\ \A k \in Obf[h] : deobf[k] # None => k \in DOMAIN cacheFile
      /\ h \in Rescans => Obf[h] \subseteq DOMAIN cacheFile

NamesAreFresh ==
  \A v, w \in Versions : \A k \in Keys :
    ClassOf[v][k] \in Loadable[w] => ClassOf[v][k] = ClassOf[w][k]

(* doObf and init: provided that the names of classes are not given to     *)
(* other classes in the next version, a hook whose init succeeded has      *)
(* hooked the classes of the version that is installed, and what its other *)
(* fields hold is the right class or none that can be loaded: the empty    *)
(* string, or a name from before the update.                               *)
RightClasses ==
  NamesAreFresh =>
    \A h \in Hooks : hooked[h] = "ok" =>
      /\ \A k \in Loads[h] : deobf[k] = Find(k)
      /\ \A k \in Obf[h] : deobf[k] \in Loadable[host] => deobf[k] = Find(k)

(* hook/BaseHook.java documents needObf with "whether a deobfuscation is   *)
(* needed": when the task passes over a hook that was to be loaded, the    *)
(* hook uses the classes of the installed version.                         *)
NeedObfIsRight ==
  pc = "ui" /\ found = Keys => \A h \in wanted : hooked[h] # "no"

(* The splash screen is left: no scan repeats itself for ever.             *)
LoadingEnds == pc \in {"load", "hook"} ~> pc \in {"splash", "ui", "off"}
=============================================================================
